----------------------------- MODULE ReplaceStream -----------------------------
(***************************************************************************)
(* Replacing the placeholder address in a response that is sent from a     *)
(* file (internal/server/stream.go): the text arrives in reads of any      *)
(* size, and what may be the beginning of a pattern is held back.          *)
(*                                                                         *)
(* A text is a sequence of symbols.  As the two spellings in the code, the *)
(* patterns begin alike, one has a symbol more, and neither can begin      *)
(* inside itself or the other unless it is broken off there.               *)
(*                                                                         *)
(* An operator named ...Mutant is the one below it with a plausible bug.   *)
(***************************************************************************)
EXTENDS Naturals, Sequences, FiniteSets

CONSTANTS
    Symbols,
    Long, Short,        \* "https://script.hub/" and "http://script.hub/": sequences of symbols
    Base,               \* what is put in their place
    MaxText             \* bound: length of a text

\* What is held back for the longer pattern is enough for the other one.
PatternsFit ==
    /\ {Long, Short} \subseteq Seq(Symbols) /\ Base \in Seq({Base[i] : i \in DOMAIN Base})
    /\ 0 < Len(Short) /\ Len(Short) <= Len(Long) /\ MaxText \in Nat

VARIABLES
    text, read,         \* the file, and how much of it has been read
    pending, final,     \* read and not yet written; whether the end was met
    written, phase

vars == <<text, read, pending, final, written, phase>>

\* bytes.Index: the places where p occurs in s.
Places(p, s) == {i \in 1..Len(s) : i + Len(p) - 1 <= Len(s) /\ SubSeq(s, i, i + Len(p) - 1) = p}
\* The leftmost place of a pattern, and the pattern.
Found(s)   == Places(Long, s) \cup Places(Short, s)
First(s)   == CHOOSE i \in Found(s) : \A j \in Found(s) : i <= j
Pattern(s) == IF First(s) \in Places(Long, s) THEN Long ELSE Short

Init ==
    /\ text \in UNION {[1..n -> Symbols] : n \in 0..MaxText}
    /\ read = 0 /\ pending = <<>> /\ final = FALSE /\ written = <<>> /\ phase = "read"

\* src.Read: anything from nothing to all of the rest; the end may come with it, or later.
Read ==
    /\ phase = "read"
    /\ \E n \in read..Len(text) :
        /\ read' = n
        /\ pending' = pending \o SubSeq(text, read + 1, n)
        /\ final' \in IF n = Len(text) THEN BOOLEAN ELSE {FALSE}
    /\ phase' = "drain"
    /\ UNCHANGED <<text, written>>

\* A bug: what the shorter pattern needs is held back.
KeepMutant == IF final THEN 0 ELSE Len(Short) - 1
\* drain: what may be the beginning of a pattern is held back.
Keep == IF final THEN 0 ELSE Len(Long) - 1

Safe    == Len(pending) - Keep
Settled == Found(pending) # {} /\ First(pending) <= Safe

Replace ==
    /\ phase = "drain" /\ Len(pending) > Keep
    /\ Settled
    /\ written' = written \o SubSeq(pending, 1, First(pending) - 1) \o Base
    /\ pending' = SubSeq(pending, First(pending) + Len(Pattern(pending)), Len(pending))
    /\ UNCHANGED <<text, read, final, phase>>

Copy ==
    /\ phase = "drain" /\ Len(pending) > Keep
    /\ ~Settled
    /\ written' = written \o SubSeq(pending, 1, Safe)
    /\ pending' = SubSeq(pending, Safe + 1, Len(pending))
    /\ phase' = IF final THEN "done" ELSE "read"
    /\ UNCHANGED <<text, read, final>>

Drained ==
    /\ phase = "drain" /\ Len(pending) <= Keep
    /\ phase' = IF final THEN "done" ELSE "read"
    /\ UNCHANGED <<text, read, pending, final, written>>

\* A read or a write fails: the response ends there.
Break ==
    /\ phase \in {"read", "drain"}
    /\ phase' = "broken"
    /\ UNCHANGED <<text, read, pending, final, written>>

Next == Read \/ Replace \/ Copy \/ Drained \/ Break

Spec == Init /\ [][Next]_vars

-----------------------------------------------------------------------------
\* What becomes of the rest of s that begins at i, with every pattern replaced from the left.
Rest(s) ==
    LET from[i \in 1..Len(s) + 1] ==
            IF i > Len(s) THEN <<>>
            ELSE IF i \in Places(Long, s) THEN Base \o from[i + Len(Long)]
            ELSE IF i \in Places(Short, s) THEN Base \o from[i + Len(Short)]
            ELSE <<s[i]>> \o from[i + 1]
    IN from
Replaced(s) == Rest(s)[1]

\* Wherever the reads cut the text, what has been written is a beginning of the text with all
\* addresses replaced, and in the end it is all of it.
ReplacedInOrder ==
    LET whole == Replaced(text) IN
    /\ Len(written) <= Len(whole) /\ written = SubSeq(whole, 1, Len(written))
    /\ phase = "done" => written = whole
=============================================================================
