------------------------------ MODULE RuleStream ------------------------------
(***************************************************************************)
(* Conversion of rule sets: internal/rule/stream.go, and internal/rule/    *)
(* parser.go, whose Parse does the same in memory.                         *)
(*                                                                         *)
(* ParseStream downloads one source after the other into a file, and puts  *)
(* each line it keeps into one of three files; in the end it writes the    *)
(* counts and the parts into a fourth one, which the response reads.       *)
(* Every call of the disk cache may fail, and the request be cancelled.    *)
(*                                                                         *)
(* A line is a record: its type, whether it is commented out, whether the  *)
(* arguments y and x (include and exclude) occur in it, whether it is bare *)
(* (without a comma: the type is told from its shape), has the flag        *)
(* no-resolve, names a path, or has a domain in a logical rule.  Policies, *)
(* extended matching and all spelling are left out.  A source is the       *)
(* sequence of its lines.                                                  *)
(*                                                                         *)
(* An operator named ...Mutant is the one below it with a plausible bug.   *)
(***************************************************************************)
EXTENDS Naturals, Sequences, FiniteSets

CONSTANTS
    Lines,          \* lines that sources may have
    Targets,        \* [client, set]: "surge", "shadowrocket", "loon" or "stash", and
                    \* "rules", "domains" (domain-set) or "others" (domain-set2)
    MaxUrls, MaxLines   \* bounds: of sources, and of lines of one

VARIABLES
    target, local, nore,    \* the input: localtext is a sequence of lines
    pc, urls,               \* urls: how many are left
    source, todo,           \* what the source file holds, and what is left to scan
    bodies,                 \* history: what each source was answered with
    parts,                  \* the files of the three classes
    total, selected,        \* counts of the header (the others are lengths of parts)
    incomplete, hasBody,
    files, workspace,       \* open files; "open", "body" (of the response) or "closed"
    result                  \* what was written

input  == <<target, local, nore>>
output == <<parts, total, selected>>
flags  == <<incomplete, hasBody>>
vars   == <<input, pc, urls, source, todo, bodies, output, flags, files, workspace, result>>

-----------------------------------------------------------------------------
(* parse: one line.                                                          *)

Logical == {"AND"}

\* y takes a comment mark away and x puts one on, before comments are dropped.
Kept(l)     == l.type # "blank" /\ (~l.comment \/ l.y \/ l.x)
\* The mark is looked for where a bare line has its type by now.
Excluded(l) == l.x /\ ~l.bare

\* normalizeRuleType.
Normal(type) == CASE type = "HOST" -> "DOMAIN"
                  [] type = "HOST-WILDCARD" -> "HO-ST-WILDCARD"
                  [] type = "DEST-PORT" -> "DST-PORT"
                  [] OTHER -> type

\* isUnsupportedForTarget, and logical rules.
Unsupported(client, type) ==
    \/ type = "HO-ST-WILDCARD"
    \/ client = "stash" /\ type \in {"USER-AGENT", "URL-REGEX", "PROTOCOL"} \cup Logical
    \/ client = "loon" /\ type \in {"DST-PORT", "PROTOCOL", "PROCESS-NAME"} \cup Logical

\* The flag is appended to the lines that begin with an IP type.
NoResolve(l) == l.flag \/ (nore /\ l.type \in {"IP-CIDR", "IP-CIDR6"} /\ ~l.bare /\ ~l.x)

\* formatSurgeRule, formatLoonRule, formatStashRule.
Formatted(client, l) ==
    LET type == Normal(l.type) IN
    [type |-> CASE type = "DST-PORT" /\ client = "surge" -> "DEST-PORT"
                [] type = "PROCESS-PATH" /\ client \in {"surge", "shadowrocket"} -> "PROCESS-NAME"
                [] type \in {"PROCESS-NAME", "PROCESS-PATH"} /\ client = "stash" ->
                        IF l.path THEN "PROCESS-PATH" ELSE "PROCESS-NAME"
                [] OTHER -> type,
     line |-> l.id, mark |-> l.x, noResolve |-> NoResolve(l) /\ type \notin Logical]

\* A logical rule with a domain in it contains "DOMAIN," as well.
IsDomain(l) == Normal(l.type) \in {"DOMAIN", "DOMAIN-SUFFIX"} \/ (l.type \in Logical /\ l.domain)

Selected(l) == CASE target.set = "rules"   -> TRUE
                 [] target.set = "domains" -> IsDomain(l)
                 [] target.set = "others"  -> ~IsDomain(l)

\* In a domain set the type is taken off, unless the rule is logical.
Entry(l) ==
    LET f == Formatted(target.client, l) IN
    IF target.set = "domains" /\ f.type \notin Logical
    THEN [f EXCEPT !.type = IF @ = "DOMAIN" THEN "" ELSE ".",
                   !.noResolve = @ /\ target.client # "stash"]
    ELSE f

-----------------------------------------------------------------------------
(* Parse: all of it in memory.                                               *)

\* All of the lines of a sequence of texts.
Concat(bs) == LET f[i \in 0..Len(bs)] == IF i = 0 THEN <<>> ELSE f[i-1] \o bs[i] IN f[Len(bs)]
\* The lines of s that are in C.
Those(s, C) == Concat([i \in DOMAIN s |-> IF s[i] \in C THEN <<s[i]>> ELSE <<>>])
Ids(s)      == [i \in DOMAIN s |-> s[i].id]

\* What becomes of a line.
Struck  == {l \in Lines : Kept(l) /\ Excluded(l)}
Refused == {l \in Lines : Kept(l) /\ ~Excluded(l) /\ Unsupported(target.client, Normal(l.type))}
Rules   == {l \in Lines : Kept(l) /\ ~Excluded(l) /\ ~Unsupported(target.client, Normal(l.type))}
Chosen  == {l \in Rules : Selected(l)}

Nothing == [total |-> 0, selected |-> <<>>, unsupported |-> <<>>, excluded |-> <<>>, blank |-> TRUE]

Parsed(lines, any) ==
    LET chosen == Those(lines, Chosen) IN
    IF ~any \/ (target.set # "rules" /\ chosen = <<>>) THEN Nothing
    ELSE [total |-> Len(Those(lines, Rules)), selected |-> [i \in DOMAIN chosen |-> Entry(chosen[i])],
          unsupported |-> Ids(Those(lines, Refused)), excluded |-> Ids(Those(lines, Struck)), blank |-> FALSE]

\* Parse joins what was downloaded, a comment for each 404, and localtext.
BodyOf(b) == IF b.status = "ok" THEN b.lines ELSE <<>>
Parse ==
    Parsed(Concat([i \in DOMAIN bodies |-> BodyOf(bodies[i])]) \o local,
           local # <<>> \/ \E i \in DOMAIN bodies : bodies[i].status = "404" \/ BodyOf(bodies[i]) # <<>>)

-----------------------------------------------------------------------------
(* ParseStream.                                                              *)

Parts == {"supported", "unsupported", "excluded"}
Texts == UNION {[1..n -> Lines] : n \in 0..MaxLines}

Init ==
    /\ target \in Targets /\ nore \in BOOLEAN
    /\ local \in {<<>>} \cup {<<l>> : l \in Lines}
    /\ urls \in 0..MaxUrls
    /\ pc = "create" /\ source = <<>> /\ todo = <<>> /\ bodies = <<>>
    /\ parts = [p \in Parts |-> <<>>] /\ total = 0 /\ selected = 0
    /\ incomplete = FALSE /\ hasBody = FALSE
    /\ files = {} /\ workspace = "open" /\ result = Nothing

\* The four files; a failure on the way is one of Break.
Create ==
    /\ pc = "create"
    /\ LET f == CHOOSE f \in Parts \cup {"source"} : f \notin files IN
       /\ files' = files \cup {f}
       /\ pc' = IF files' = Parts \cup {"source"} THEN "fetch" ELSE pc
    /\ UNCHANGED <<input, urls, source, todo, bodies, output, flags, workspace, result>>

\* A bug: what a failed download left is scanned with the next source.
ResetMutant == source
\* Source.Reset.
Reset == <<>>

\* GetTo, into the file: complete, or broken off, or an answer that is not a source.
Fetch ==
    /\ pc = "fetch" /\ urls > 0
    /\ urls' = urls - 1
    /\ \E t \in Texts, status \in {"ok", "404", "failed"} :
        /\ status = "404" => t = <<>>
        /\ source' = Reset \o t
        /\ bodies' = Append(bodies, [status |-> status, lines |-> t])
        /\ IF status = "ok" THEN todo' = source' /\ pc' = "scan" ELSE UNCHANGED <<todo, pc>>
        /\ incomplete' = (incomplete \/ status # "ok")
        /\ hasBody' = (hasBody \/ status = "404" \/ (status = "ok" /\ source' # <<>>))
    /\ UNCHANGED <<input, output, files, workspace, result>>

Put(p, item) == parts' = [parts EXCEPT ![p] = Append(@, item)]

\* consume.
Scan ==
    /\ pc \in {"scan", "local"} /\ todo # <<>>
    /\ LET l == Head(todo) IN
       IF ~Kept(l) THEN UNCHANGED output
       ELSE IF Excluded(l) THEN Put("excluded", l.id) /\ UNCHANGED <<total, selected>>
       ELSE IF Unsupported(target.client, Normal(l.type))
            THEN Put("unsupported", l.id) /\ UNCHANGED <<total, selected>>
       ELSE /\ total' = total + 1
            /\ IF Selected(l) THEN Put("supported", Entry(l)) /\ selected' = selected + 1
               ELSE UNCHANGED <<parts, selected>>
    /\ todo' = Tail(todo)
    /\ UNCHANGED <<input, pc, urls, source, bodies, flags, files, workspace, result>>

Scanned ==
    /\ pc = "scan" /\ todo = <<>>
    /\ pc' = "fetch"
    /\ UNCHANGED <<input, urls, source, todo, bodies, output, flags, files, workspace, result>>

Local ==
    /\ pc = "fetch" /\ urls = 0
    /\ todo' = local /\ hasBody' = (hasBody \/ local # <<>>)
    /\ pc' = "local"
    /\ UNCHANGED <<input, urls, source, bodies, output, incomplete, files, workspace, result>>

\* The source is emptied, the parts are flushed and the last file is created.
CreateOutput ==
    /\ pc = "local" /\ todo = <<>>
    /\ source' = <<>> /\ files' = files \cup {"output"}
    /\ pc' = "assemble"
    /\ UNCHANGED <<input, urls, todo, bodies, output, flags, workspace, result>>

Empty == ~hasBody \/ (target.set # "rules" /\ selected = 0)

\* Header and parts; the response has the file now, the others are closed.
Assemble ==
    /\ pc = "assemble"
    /\ result' = IF Empty THEN Nothing
                 ELSE [total |-> total, selected |-> parts["supported"],
                       unsupported |-> parts["unsupported"], excluded |-> parts["excluded"], blank |-> FALSE]
    /\ files' = {"output"} /\ workspace' = "body"
    /\ pc' = "done"
    /\ UNCHANGED <<input, urls, source, todo, bodies, output, flags>>

\* FileBody.Close: the cleanup closes the workspace.
Close ==
    /\ pc = "done"
    /\ files' = {} /\ workspace' = "closed" /\ pc' = "closed"
    /\ UNCHANGED <<input, urls, source, todo, bodies, output, flags, result>>

\* A bug: the file of the output is not among those that are closed.
BrokenMutant == files \cap {"output"}
Broken == {}

\* An error of the disk or the cache, or the cancellation of the request: the deferred
\* calls close everything.
Break ==
    /\ pc \in {"create", "fetch", "scan", "local", "assemble"}
    /\ files' = Broken /\ workspace' = "closed" /\ pc' = "failed"
    /\ UNCHANGED <<input, urls, source, todo, bodies, output, flags, result>>

Next == Create \/ Fetch \/ Scan \/ Scanned \/ Local \/ CreateOutput \/ Assemble \/ Close \/ Break

Spec == Init /\ [][Next]_vars

-----------------------------------------------------------------------------
(* Properties.                                                               *)

\* What is streamed is what Parse gives for the same answers of the sources: the same
\* counts, lines and order, whatever was downloaded in part; and it is marked incomplete,
\* which keeps it out of the cache, exactly when a source failed.
SameAsParse ==
    pc = "done" =>
        /\ result = Parse
        /\ incomplete = \E i \in DOMAIN bodies : bodies[i].status # "ok"

\* However the conversion ends, its files and its workspace are closed, or the one file that
\* the response reads is all that is open.
NothingLeaked ==
    /\ pc \in {"failed", "closed"} => files = {} /\ workspace = "closed"
    /\ pc = "done" => files = {"output"} /\ workspace = "body"

\* Not true of the code: a line that the argument x excludes is not among the rules (parse).
ExcludedLeftOut ==
    pc = "done" => \A i \in DOMAIN result.selected : ~result.selected[i].mark
=============================================================================
