----------------------------- MODULE Conversions -----------------------------
(***************************************************************************)
(* The conversions beside each other: of rule sets (RuleStream), of nodes  *)
(* (NodeFormats), and the replacement of addresses in what is sent         *)
(* (ReplaceStream).  They share no state.  What each promises has its name *)
(* here.                                                                   *)
(***************************************************************************)
EXTENDS Naturals, Sequences, FiniteSets

CONSTANTS
    Lines, Targets, MaxUrls, MaxLines,              \* of RuleStream
    Types, MaxExtra,                                \* of NodeFormats
    Symbols, Long, Short, Base, MaxText             \* of ReplaceStream

VARIABLES
    target, local, nore, stage, urls, source, todo, answers, parts, total, selected,
    incomplete, hasBody, files, workspace, result,  \* of RuleStream
    form, doc, extra,                               \* of NodeFormats
    text, read, pending, final, written, phase      \* of ReplaceStream

Conversion == INSTANCE RuleStream WITH pc <- stage, bodies <- answers
Nodes      == INSTANCE NodeFormats
Addresses  == INSTANCE ReplaceStream

ASSUME BoundAssumption    == {MaxUrls, MaxLines, MaxExtra} \subseteq Nat
ASSUME TypesAssumption    == Types \subseteq Nodes!Protocols
ASSUME PatternsAssumption == Addresses!PatternsFit

\* What is streamed is what Parse gives for the same answers of the sources (RuleStream).
SameAsParse == Conversion!SameAsParse
\* However a conversion ends, its files and its workspace are closed or belong to the
\* response (RuleStream).
NothingLeaked == Conversion!NothingLeaked
\* Not true of the code: a line that the argument x excludes is not among the rules (RuleStream).
ExcludedLeftOut == Conversion!ExcludedLeftOut
\* A node that is written as a link is read again as the same node (NodeFormats).
RoundTrip == form # "idle" => Nodes!RoundTrip
\* No field of a node is dropped silently by an export (NodeFormats).
NothingDropped == [][form # "idle" => Nodes!KeepsMeaning]_<<form, doc, extra>>
\* No parameter of a link is ignored, the host of a VMess link over gRPC left aside (NodeFormats).
NoneIgnored == [][form # "idle" => Nodes!ShowsOrFails]_<<form, doc, extra>>
\* What is written is the text with every address replaced (ReplaceStream).
ReplacedInOrder == Addresses!ReplacedInOrder
=============================================================================
