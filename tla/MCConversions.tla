---------------------------- MODULE MCConversions ----------------------------
(***************************************************************************)
(* The conversions for TLC: rule sets, nodes and the replacement of        *)
(* addresses.  A behaviour is one of one of them; the variables of the     *)
(* others keep a value that means nothing.                                 *)
(***************************************************************************)
EXTENDS Conversions

rules     == <<target, local, nore, stage, urls, source, todo, answers, parts, total, selected,
               incomplete, hasBody, files, workspace, result>>
nodes     == <<form, doc, extra>>
addresses == <<text, read, pending, final, written, phase>>

NoRules ==
    /\ target = "idle" /\ local = "idle" /\ nore = "idle" /\ stage = "idle" /\ urls = "idle"
    /\ source = "idle" /\ todo = "idle" /\ answers = "idle" /\ parts = "idle" /\ total = "idle"
    /\ selected = "idle" /\ incomplete = "idle" /\ hasBody = "idle"
    /\ files = "idle" /\ workspace = "idle" /\ result = "idle"
NoNodes == form = "idle" /\ doc = "idle" /\ extra = "idle"
NoAddresses ==
    text = <<>> /\ read = 0 /\ pending = <<>> /\ final = FALSE /\ written = <<>> /\ phase = "idle"

MCInit ==
    \/ Conversion!Init /\ NoNodes /\ NoAddresses
    \/ Nodes!Init /\ NoRules /\ NoAddresses
    \/ Addresses!Init /\ NoRules /\ NoNodes

MCNext ==
    \/ stage # "idle" /\ Conversion!Next /\ UNCHANGED <<nodes, addresses>>
    \/ form # "idle" /\ Nodes!Next /\ UNCHANGED <<rules, addresses>>
    \/ phase # "idle" /\ Addresses!Next /\ UNCHANGED <<rules, nodes>>

MCSpec == MCInit /\ [][MCNext]_<<rules, nodes, addresses>>

Rule(id, type) == [id |-> id, type |-> type, comment |-> FALSE, y |-> FALSE, x |-> FALSE, flag |-> FALSE,
                   bare |-> FALSE, path |-> FALSE, domain |-> FALSE]

\* One line of each sort that is treated in a way of its own.
Sample ==
    {[Rule("name", "DOMAIN") EXCEPT !.bare = TRUE, !.x = TRUE], Rule("host", "HOST"),
     [Rule("logical", "AND") EXCEPT !.domain = TRUE],
     [Rule("commented", "DOMAIN-SUFFIX") EXCEPT !.comment = TRUE, !.y = TRUE],
     [Rule("excluded", "DOMAIN") EXCEPT !.x = TRUE], Rule("wild", "HOST-WILDCARD"),
     Rule("cidr", "IP-CIDR"), [Rule("bare", "IP-CIDR") EXCEPT !.bare = TRUE],
     [Rule("process", "PROCESS-NAME") EXCEPT !.path = TRUE], Rule("port", "DEST-PORT"),
     [Rule("comment", "DOMAIN") EXCEPT !.comment = TRUE]}

AllTargets == [client : {"surge", "shadowrocket", "loon", "stash"}, set : {"rules", "domains", "others"}]

\* As in the addresses: the long pattern has one symbol more after the common beginning.
LongPattern  == <<"h", "s", "h", "/">>
ShortPattern == <<"h", "h", "/">>
OtherBase    == <<"b">>
=============================================================================
