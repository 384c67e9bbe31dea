--------------------------- MODULE MCManagerStore ---------------------------
(***************************************************************************)
(* Instances of ManagerStore for TLC.                                      *)
(***************************************************************************)
EXTENDS ManagerStore, TLC

CONSTANTS x, y

\* Subscriptions, whose bodies have different names and sizes.
Kinds == [i \in Ids |-> "subscriptions"]
Names == [c \in Bodies |-> c]
Sizes == [c \in Bodies |-> IF c = x THEN 1 ELSE 2]
\* At the first start there is a small document.
First == {[i \in Ids |-> IF i = j THEN [body |-> x, rev |-> 0, share |-> NoToken] ELSE NoDoc] : j \in Ids}
Given == {[i \in Ids |-> IF i \in S THEN [body |-> y, share |-> NoToken] ELSE NoDoc] :
            S \in (SUBSET Ids) \ {{}}}

Symmetry == Permutations(Ids) \cup Permutations(Clients) \cup Permutations(Gens)
=============================================================================
