------------------------- MODULE MCManagerScheduler -------------------------
(***************************************************************************)
(* Instances of ManagerScheduler for TLC.                                  *)
(***************************************************************************)
EXTENDS ManagerScheduler, TLC

Symmetry == Permutations(Ids) \cup Permutations(Users)
=============================================================================
