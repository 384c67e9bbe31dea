--------------------------- MODULE MCManagerExport ---------------------------
(***************************************************************************)
(* Instances of ManagerExport for TLC.                                     *)
(***************************************************************************)
EXTENDS ManagerExport, TLC

Symmetry == Permutations(Requests) \cup Permutations(Targets)
=============================================================================
