---------------------------- MODULE MCSourceFetch ----------------------------
(* Small instances of SourceFetch for TLC.                                   *)
EXTENDS SourceFetch, TLC

Symmetry == Permutations(Request)
=============================================================================
