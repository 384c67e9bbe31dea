--------------------------- MODULE MCConvertFlight ---------------------------
(* Small instances of ConvertFlight for TLC.                                 *)
EXTENDS ConvertFlight, TLC

Symmetry == Permutations(Request)
=============================================================================
