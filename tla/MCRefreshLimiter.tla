-------------------------- MODULE MCRefreshLimiter --------------------------
(* Small instances of RefreshLimiter for TLC.                                *)
EXTENDS RefreshLimiter, TLC

Symmetry == Permutations(Key)
=============================================================================
