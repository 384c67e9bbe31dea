----------------------------- MODULE MCDiskCache -----------------------------
(* Small instances of DiskCache for TLC.                                     *)
EXTENDS DiskCache, TLC

\* Entries that are stale at once but retained.
JustRetained == {<<0, 1>>}
\* Entries that outlive the run.
OnlyLong == {<<1, 0>>}

Symmetry == Permutations(File) \cup Permutations(Body) \cup Permutations(Work)
               \cup Permutations(Key)
=============================================================================
