\* Two keys, files and workspaces and one reader in a budget of one or two entries, which are
\* retained and expire; restarts; no symmetry, since a property is temporal.
CONSTANTS
  Key = {k1, k2}
  File = {f1, f2}
  Body = {b1}
  Work = {w1, w2}
  NoKey = NoKey
  NoFile = NoFile
  NoWork = NoWork
  Capacity = {1, 2}
  Total = {1}
  Chunk = {1}
  Lifetime <- JustRetained
  MaxHolders = 1
  MaxTime = 1
SPECIFICATION FairSpec
INVARIANTS Accounting WithinBudget ReadersCharged
PROPERTIES RetiredReleased
