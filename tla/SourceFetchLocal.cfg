\* Errors of the caller and of the disk.
CONSTANTS
  Request = {r1, r2}
  Key = {k1}
  Cooldown = 1
  MaxFailures = 1
  MaxTime = 2
  MaxVersion = 1
  NoKey = NoKey
  NoOne = NoOne
SPECIFICATION Spec
CHECK_DEADLOCK FALSE
INVARIANTS UpstreamOnly
