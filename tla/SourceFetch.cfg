\* Three requests for one source that changes once.
CONSTANTS
  Request = {r1, r2, r3}
  Key = {k1}
  Cooldown = 1
  MaxFailures = 2
  MaxTime = 2
  MaxVersion = 2
  NoKey = NoKey
  NoOne = NoOne
SPECIFICATION Spec
SYMMETRY Symmetry
CHECK_DEADLOCK FALSE
INVARIANTS AnswersForward ValidatorsMatch Revalidated CooldownKept WaitersHaveLeader
