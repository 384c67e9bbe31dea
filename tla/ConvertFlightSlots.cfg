\* Three requests, two rule keys and one conversion slot: everybody is answered,
\* the forced request that has to try again too.
CONSTANTS
  Request = {r1, r2, r3}
  Key = {k1, k2}
  RuleKey = {k1, k2}
  Slots = 1
  NoKey = NoKey
  NoOne = NoOne
  Forced = {r3}
  Home = k1
  Roaming = {r2}
  Impatient = {r1, r3}
SPECIFICATION BoundedFairSpec
CHECK_DEADLOCK FALSE
PROPERTIES Answered
