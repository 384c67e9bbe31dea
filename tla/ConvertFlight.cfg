\* Three requests for one key, every mix of forced and ordinary ones.
CONSTANTS
  Request = {r1, r2, r3}
  Key = {k1}
  RuleKey = {k1}
  Slots = 1
  NoKey = NoKey
  NoOne = NoOne
SPECIFICATION Spec
SYMMETRY Symmetry
CHECK_DEADLOCK FALSE
INVARIANTS FlightsExact RefreshIsNew AnswersMonotone
