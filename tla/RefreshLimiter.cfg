\* The cooldown is shorter than a minute; the key, the minute and the table refuse in turn.
CONSTANTS
  Key = {k1, k2, k3}
  CooldownSetting = 40
  MaximumSetting = 3
  MaxKeys = 2
  Steps = {15, 25}
  MaxTime = 105
SPECIFICATION Spec
SYMMETRY Symmetry
CHECK_DEADLOCK FALSE
INVARIANTS LimitsKept
PROPERTIES NoneTooEarly
