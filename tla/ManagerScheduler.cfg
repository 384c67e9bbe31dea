\* Two records and one foreground request with two slots.
SPECIFICATION Spec
CONSTANTS
    Ids = {i1, i2}
    Users = {u}
    Slots = 2
    Interval = 2
    BackupDelays = {2}
    MaxFailures = 2
    MaxTime = 2
    MaxRev = 1
    None = None
SYMMETRY Symmetry
INVARIANTS BackgroundBounded NoLostWakeup
PROPERTIES BackoffKept StatusOfCurrent
