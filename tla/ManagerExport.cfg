\* Three requests of two targets of a subscription, with two slots and one read permit.
SPECIFICATION Spec
CONSTANTS
    Requests = {q1, q2, q3}
    Targets = {t1, t2}
    Modes = {"share", "forced", "refresh"}
    Kinds = {"subscriptions"}
    Slots = 2
    ReadSlots = 1
    AllowStale = TRUE
    MaxRev = 1
    MaxSource = 2
    MaxEvents = 1
    None = None
SYMMETRY Symmetry
INVARIANTS LeasesExact OneLeader NoneOvertaken ForcedRevalidated NoneStuck
CHECK_DEADLOCK FALSE
