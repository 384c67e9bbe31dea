\* One source of one line is enough.
SPECIFICATION MCSpec
CONSTANTS
    Lines <- Sample
    Targets <- AllTargets
    MaxUrls = 1
    MaxLines = 1
    Types = {}
    MaxExtra = 0
    Symbols = {"h", "s", "/"}
    Long <- LongPattern
    Short <- ShortPattern
    Base <- OtherBase
    MaxText = 0
INVARIANT ExcludedLeftOut
CHECK_DEADLOCK FALSE
