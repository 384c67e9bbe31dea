\* Two jobs, in units of 30 seconds, one of a minute and one that starts as a job of a minute
\* or of five, may be disabled, and has its result refreshed or lost by others.  They compete for
\* the one goroutine, with failures, lost writes, crashes and restarts.
CONSTANTS
  Jobs = 2
  Intervals <- Mixed
  Hash = {1}
  Optional = {1}
  Public = {1}
  Minute = 2
  HalfHour = 60
  LongestJitter = 1
  Steps = {1}
  MaxTime = 3
  MaxFailures = 2
SPECIFICATION BoundedSpec
CHECK_DEADLOCK FALSE
INVARIANTS RunsWithinInterval NobodyStarves
PROPERTIES BackoffKept
