-------------------------- MODULE RefreshScheduler --------------------------
(***************************************************************************)
(* The background refreshes of internal/server/refresh_jobs.go.            *)
(*                                                                         *)
(* One goroutine runs the jobs of the configuration, the longest due one   *)
(* first.  A job whose cached result is younger than its interval is put   *)
(* off.  After each change the states of all jobs are written to a file,   *)
(* from which the next process restores them; the write may fail and the   *)
(* process may end at any point.                                           *)
(*                                                                         *)
(* Jobs are numbered as in the configuration.  A request hash stands for   *)
(* the request of a job, which a new configuration may change.  It may     *)
(* change the interval as well, which the hash does not tell.  Time is a   *)
(* counter; a moment 0 is Go's zero time, so the clock starts at 1.        *)
(*                                                                         *)
(* An operator named ...Mutant is the one below it with a plausible bug.   *)
(***************************************************************************)
EXTENDS Integers, FiniteSets

CONSTANTS
    Jobs,           \* number of jobs in the configuration
    Intervals,      \* the values of IntervalSeconds that each may be configured with
    Hash,           \* requests that a job may be configured with
    Optional,       \* the jobs that may be disabled
    Minute, HalfHour, LongestJitter,   \* 1 and 30 minutes, 30 seconds
    Steps, MaxTime, \* bound: how the clock moves, and how far
    MaxFailures     \* bound: consecutive failures followed

Job == 1..Jobs

ASSUME JobsAssumption     == Jobs \in Nat \ {0}
ASSUME DurationAssumption == Minute \in Nat \ {0} /\ HalfHour \in Nat \ {0} /\ LongestJitter \in Nat
ASSUME IntervalAssumption == Intervals \in [Job -> SUBSET {i \in Nat : i >= 2}]
ASSUME OptionalAssumption == Optional \subseteq Job
ASSUME BoundAssumption    == Steps \subseteq Nat \ {0} /\ MaxTime \in Nat /\ MaxFailures \in Nat

VARIABLES
    now,
    phase,      \* "down", "idle" (between steps) or "executing"
    stopping,   \* stop was called
    interval,   \* IntervalSeconds of each job in the process, 0 when it is down
    running,    \* the job that execute is at, 0 for none
    states,     \* refreshScheduler.states
    file,       \* the states in the status file; NoStates when it is of no use
    created,    \* when the cached result of each job was made; 0 for none
    backoff,    \* the time before which a saved failure defers each job: history
    overtaken   \* attempts of other jobs since each job became due: history

vars == <<now, phase, stopping, interval, running, states, file, created, backoff, overtaken>>

\* In a state, .under is the interval for which .next was computed: history.
NewState == [enabled |-> FALSE, hash |-> 0, attempt |-> 0, next |-> 0, failures |-> 0, under |-> 0]
NoStates == [j \in Job |-> NewState]
NoIntervals == [j \in Job |-> 0]

-----------------------------------------------------------------------------
(* Durations.                                                               *)

Shorter(a, b) == IF a < b THEN a ELSE b
Later(a, b)   == IF a > b THEN a ELSE b

\* The values of jitter: rand.Int64N of a tenth, at most half a minute.
Jitter(d) == LET limit == Shorter(d \div 10, LongestJitter)
             IN  IF limit = 0 THEN {0} ELSE 0..(limit - 1)

CapDelay(i) == Shorter(i \div 2, HalfHour)

\* retryDelay for a job of interval i: its loop, then its last line.
RetryDelay(i, failures) ==
    LET delay[n \in 1..Later(failures, 1)] ==
            IF n = 1 THEN Minute
            ELSE IF delay[n - 1] < CapDelay(i) THEN Shorter(2 * delay[n - 1], CapDelay(i))
            ELSE delay[n - 1]
    IN  Shorter(delay[Later(failures, 1)], CapDelay(i))

\* The cached result of j is younger than interval i.
Fresh(j, i) == created[j] # 0 /\ created[j] + i > now

-----------------------------------------------------------------------------
(* The status file.                                                         *)

\* persist: a temporary file and a rename, which may fail.
Saved(s)    == file' = s
NotSaved    == UNCHANGED file
Persist(s)  == Saved(s) \/ NotSaved

\* The file is lost or unreadable.
LoseFile ==
    /\ phase = "down"
    /\ file' = NoStates
    /\ backoff' = [j \in Job |-> 0]
    /\ UNCHANGED <<now, phase, stopping, interval, running, states, created, overtaken>>

-----------------------------------------------------------------------------
Init ==
    /\ now = 1
    /\ phase = "down" /\ stopping = FALSE /\ interval = NoIntervals /\ running = 0
    /\ states = NoStates /\ file = NoStates
    /\ created = [j \in Job |-> 0]
    /\ backoff = [j \in Job |-> 0]
    /\ overtaken = [j \in Job |-> 0]

\* The saved state of job j, unless it is of another request.
Old(j, hash) == IF file[j].hash = hash THEN file[j] ELSE NewState

\* A bug: a saved time is kept for a job that has not failed, too.
KeptAnywayMutant(j, on, i, old, jitter) ==
    LET due == IF Fresh(j, i) THEN created[j] + i ELSE now
    IN  IF on THEN Later(due + jitter, old.next) ELSE 0

\* When initialize lets job j, now of interval i, run: after its interval if the
\* result is fresh, and not before the time a failure left in the file, whatever
\* the interval was then.
NextRun(j, on, i, old, jitter) ==
    LET due   == IF Fresh(j, i) THEN created[j] + i ELSE now
        retry == IF old.next # 0 THEN old.next
                 ELSE old.attempt + RetryDelay(i, old.failures)
    IN  IF ~on THEN 0
        ELSE IF old.failures > 0 THEN Later(due + jitter, retry)
        ELSE due + jitter

\* What initialize makes of the saved state of job j.
Restored(j, on, i, hash, jitter) ==
    LET old  == Old(j, hash)
        next == NextRun(j, on, i, old, jitter)
    IN  [old EXCEPT !.enabled = on, !.hash = hash, !.next = next,
                    !.under = IF old.failures > 0 /\ next = old.next THEN old.under ELSE i]

\* The process starts with a configuration.
Start(on, int, hash, jitter) ==
    /\ phase = "down"
    /\ \A j \in Job : (on[j] \/ j \in Optional) /\ int[j] \in Intervals[j] /\ jitter[j] \in Jitter(int[j])
    /\ phase' = "idle" /\ interval' = int
    /\ states' = [j \in Job |-> Restored(j, on[j], int[j], hash[j], jitter[j])]
    /\ Persist(states')
    /\ backoff' = [j \in Job |-> IF on[j] /\ file[j].hash = hash[j] THEN backoff[j] ELSE 0]
    /\ UNCHANGED <<now, stopping, running, created, overtaken>>

Due(j) == states[j].enabled /\ states[j].next <= now

\* A bug: the first job of the list that is due, not the one due for longest.
FirstMutant(j) == Due(j) /\ \A i \in Job : Due(i) => j <= i

\* The job that step selects: the longest due, the first of several.
Selected(j) ==
    /\ Due(j)
    /\ \A i \in Job : Due(i) => \/ states[j].next < states[i].next
                                \/ states[j].next = states[i].next /\ j <= i

\* step, when the foreground has refreshed the result.
Postpone(j) ==
    /\ phase = "idle" /\ ~stopping
    /\ Selected(j) /\ Fresh(j, interval[j])
    /\ \E d \in Jitter(interval[j]) :
          states' = [states EXCEPT ![j].next = created[j] + interval[j] + d,
                                   ![j].under = interval[j]]
    /\ Persist(states')
    /\ overtaken' = [overtaken EXCEPT ![j] = 0]
    /\ UNCHANGED <<now, phase, stopping, interval, running, created, backoff>>

\* step up to the call of execute.
Attempt(j) ==
    /\ phase = "idle" /\ ~stopping
    /\ Selected(j) /\ ~Fresh(j, interval[j])
    /\ states' = [states EXCEPT ![j].attempt = now]
    /\ Persist(states')
    /\ phase' = "executing" /\ running' = j
    /\ overtaken' = [i \in Job |-> IF i = j THEN 0
                                   ELSE IF Due(i) THEN overtaken[i] + 1 ELSE overtaken[i]]
    /\ UNCHANGED <<now, stopping, interval, created, backoff>>

\* The rest of step: execute has put a new result into the cache ...
Succeed ==
    /\ phase = "executing"
    /\ \E d \in Jitter(interval[running]) :
          states' = [states EXCEPT ![running].failures = 0,
                                   ![running].next = now + interval[running] + d,
                                   ![running].under = interval[running]]
    /\ created' = [created EXCEPT ![running] = now]
    /\ \/ Saved(states') /\ backoff' = [backoff EXCEPT ![running] = 0]
       \/ NotSaved /\ UNCHANGED backoff
    /\ phase' = "idle" /\ running' = 0
    /\ UNCHANGED <<now, stopping, interval, overtaken>>

\* A bug: the delay counts from the start of the attempt.
FromAttemptMutant(s, j, d) == s.attempt + d

\* When a failed job is tried again.
RetryAt(s, j, d) == now + d

\* ... or has not: a failed conversion, the timeout, or the cancellation by stop.
FailAttempt ==
    /\ phase = "executing"
    /\ LET j     == running
           n     == states[j].failures + 1
           delay == RetryDelay(interval[j], n)
       IN  /\ n <= MaxFailures
           /\ \E d \in Jitter(delay) :
                 states' = [states EXCEPT ![j].failures = n,
                                          ![j].next = RetryAt(states[j], j, delay + d),
                                          ![j].under = interval[j]]
           /\ \/ Saved(states') /\ backoff' = [backoff EXCEPT ![j] = now + delay]
              \/ NotSaved /\ UNCHANGED backoff
    /\ phase' = "idle" /\ running' = 0
    /\ UNCHANGED <<now, stopping, interval, created, overtaken>>

Down == /\ phase' = "down" /\ stopping' = FALSE /\ running' = 0
        /\ states' = NoStates /\ interval' = NoIntervals
        /\ overtaken' = [j \in Job |-> 0]

\* stop cancels the running attempt; the goroutine ends after it.
Stop ==
    /\ phase # "down" /\ ~stopping
    /\ stopping' = TRUE
    /\ UNCHANGED <<now, phase, interval, running, states, file, created, backoff, overtaken>>

Exit ==
    /\ phase = "idle" /\ stopping
    /\ Down
    /\ UNCHANGED <<now, file, created, backoff>>

\* The process ends without notice.
Crash ==
    /\ phase # "down"
    /\ Down
    /\ UNCHANGED <<now, file, created, backoff>>

\* Public refreshes, and the expiry or eviction of results.
CacheSet(j) ==
    /\ created[j] # now
    /\ created' = [created EXCEPT ![j] = now]
    /\ UNCHANGED <<now, phase, stopping, interval, running, states, file, backoff, overtaken>>

CacheGone(j) ==
    /\ created[j] # 0
    /\ created' = [created EXCEPT ![j] = 0]
    /\ UNCHANGED <<now, phase, stopping, interval, running, states, file, backoff, overtaken>>

Tick(d) ==
    /\ now + d <= MaxTime
    /\ now' = now + d
    /\ UNCHANGED <<phase, stopping, interval, running, states, file, created, backoff, overtaken>>

Next ==
    \/ LoseFile \/ Succeed \/ FailAttempt \/ Stop \/ Exit \/ Crash
    \/ \E on \in [Job -> BOOLEAN], hash \in [Job -> Hash], jitter \in [Job -> 0..LongestJitter] :
          \E int \in [Job -> UNION {Intervals[j] : j \in Job}] : Start(on, int, hash, jitter)
    \/ \E j \in Job : Postpone(j) \/ Attempt(j) \/ CacheSet(j) \/ CacheGone(j)
    \/ \E d \in Steps : Tick(d)

Spec == Init /\ [][Next]_vars

-----------------------------------------------------------------------------
(* Properties.                                                              *)

\* README "the backoff is restored at a restart", and the comment in initialize:
\* a failed job is not tried again before the delay after its failure has passed,
\* through any number of crashes, restarts, lost writes and foreground refreshes,
\* once the failure itself has reached the file and unless a start disabled the job.
BackoffKept ==
    [][\A j \in Job : running' = j /\ running # j => now >= backoff[j]]_vars

\* From a result to the run after it, for a job of interval i.
Span(i) == i + Shorter(i \div 10, LongestJitter)

\* config.LoadRefreshJobs accepts a job whose results live longer than its interval
\* and the jitter.  That is enough for a job that has not failed since its last
\* success: the next run comes within that time of the result, so before it expires,
\* whatever the interval was before a restart and however often others refreshed the
\* result.  One that failed is put off from now by no more than the interval and the
\* jitter it had when the delay was computed, which is the present one unless it was
\* restored from the file after a change of the configuration.
RunsWithinInterval ==
    \A j \in Job :
        LET s == states[j]
        IN  /\ s.next <= now + Span(s.under)
            /\ s.failures = 0 => s.under = interval[j]
            /\ s.failures = 0 /\ Fresh(j, interval[j]) => s.next <= created[j] + Span(interval[j])

\* Nobody is starved by failing jobs: while a job is due each other one is
\* attempted at most once before it.
NobodyStarves == \A j \in Job : overtaken[j] < Jobs
=============================================================================
