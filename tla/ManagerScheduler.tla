-------------------------- MODULE ManagerScheduler --------------------------
(***************************************************************************)
(* The management scheduler: internal/manager/scheduler.go, the statuses   *)
(* of runtime.go and the refresh handler of handler.go.                    *)
(*                                                                         *)
(* One goroutine, the scheduler, lists the records, cancels the jobs of    *)
(* records that changed and starts a job for each that is due, as long as  *)
(* the foreground can spare a slot.  Then it sleeps until the next         *)
(* deadline, unless it is woken.  Jobs and foreground requests run beside  *)
(* it.  woken stands for the three channels it may be woken by, each with  *)
(* room for one signal.                                                    *)
(*                                                                         *)
(* The unit of time is the first delay after a failure.  Jitter, which     *)
(* depends on the id only, is left out.                                    *)
(*                                                                         *)
(* An operator named ...Mutant is the one below it with a plausible bug.   *)
(***************************************************************************)
EXTENDS Naturals, FiniteSets

CONSTANTS
    Ids,
    Users,          \* foreground requests
    Slots,          \* cap(h.slots)
    Interval,
    BackupDelays,   \* after a check for changes, done or failed
    MaxFailures,    \* 6 in the code
    MaxTime, MaxRev,    \* bounds: of the clock, and of the revisions of a record
    None

ASSUME SlotsAssumption == {Slots, Interval, MaxFailures} \cup BackupDelays \subseteq Nat \ {0}
ASSUME BoundAssumption == {MaxTime, MaxRev} \subseteq Nat
ASSUME SetsAssumption == IsFiniteSet(Ids) /\ IsFiniteSet(Users)

Statuses == [rev : Nat, next : Nat, failures : Nat]
Jobs     == [rev : Nat, cancelled : BOOLEAN,
             at : {"get", "refresh", "succeeded", "failed", "release", "unlist"}]
ASSUME NoneAssumption == None \notin Statuses /\ None \notin Jobs

\* The delay after n failures.
Delay(n) == 2 ^ (n - 1)
ASSUME DelayAssumption == \A n \in 1..MaxFailures : Delay(n) \in Nat

VARIABLES
    now,
    record,         \* of each id: [rev, enabled] or None
    lastRev,        \* of each id, to tell revisions apart after a deletion
    status,         \* of each id: [rev, next, failures] or None, as in status.json;
                    \* next = 0 is none
    backupAt,       \* h.nextBackup
    pc, rows, due, wakeAt,      \* of the scheduler
    woken, stopping,
    jobs,           \* h.scheduled, of each id: [rev, cancelled, at] or None
    users,          \* of each request: [at]
    backoff         \* history: of each id, [rev, until] since a failure, or None

store == <<record, lastRev>>
sched == <<pc, rows, due, wakeAt, backupAt>>
vars  == <<now, store, status, sched, woken, stopping, jobs, users, backoff>>

Blank(v)    == [rev |-> v, next |-> 0, failures |-> 0]
Running     == {i \in Ids : jobs[i] # None}
Active(i)   == jobs[i] # None /\ jobs[i].at \in {"get", "refresh"}
HasSlot(i)  == jobs[i] # None /\ jobs[i].at # "unlist"
SlotsTaken  == Cardinality({i \in Ids : HasSlot(i)}) + Cardinality({u \in Users : users[u].at = "working"})
Waiters     == Cardinality({u \in Users : users[u].at = "waiting"})
IsCurrent(i, v) == record[i] # None /\ record[i].rev = v
Earlier(a, b)   == IF a < b THEN a ELSE b

\* runtimeState.get.
StatusOf(i) ==
    IF status[i] # None /\ status[i].rev = record[i].rev THEN status[i] ELSE Blank(record[i].rev)

\* What runtimeState.update starts from.
Updated(i, v) == IF status[i] # None /\ status[i].rev = v THEN status[i] ELSE Blank(v)

-----------------------------------------------------------------------------
(* step.                                                                     *)

\* The timer, or a signal.
Wake ==
    /\ pc = "wait" /\ (woken \/ wakeAt <= now) /\ ~stopping
    /\ pc' = "list" /\ woken' = FALSE /\ wakeAt' = 0
    /\ UNCHANGED <<now, store, status, rows, due, backupAt, stopping, jobs, users, backoff>>

ListRows ==
    /\ pc = "list"
    /\ rows' = {i \in Ids : record[i] # None}
    /\ pc' = "prune"
    /\ UNCHANGED <<now, store, status, due, wakeAt, backupAt, woken, stopping, jobs, users, backoff>>

\* Statuses of records that are not listed go; then the daily snapshot, which may fail.
Prune ==
    /\ pc = "prune"
    /\ status' = [i \in Ids |-> IF i \in rows THEN status[i] ELSE None]
    /\ backupAt' \in IF now < backupAt THEN {backupAt} ELSE {now + d : d \in BackupDelays}
    /\ wakeAt' = backupAt'
    /\ pc' = "cancel"
    /\ UNCHANGED <<now, store, rows, due, woken, stopping, jobs, users, backoff>>

Outdated(i) == ~IsCurrent(i, jobs[i].rev) \/ ~record[i].enabled

CancelOld ==
    /\ pc = "cancel"
    /\ jobs' = [i \in Ids |-> IF Active(i) /\ Outdated(i) THEN [jobs[i] EXCEPT !.cancelled = TRUE]
                              ELSE jobs[i]]
    /\ pc' = "collect"
    /\ UNCHANGED <<now, store, status, rows, due, wakeAt, backupAt, woken, stopping, users, backoff>>

DueAt(i) == IF StatusOf(i).next = 0 THEN now ELSE StatusOf(i).next

\* The records to start, and the deadline of those that are not due.
Collect ==
    /\ pc = "collect"
    /\ LET free  == {i \in rows \ Running : record[i] # None /\ record[i].enabled}
           later == {i \in free : DueAt(i) > now} IN
       /\ due' = {[id |-> i, rev |-> record[i].rev, at |-> DueAt(i)] : i \in free \ later}
       /\ \E t \in {wakeAt} \cup {DueAt(i) : i \in later} :
            (\A i \in later : t <= DueAt(i) /\ t <= wakeAt) /\ wakeAt' = t
    /\ pc' = "admit" /\ rows' = {}
    /\ UNCHANGED <<now, store, status, backupAt, woken, stopping, jobs, users, backoff>>

Reserve == IF Slots > 1 THEN 1 ELSE 0

Sleep == pc' = "wait" /\ due' = {}

\* The foreground first, whom a slot is left for.
Admit ==
    /\ pc = "admit"
    /\ IF due = {} \/ stopping \/ Waiters > 0 \/ SlotsTaken + Reserve >= Slots THEN Sleep
       ELSE pc' = "launch" /\ UNCHANGED due
    /\ UNCHANGED <<now, store, status, rows, wakeAt, backupAt, woken, stopping, jobs, users, backoff>>

\* A bug: only the slots are counted, which the foreground may release in between.
BackgroundFullMutant == FALSE
BackgroundFull == Cardinality(Running) >= (IF Slots > 1 THEN Slots - 1 ELSE 1)

\* The record due first, unless the slot has gone meanwhile.
Launch ==
    /\ pc = "launch"
    /\ \E d \in due :
        /\ \A e \in due : d.at <= e.at
        /\ IF BackgroundFull \/ SlotsTaken >= Slots THEN Sleep /\ UNCHANGED jobs
           ELSE /\ jobs' = [jobs EXCEPT ![d.id] = [rev |-> d.rev, cancelled |-> stopping, at |-> "get"]]
                /\ due' = due \ {d}
                /\ pc' = "admit"
    /\ UNCHANGED <<now, store, status, rows, wakeAt, backupAt, woken, stopping, users, backoff>>

-----------------------------------------------------------------------------
(* runScheduled.                                                             *)

Job(i, at) == jobs[i] # None /\ jobs[i].at = at
Over(at)    == [rev |-> 0, cancelled |-> FALSE, at |-> at]
Move(i, at) == jobs' = [jobs EXCEPT ![i] = IF at = "refresh" THEN [@ EXCEPT !.at = at] ELSE Over(at)]

GetRecord(i) ==
    /\ Job(i, "get")
    /\ Move(i, IF IsCurrent(i, jobs[i].rev) /\ record[i].enabled THEN "refresh" ELSE "release")
    /\ UNCHANGED <<now, store, status, sched, woken, stopping, users, backoff>>

\* refreshResource; a timeout is a failure, a cancellation is not.
Refreshed(i) ==
    /\ Job(i, "refresh")
    /\ \E o \in {"succeeded", "failed"} : jobs' = [jobs EXCEPT ![i].at = o, ![i].cancelled = FALSE]
    /\ UNCHANGED <<now, store, status, sched, woken, stopping, users, backoff>>

Cancelled(i) ==
    /\ Job(i, "refresh") /\ jobs[i].cancelled
    /\ Move(i, "release")
    /\ UNCHANGED <<now, store, status, sched, woken, stopping, users, backoff>>

\* A bug: a job of an older revision reports on the record there is now.
ReportableMutant(i, v) == record[i] # None
Reportable(i, v) == IsCurrent(i, v)

\* Under the store's lock, for the revision that was refreshed.
Report(i) ==
    /\ Job(i, "succeeded") \/ Job(i, "failed")
    /\ IF Reportable(i, jobs[i].rev)
       THEN LET old   == Updated(i, jobs[i].rev)
                fails == IF Job(i, "failed") THEN Earlier(MaxFailures, old.failures + 1) ELSE 0
                delay == IF Job(i, "failed") THEN Delay(fails) ELSE Interval IN
            /\ status' = [status EXCEPT ![i] =
                            [rev |-> jobs[i].rev, next |-> now + delay, failures |-> fails]]
            /\ backoff' = [backoff EXCEPT ![i] =
                            IF Job(i, "failed") THEN [rev |-> jobs[i].rev, until |-> now + delay] ELSE None]
            /\ woken' = TRUE
       ELSE UNCHANGED <<status, backoff, woken>>
    /\ Move(i, "release")
    /\ UNCHANGED <<now, store, sched, stopping, users>>

ReleaseSlot(i) ==
    /\ Job(i, "release")
    /\ Move(i, "unlist")
    /\ UNCHANGED <<now, store, status, sched, woken, stopping, users, backoff>>

\* A bug: the signal is given before the job is off the list.
UnlistMutant(i) ==
    /\ Job(i, "unlist")
    /\ jobs' = [jobs EXCEPT ![i] = None]
    /\ UNCHANGED <<now, store, status, sched, woken, stopping, users, backoff>>
Unlist(i) ==
    /\ Job(i, "unlist")
    /\ jobs' = [jobs EXCEPT ![i] = None]
    /\ woken' = TRUE
    /\ UNCHANGED <<now, store, status, sched, stopping, users, backoff>>

-----------------------------------------------------------------------------
(* The foreground: acquire, and the refresh handler.                         *)

Queue(u) ==
    /\ users[u].at = "idle"
    /\ users' = [users EXCEPT ![u].at = "waiting"]
    /\ UNCHANGED <<now, store, status, sched, woken, stopping, jobs, backoff>>

\* A slot, or the timeout.
Acquire(u) ==
    /\ users[u].at = "waiting"
    /\ \/ SlotsTaken < Slots /\ users' = [users EXCEPT ![u].at = "working"]
       \/ users' = [users EXCEPT ![u].at = "idle"]
    /\ woken' = TRUE
    /\ UNCHANGED <<now, store, status, sched, stopping, jobs, backoff>>

\* It ends; a successful refresh of a record that is still the same sets its next run.
Release(u) ==
    /\ users[u].at = "working"
    /\ users' = [users EXCEPT ![u].at = "idle"]
    /\ \/ UNCHANGED <<status, backoff>>
       \/ \E i \in Ids :
            /\ record[i] # None
            /\ status' = [status EXCEPT ![i] =
                            [rev |-> record[i].rev, failures |-> 0,
                             next |-> IF record[i].enabled THEN now + Interval
                                      ELSE Updated(i, record[i].rev).next]]
            /\ backoff' = [backoff EXCEPT ![i] = None]
    /\ woken' = TRUE
    /\ UNCHANGED <<now, store, sched, stopping, jobs>>

-----------------------------------------------------------------------------
(* Edits, time, stops and crashes.                                           *)

Edit(i) ==
    /\ lastRev[i] < MaxRev
    /\ lastRev' = [lastRev EXCEPT ![i] = @ + 1]
    /\ \E e \in BOOLEAN : record' = [record EXCEPT ![i] = [rev |-> lastRev[i] + 1, enabled |-> e]]
    /\ woken' = TRUE
    /\ UNCHANGED <<now, status, sched, stopping, jobs, users, backoff>>

Delete(i) ==
    /\ record[i] # None
    /\ record' = [record EXCEPT ![i] = None]
    /\ woken' = TRUE
    /\ UNCHANGED <<now, lastRev, status, sched, stopping, jobs, users, backoff>>

Tick ==
    /\ now < MaxTime
    /\ now' = now + 1
    /\ UNCHANGED <<store, status, sched, woken, stopping, jobs, users, backoff>>

\* Stop: the contexts of the jobs are those of the scheduler.
Stop ==
    /\ ~stopping /\ pc # "stopped"
    /\ stopping' = TRUE
    /\ jobs' = [i \in Ids |-> IF Active(i) THEN [jobs[i] EXCEPT !.cancelled = TRUE] ELSE jobs[i]]
    /\ UNCHANGED <<now, store, status, sched, woken, users, backoff>>

Stopped ==
    /\ pc = "wait" /\ stopping /\ Running = {}
    /\ pc' = "stopped"
    /\ UNCHANGED <<now, store, status, rows, due, wakeAt, backupAt, woken, stopping, jobs, users, backoff>>

\* A bug: the statuses are not read again.
CrashMutant ==
    /\ pc' = "list" /\ rows' = {} /\ due' = {} /\ wakeAt' = 0
    /\ woken' = FALSE /\ stopping' = FALSE
    /\ jobs' = [i \in Ids |-> None] /\ status' = [i \in Ids |-> None]
    /\ users' = [u \in Users |-> [at |-> "idle"]]
    /\ UNCHANGED <<now, store, backupAt, backoff>>
\* The process ends and is started again: newRuntimeState, nextBackupCheck, Start.
Crash ==
    /\ pc' = "list" /\ rows' = {} /\ due' = {} /\ wakeAt' = 0
    /\ woken' = FALSE /\ stopping' = FALSE
    /\ jobs' = [i \in Ids |-> None]
    /\ users' = [u \in Users |-> [at |-> "idle"]]
    /\ UNCHANGED <<now, store, status, backupAt, backoff>>

Init ==
    /\ now = 1
    /\ record \in [Ids -> {None, [rev |-> 0, enabled |-> TRUE]}]
    /\ lastRev = [i \in Ids |-> 0]
    /\ status = [i \in Ids |-> None]
    /\ backupAt = 0
    /\ pc = "list" /\ rows = {} /\ due = {} /\ wakeAt = 0
    /\ woken = FALSE /\ stopping = FALSE
    /\ jobs = [i \in Ids |-> None]
    /\ users = [u \in Users |-> [at |-> "idle"]]
    /\ backoff = [i \in Ids |-> None]

Step == Wake \/ ListRows \/ Prune \/ CancelOld \/ Collect \/ Admit \/ Launch \/ Stopped
Tail(i) == GetRecord(i) \/ Cancelled(i) \/ Report(i) \/ ReleaseSlot(i) \/ Unlist(i)

Next ==
    \/ Step
    \/ \E i \in Ids : Tail(i) \/ Refreshed(i) \/ Edit(i) \/ Delete(i)
    \/ \E u \in Users : Queue(u) \/ Acquire(u) \/ Release(u)
    \/ Tick \/ Stop \/ Crash

Spec == Init /\ [][Next]_vars

-----------------------------------------------------------------------------
(* Properties.                                                               *)

\* The background has at most all slots but one, or the only one, and no more slots are
\* taken than there are, whatever the foreground does between the check and the launch.
BackgroundBounded ==
    /\ Cardinality(Running) <= (IF Slots > 1 THEN Slots - 1 ELSE 1)
    /\ SlotsTaken <= Slots
    /\ pc = "stopped" => Running = {}

\* While the scheduler sleeps without a signal, each record that is due or will be is
\* running, or in time for the timer, or waits for someone who will give a signal.
NoLostWakeup ==
    pc = "wait" /\ ~woken /\ ~stopping =>
        \A i \in Ids \ Running :
            record[i] # None /\ record[i].enabled =>
                \/ StatusOf(i).next # 0 /\ wakeAt <= StatusOf(i).next
                \/ wakeAt <= now
                \/ Waiters > 0 \/ Running # {} \/ \E u \in Users : users[u].at = "working"

\* A record is not refreshed in the background before its delay since the last failure is
\* over, unless it was changed or refreshed by hand; a restart keeps what was saved.
BackoffKept ==
    [][\A i \in Ids : jobs[i] = None /\ jobs'[i] # None /\ backoff[i] # None
            => jobs'[i].rev # backoff[i].rev \/ now >= backoff[i].until]_vars

\* Statuses are of the revision there is when they are written: a job that was overtaken
\* by an edit reports nothing (runScheduled, current).
StatusOfCurrent ==
    [][\A i \in Ids : status'[i] # status[i] /\ status'[i] # None
            => IsCurrent(i, status'[i].rev)
               /\ (status[i] # None /\ status[i].rev # status'[i].rev => status'[i].failures <= 1)]_vars
=============================================================================
