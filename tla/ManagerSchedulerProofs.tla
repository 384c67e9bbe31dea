---------------------- MODULE ManagerSchedulerProofs ----------------------
(***************************************************************************)
(* Proofs about ManagerScheduler: slots, deadlines, delays and statuses,   *)
(* for any number of records, slots and foreground requests.               *)
(***************************************************************************)
EXTENDS ManagerScheduler, FiniteSetTheorems, TLAPS

Records  == [rev : Nat, enabled : BOOLEAN]
Places   == {"wait", "list", "prune", "cancel", "collect", "admit", "launch", "stopped"}
Working  == {"get", "refresh", "succeeded", "failed"}
Dues     == [id : Ids, rev : Nat, at : Nat]

TypeOK ==
    /\ now \in Nat \ {0} /\ backupAt \in Nat /\ wakeAt \in Nat
    /\ record \in [Ids -> {None} \cup Records] /\ lastRev \in [Ids -> Nat]
    /\ status \in [Ids -> {None} \cup Statuses]
    /\ pc \in Places /\ rows \subseteq Ids /\ due \subseteq Dues
    /\ woken \in BOOLEAN /\ stopping \in BOOLEAN
    /\ jobs \in [Ids -> {None} \cup Jobs]
    /\ users \in [Users -> [at : {"idle", "waiting", "working"}]]
    /\ backoff \in [Ids -> {None} \cup [rev : Nat, until : Nat]]

JobSteps(i) == GetRecord(i) \/ Refreshed(i) \/ Cancelled(i) \/ Report(i) \/ ReleaseSlot(i) \/ Unlist(i)

-----------------------------------------------------------------------------
(* Types.                                                                    *)

\* A job is marked.
LEMMA Marked ==
  ASSUME NEW j \in Jobs, NEW c \in BOOLEAN
  PROVE  [j EXCEPT !.cancelled = c] = [rev |-> j.rev, cancelled |-> c, at |-> j.at]
BY DEF Jobs

\* What a step of a job does to the list of jobs.
LEMMA JobMoves ==
  ASSUME TypeOK, NEW i \in Ids, JobSteps(i)
  PROVE  /\ jobs[i] # None /\ jobs[i] \in Jobs
         /\ jobs' \in [Ids -> {None} \cup Jobs] /\ (jobs'[i] = None => Unlist(i))
         /\ \A k \in Ids \ {i} : jobs'[k] = jobs[k]
         /\ jobs'[i] # None => /\ jobs'[i].rev \in {0, jobs[i].rev}
                               /\ jobs'[i].at \in Working => jobs'[i].rev = jobs[i].rev /\ jobs[i].at \in Working
                               /\ jobs'[i].at # "unlist" => jobs[i].at # "unlist"
<1>1. jobs[i] # None /\ jobs[i] \in Jobs
    BY DEF JobSteps, GetRecord, Refreshed, Cancelled, Report, ReleaseSlot, Unlist, Job, TypeOK
<1>2. CASE \E at \in {"release", "unlist"} : jobs' = [jobs EXCEPT ![i] = Over(at)] /\ (at = "release" => jobs[i].at # "unlist")
    <2>1. PICK at \in {"release", "unlist"} : jobs' = [jobs EXCEPT ![i] = Over(at)] /\ (at = "release" => jobs[i].at # "unlist")
        BY <1>2
    <2>2. Over(at) \in Jobs /\ Over(at).rev = 0 /\ Over(at).at = at
        BY DEF Over, Jobs
    <2> QED
        BY <1>1, <2>1, <2>2, NoneAssumption DEF TypeOK, Working
<1>3. CASE Unlist(i)
    BY <1>1, <1>3 DEF Unlist, TypeOK
<1>4. CASE \E at \in {"refresh", "succeeded", "failed"}, c \in BOOLEAN :
              jobs[i].at \in Working
              /\ jobs' = [jobs EXCEPT ![i] = [rev |-> jobs[i].rev, cancelled |-> c, at |-> at]]
    <2>1. PICK at \in {"refresh", "succeeded", "failed"}, c \in BOOLEAN :
              jobs[i].at \in Working
              /\ jobs' = [jobs EXCEPT ![i] = [rev |-> jobs[i].rev, cancelled |-> c, at |-> at]]
        BY <1>4
    <2>2. [rev |-> jobs[i].rev, cancelled |-> c, at |-> at] \in Jobs
        BY <1>1 DEF Jobs, Working
    <2> QED
        BY <1>1, <2>1, <2>2, NoneAssumption DEF TypeOK, Working
<1>5. CASE GetRecord(i)
    <2>1. jobs[i].at = "get"
        BY <1>5 DEF GetRecord, Job
    <2>2. [jobs[i] EXCEPT !.at = "refresh"] = [rev |-> jobs[i].rev, cancelled |-> jobs[i].cancelled, at |-> "refresh"]
          /\ jobs[i].cancelled \in BOOLEAN
        BY <1>1 DEF Jobs
    <2>3. jobs' = [jobs EXCEPT ![i] = [jobs[i] EXCEPT !.at = "refresh"]] \/ jobs' = [jobs EXCEPT ![i] = Over("release")]
        BY <1>5 DEF GetRecord, Move
    <2> QED
        BY <1>2, <1>4, <2>1, <2>2, <2>3 DEF Working
<1>6. CASE Refreshed(i)
    <2>1. PICK o \in {"succeeded", "failed"} : jobs' = [jobs EXCEPT ![i].at = o, ![i].cancelled = FALSE]
        BY <1>6 DEF Refreshed
    <2>2. jobs' = [jobs EXCEPT ![i] = [jobs[i] EXCEPT !.at = o, !.cancelled = FALSE]]
        BY <2>1 DEF TypeOK
    <2>3. [jobs[i] EXCEPT !.at = o, !.cancelled = FALSE] = [rev |-> jobs[i].rev, cancelled |-> FALSE, at |-> o]
      <3>1. [jobs[i] EXCEPT !.at = o, !.cancelled = FALSE] = [[jobs[i] EXCEPT !.at = o] EXCEPT !.cancelled = FALSE]
        OBVIOUS
      <3>2. [jobs[i] EXCEPT !.at = o] = [rev |-> jobs[i].rev, cancelled |-> jobs[i].cancelled, at |-> o]
            /\ [jobs[i] EXCEPT !.at = o] \in Jobs
        BY <1>1 DEF Jobs, Working
      <3> QED
        BY <3>1, <3>2, Marked
    <2>4. jobs[i].at = "refresh"
        BY <1>6 DEF Refreshed, Job
    <2> QED
        BY <1>4, <2>2, <2>3, <2>4 DEF Working
<1>7. CASE Cancelled(i) \/ Report(i)
    <2>1. jobs' = [jobs EXCEPT ![i] = Over("release")]
        BY <1>7 DEF Cancelled, Report, Move
    <2>2. jobs[i].at # "unlist"
        BY <1>7 DEF Cancelled, Report, Job
    <2> QED
        BY <1>2, <2>1, <2>2
<1>8. CASE ReleaseSlot(i)
    <2>1. jobs' = [jobs EXCEPT ![i] = Over("unlist")]
        BY <1>8 DEF ReleaseSlot, Move
    <2> QED
        BY <1>2, <2>1
<1> QED
    BY <1>5, <1>6, <1>7, <1>8, <1>3 DEF JobSteps

\* The other steps: jobs are started, marked as cancelled, or lost together.
LEMMA JobMarks ==
  ASSUME TypeOK, CancelOld \/ Stop
  PROVE  /\ jobs' \in [Ids -> {None} \cup Jobs]
         /\ \A i \in Ids : /\ jobs'[i] = None <=> jobs[i] = None
                           /\ jobs[i] # None => jobs'[i].rev = jobs[i].rev /\ jobs'[i].at = jobs[i].at
<1>1. \A i \in Ids : jobs'[i] = jobs[i] \/ (Active(i) /\ jobs'[i] = [jobs[i] EXCEPT !.cancelled = TRUE])
    BY DEF CancelOld, Stop
<1>2. jobs' = [i \in Ids |-> jobs'[i]]
    BY DEF CancelOld, Stop
<1>3. ASSUME NEW i \in Ids
      PROVE  /\ jobs'[i] \in {None} \cup Jobs
             /\ jobs'[i] = None <=> jobs[i] = None
             /\ jobs[i] # None => jobs'[i].rev = jobs[i].rev /\ jobs'[i].at = jobs[i].at
    <2>1. CASE jobs'[i] = jobs[i]
        BY <2>1 DEF TypeOK
    <2>2. CASE Active(i) /\ jobs'[i] = [jobs[i] EXCEPT !.cancelled = TRUE]
      <3>1. jobs[i] # None /\ jobs[i] \in Jobs
        BY <2>2 DEF Active, TypeOK
      <3>2. [jobs[i] EXCEPT !.cancelled = TRUE] = [rev |-> jobs[i].rev, cancelled |-> TRUE, at |-> jobs[i].at]
        BY <3>1, Marked
      <3>3. [jobs[i] EXCEPT !.cancelled = TRUE] \in Jobs
        BY <3>1, <3>2 DEF Jobs
      <3> QED
        BY <2>2, <3>1, <3>2, <3>3, NoneAssumption
    <2> QED
        BY <1>1, <2>1, <2>2
<1> QED
    BY <1>2, <1>3

\* The status a record has, or starts with, is a status.
LEMMA StatusTyped ==
  ASSUME TypeOK, NEW i \in Ids, NEW v \in Nat
  PROVE  /\ Updated(i, v) \in Statuses
         /\ record[i] # None => StatusOf(i) \in Statuses /\ record[i].rev \in Nat
         /\ record[i] # None => DueAt(i) \in Nat
<1>1. \A w \in Nat : Blank(w) \in Statuses
    BY DEF Blank, Statuses
<1>2. status[i] # None => status[i] \in Statuses
    BY DEF TypeOK
<1>3. record[i] # None => record[i].rev \in Nat
    BY DEF TypeOK, Records
<1>4. record[i] # None => StatusOf(i) \in Statuses
    BY <1>1, <1>2, <1>3 DEF StatusOf
<1>5. record[i] # None => DueAt(i) \in Nat
    BY <1>4 DEF DueAt, Statuses, TypeOK
<1> QED
    BY <1>1, <1>2, <1>3, <1>4, <1>5 DEF Updated

\* What a job reports, and for how long a failure keeps it from being started again.
LEMMA Reports ==
  ASSUME TypeOK, NEW i \in Ids, Report(i), Reportable(i, jobs[i].rev)
  PROVE  \E n \in Nat, d \in Nat :
            /\ status' = [status EXCEPT ![i] = [rev |-> jobs[i].rev, next |-> now + d, failures |-> n]]
            /\ backoff' = [backoff EXCEPT ![i] = None]
                 \/ backoff' = [backoff EXCEPT ![i] = [rev |-> jobs[i].rev, until |-> now + d]]
            /\ woken' /\ jobs[i].rev \in Nat
            /\ status[i] # None /\ status[i].rev # jobs[i].rev => n <= 1
<1>1. jobs[i] \in Jobs
    BY JobMoves DEF JobSteps
<1> DEFINE old   == Updated(i, jobs[i].rev)
           fails == IF Job(i, "failed") THEN Earlier(MaxFailures, old.failures + 1) ELSE 0
           delay == IF Job(i, "failed") THEN Delay(fails) ELSE Interval
<1>2. jobs[i].rev \in Nat
    BY <1>1 DEF Jobs
<1>3. old.failures \in Nat
    BY <1>2, StatusTyped DEF Statuses
<1>4. MaxFailures \in Nat \ {0} /\ Interval \in Nat \ {0}
    BY SlotsAssumption
<1>5. Job(i, "failed") => fails \in 1..MaxFailures
    BY <1>3, <1>4 DEF Earlier
<1>6. delay \in Nat
    BY <1>4, <1>5, DelayAssumption
<1>7. fails \in Nat
    BY <1>4, <1>5
<1>8. status[i] # None /\ status[i].rev # jobs[i].rev => fails <= 1
    BY <1>4 DEF Updated, Blank, Earlier
<1>9. /\ status' = [status EXCEPT ![i] = [rev |-> jobs[i].rev, next |-> now + delay, failures |-> fails]]
      /\ backoff' = [backoff EXCEPT ![i] =
                        IF Job(i, "failed") THEN [rev |-> jobs[i].rev, until |-> now + delay] ELSE None]
      /\ woken'
    BY DEF Report
<1> HIDE DEF old, fails, delay
<1> QED
    BY <1>2, <1>6, <1>7, <1>8, <1>9

\* A refresh by hand clears the delay.
LEMMA Releases ==
  ASSUME TypeOK, NEW u \in Users, Release(u)
  PROVE  \/ UNCHANGED <<status, backoff>>
         \/ \E i \in Ids, n \in Nat :
              /\ record[i] # None /\ record[i].rev \in Nat
              /\ status' = [status EXCEPT ![i] = [rev |-> record[i].rev, next |-> n, failures |-> 0]]
              /\ backoff' = [backoff EXCEPT ![i] = None]
<1>1. CASE UNCHANGED <<status, backoff>>
    BY <1>1
<1>2. CASE ~ UNCHANGED <<status, backoff>>
    <2>1. PICK i \in Ids :
              /\ record[i] # None
              /\ status' = [status EXCEPT ![i] =
                              [rev |-> record[i].rev, failures |-> 0,
                               next |-> IF record[i].enabled THEN now + Interval
                                        ELSE Updated(i, record[i].rev).next]]
              /\ backoff' = [backoff EXCEPT ![i] = None]
        BY <1>2 DEF Release
    <2> DEFINE n == IF record[i].enabled THEN now + Interval ELSE Updated(i, record[i].rev).next
    <2>2. record[i].rev \in Nat
        BY <2>1, StatusTyped
    <2>3. Updated(i, record[i].rev).next \in Nat
        BY <2>2, StatusTyped DEF Statuses
    <2>4. n \in Nat
      <3>1. now \in Nat /\ Interval \in Nat
        BY SlotsAssumption DEF TypeOK
      <3>2. now + Interval \in Nat
        BY <3>1
      <3> QED
        BY <2>3, <3>2
    <2>5. status' = [status EXCEPT ![i] = [rev |-> record[i].rev, next |-> n, failures |-> 0]]
        BY <2>1
    <2> HIDE DEF n
    <2> QED
        BY <2>1, <2>2, <2>4, <2>5
<1> QED
    BY <1>1, <1>2

LEMMA TypeInit == Init => TypeOK
<1> SUFFICES ASSUME Init PROVE TypeOK
    OBVIOUS
<1>1. [rev |-> 0, enabled |-> TRUE] \in Records
    BY DEF Records
<1>2. record \in [Ids -> {None} \cup Records]
    BY <1>1 DEF Init
<1>3. users \in [Users -> [at : {"idle", "waiting", "working"}]]
    BY DEF Init
<1>4. /\ status \in [Ids -> {None} \cup Statuses] /\ jobs \in [Ids -> {None} \cup Jobs]
      /\ backoff \in [Ids -> {None} \cup [rev : Nat, until : Nat]]
      /\ lastRev \in [Ids -> Nat]
    BY DEF Init
<1>5. now = 1 /\ backupAt = 0 /\ wakeAt = 0 /\ pc = "list" /\ rows = {} /\ due = {}
    BY DEF Init
<1>6. woken \in BOOLEAN /\ stopping \in BOOLEAN
    BY DEF Init
<1>7. "list" \in Places
    BY DEF Places
<1> QED
    BY <1>2, <1>3, <1>4, <1>5, <1>6, <1>7 DEF TypeOK

LEMMA TypeStep ==
  ASSUME TypeOK, [Next]_vars
  PROVE  TypeOK'
<1>1. CASE Wake \/ ListRows \/ Admit \/ Stopped \/ Tick
    <2>1. CASE Wake
        BY <2>1 DEF Wake, store, Places, TypeOK
    <2>2. CASE ListRows
        BY <2>2 DEF ListRows, store, Places, TypeOK
    <2>3. CASE Admit
        BY <2>3 DEF Admit, Sleep, store, Places, TypeOK
    <2>4. CASE Stopped
        BY <2>4 DEF Stopped, store, Places, TypeOK
    <2>5. CASE Tick
        BY <2>5 DEF Tick, store, sched, TypeOK
    <2> QED
        BY <1>1, <2>1, <2>2, <2>3, <2>4, <2>5
<1>2. CASE Prune
    <2>1. backupAt' \in Nat /\ wakeAt' = backupAt'
        BY <1>2, SlotsAssumption DEF Prune, TypeOK
    <2>2. status' \in [Ids -> {None} \cup Statuses]
        BY <1>2 DEF Prune, TypeOK
    <2> QED
        BY <1>2, <2>1, <2>2 DEF Prune, store, Places, TypeOK
<1>3. CASE CancelOld \/ Stop
    BY <1>3, JobMarks DEF CancelOld, Stop, store, sched, Places, TypeOK
<1>4. CASE Collect
    <2> DEFINE free  == {i \in rows \ Running : record[i] # None /\ record[i].enabled}
               later == {i \in free : DueAt(i) > now}
    <2>1. \A i \in free : i \in Ids /\ record[i].rev \in Nat /\ DueAt(i) \in Nat
        BY StatusTyped DEF TypeOK
    <2>2. due' \subseteq Dues
        BY <1>4, <2>1 DEF Collect, Dues
    <2>3. wakeAt' \in {wakeAt} \cup {DueAt(i) : i \in later}
        BY <1>4 DEF Collect
    <2>4. wakeAt' \in Nat
        BY <2>1, <2>3 DEF TypeOK
    <2> QED
        BY <1>4, <2>2, <2>4 DEF Collect, store, Places, TypeOK
<1>5. CASE Launch
    <2>1. \/ pc' = "wait" /\ due' = {} /\ jobs' = jobs
          \/ \E d \in due : /\ pc' = "admit" /\ due' = due \ {d}
                            /\ jobs' = [jobs EXCEPT ![d.id] = [rev |-> d.rev, cancelled |-> stopping, at |-> "get"]]
        BY <1>5 DEF Launch, Sleep
    <2>2. \A d \in due : d.id \in Ids /\ [rev |-> d.rev, cancelled |-> stopping, at |-> "get"] \in Jobs
        BY DEF TypeOK, Dues, Jobs, Working
    <2>3. jobs' \in [Ids -> {None} \cup Jobs]
      <3>1. CASE jobs' = jobs
        BY <3>1 DEF TypeOK
      <3>2. ASSUME NEW d \in due,
                   jobs' = [jobs EXCEPT ![d.id] = [rev |-> d.rev, cancelled |-> stopping, at |-> "get"]]
            PROVE  jobs' \in [Ids -> {None} \cup Jobs]
        BY <2>2, <3>2 DEF TypeOK
      <3> QED
        BY <2>1, <3>1, <3>2
    <2>4. due' \subseteq Dues /\ pc' \in Places
        BY <2>1 DEF TypeOK, Places
    <2> QED
        BY <1>5, <2>3, <2>4 DEF Launch, store, TypeOK
<1>6. ASSUME NEW i \in Ids, JobSteps(i) PROVE TypeOK'
    <2>1. jobs' \in [Ids -> {None} \cup Jobs]
        BY <1>6, JobMoves
    <2>2. UNCHANGED <<now, store, sched, stopping, users>> /\ woken' \in BOOLEAN
        BY <1>6 DEF JobSteps, GetRecord, Refreshed, Cancelled, Report, ReleaseSlot, Unlist, TypeOK
    <2>3. status' \in [Ids -> {None} \cup Statuses] /\ backoff' \in [Ids -> {None} \cup [rev : Nat, until : Nat]]
      <3>1. CASE UNCHANGED <<status, backoff>>
        BY <3>1 DEF TypeOK
      <3>2. CASE Report(i) /\ Reportable(i, jobs[i].rev)
        <4>1. PICK n \in Nat, d \in Nat :
                  /\ status' = [status EXCEPT ![i] = [rev |-> jobs[i].rev, next |-> now + d, failures |-> n]]
                  /\ backoff' = [backoff EXCEPT ![i] = None]
                       \/ backoff' = [backoff EXCEPT ![i] = [rev |-> jobs[i].rev, until |-> now + d]]
                  /\ jobs[i].rev \in Nat
            BY <3>2, Reports
        <4>2. now + d \in Nat
            BY DEF TypeOK
        <4>3. [rev |-> jobs[i].rev, next |-> now + d, failures |-> n] \in Statuses
            BY <4>1, <4>2 DEF Statuses
        <4>4. [rev |-> jobs[i].rev, until |-> now + d] \in [rev : Nat, until : Nat]
            BY <4>1, <4>2
        <4> QED
            BY <4>1, <4>3, <4>4 DEF TypeOK
      <3> QED
        BY <1>6, <3>1, <3>2 DEF JobSteps, GetRecord, Refreshed, Cancelled, Report, ReleaseSlot, Unlist
    <2> QED
        BY <2>1, <2>2, <2>3 DEF store, sched, TypeOK
<1>7. ASSUME NEW u \in Users, Queue(u) \/ Acquire(u) \/ Release(u) PROVE TypeOK'
    <2>1. users' \in [Users -> [at : {"idle", "waiting", "working"}]]
        BY <1>7, SMTT(40) DEF Queue, Acquire, Release, TypeOK
    <2>2. UNCHANGED <<now, store, sched, stopping, jobs>> /\ woken' \in BOOLEAN
        BY <1>7 DEF Queue, Acquire, Release, TypeOK
    <2>3. status' \in [Ids -> {None} \cup Statuses] /\ backoff' \in [Ids -> {None} \cup [rev : Nat, until : Nat]]
      <3>1. CASE UNCHANGED <<status, backoff>>
        BY <3>1 DEF TypeOK
      <3>2. CASE \E i \in Ids, n \in Nat :
                    /\ record[i] # None /\ record[i].rev \in Nat
                    /\ status' = [status EXCEPT ![i] = [rev |-> record[i].rev, next |-> n, failures |-> 0]]
                    /\ backoff' = [backoff EXCEPT ![i] = None]
        <4>1. PICK i \in Ids, n \in Nat :
                    /\ record[i].rev \in Nat
                    /\ status' = [status EXCEPT ![i] = [rev |-> record[i].rev, next |-> n, failures |-> 0]]
                    /\ backoff' = [backoff EXCEPT ![i] = None]
            BY <3>2
        <4>2. [rev |-> record[i].rev, next |-> n, failures |-> 0] \in Statuses
            BY <4>1 DEF Statuses
        <4> QED
            BY <4>1, <4>2 DEF TypeOK
      <3> QED
        BY <1>7, <3>1, <3>2, Releases DEF Queue, Acquire
    <2> QED
        BY <2>1, <2>2, <2>3 DEF store, sched, TypeOK
<1>8. ASSUME NEW i \in Ids, Edit(i) \/ Delete(i) PROVE TypeOK'
    <2>1. record' \in [Ids -> {None} \cup Records] /\ lastRev' \in [Ids -> Nat]
        BY <1>8 DEF Edit, Delete, Records, TypeOK
    <2>2. woken' \in BOOLEAN /\ UNCHANGED <<now, status, sched, stopping, jobs, users, backoff>>
        BY <1>8 DEF Edit, Delete
    <2> QED
        BY <2>1, <2>2 DEF sched, TypeOK
<1>9. CASE Crash
    <2>1. users' \in [Users -> [at : {"idle", "waiting", "working"}]]
        BY <1>9 DEF Crash
    <2> QED
        BY <1>9, <2>1 DEF Crash, store, Places, TypeOK
<1>10. CASE UNCHANGED vars
    BY <1>10 DEF vars, store, sched, TypeOK
<1> QED
    BY <1>1, <1>2, <1>3, <1>4, <1>5, <1>6, <1>7, <1>8, <1>9, <1>10
    DEF Next, Step, Tail, JobSteps

-----------------------------------------------------------------------------
(* Slots.                                                                    *)

Holding  == {i \in Ids : HasSlot(i)}
AtWork   == {u \in Users : users[u].at = "working"}
Limit    == IF Slots > 1 THEN Slots - 1 ELSE 1

LEMMA SetsFinite ==
  /\ IsFiniteSet(Running) /\ IsFiniteSet(Holding) /\ IsFiniteSet(AtWork)
  /\ Cardinality(Running) \in Nat /\ Cardinality(Holding) \in Nat /\ Cardinality(AtWork) \in Nat
<1>1. Running \in SUBSET Ids /\ Holding \in SUBSET Ids /\ AtWork \in SUBSET Users
    BY DEF Running, Holding, AtWork
<1>2. IsFiniteSet(Running) /\ IsFiniteSet(Holding) /\ IsFiniteSet(AtWork)
    BY <1>1, SetsAssumption, FS_Subset
<1> QED
    BY <1>2, FS_CardinalityType

LEMMA SetsFiniteNext ==
  /\ IsFiniteSet(Running') /\ IsFiniteSet(Holding') /\ IsFiniteSet(AtWork')
  /\ Cardinality(Running') \in Nat /\ Cardinality(Holding') \in Nat /\ Cardinality(AtWork') \in Nat
<1>1. Running' \in SUBSET Ids /\ Holding' \in SUBSET Ids /\ AtWork' \in SUBSET Users
    BY DEF Running, Holding, AtWork
<1>2. IsFiniteSet(Running') /\ IsFiniteSet(Holding') /\ IsFiniteSet(AtWork')
    BY <1>1, SetsAssumption, FS_Subset
<1> QED
    BY <1>2, FS_CardinalityType

\* Only Launch adds a job, and one at most.
LEMMA JobsBounded ==
  ASSUME TypeOK, [Next]_vars
  PROVE  \/ Running' \subseteq Running /\ Holding' \subseteq Holding
         \/ /\ Launch /\ ~BackgroundFull /\ SlotsTaken < Slots /\ UNCHANGED users /\ pc' # "stopped"
            /\ \E i \in Ids : Running' \subseteq Running \cup {i} /\ Holding' \subseteq Holding \cup {i}
<1>1. CASE UNCHANGED jobs
    BY <1>1 DEF Running, Holding, HasSlot
<1>2. ASSUME NEW i \in Ids, JobSteps(i) PROVE Running' \subseteq Running /\ Holding' \subseteq Holding
    BY <1>2, JobMoves DEF Running, Holding, HasSlot
<1>3. CASE CancelOld \/ Stop
    BY <1>3, JobMarks DEF Running, Holding, HasSlot
<1>4. CASE Crash
    BY <1>4 DEF Crash, Running, Holding, HasSlot
<1>5. CASE Launch /\ ~ UNCHANGED jobs
    <2>1. PICK d \in due : /\ ~BackgroundFull /\ ~(SlotsTaken >= Slots) /\ UNCHANGED users /\ pc' = "admit"
                           /\ jobs' = [jobs EXCEPT ![d.id] = [rev |-> d.rev, cancelled |-> stopping, at |-> "get"]]
        BY <1>5 DEF Launch
    <2>2. d.id \in Ids
        BY DEF TypeOK, Dues
    <2>3. \A i \in Ids \ {d.id} : jobs'[i] = jobs[i]
        BY <2>1 DEF TypeOK
    <2>4. SlotsTaken \in Nat /\ Slots \in Nat
        BY SetsFinite, SlotsAssumption DEF SlotsTaken, Holding, AtWork
    <2>5. Running' \subseteq Running \cup {d.id} /\ Holding' \subseteq Holding \cup {d.id}
        BY <2>3 DEF Running, Holding, HasSlot
    <2> QED
        BY <1>5, <2>1, <2>2, <2>4, <2>5
<1> QED
    BY <1>1, <1>2, <1>3, <1>4, <1>5
    DEF Next, Step, Tail, JobSteps, Wake, ListRows, Prune, Collect, Admit, Stopped, Tick, sched,
        Queue, Acquire, Release, Edit, Delete, vars

\* Only Acquire gives a request a slot, when there is one.
LEMMA UsersBounded ==
  ASSUME TypeOK, [Next]_vars
  PROVE  \/ AtWork' \subseteq AtWork
         \/ /\ SlotsTaken < Slots /\ UNCHANGED <<jobs, pc>>
            /\ \E u \in Users : AtWork' \subseteq AtWork \cup {u}
<1>1. CASE UNCHANGED users
    BY <1>1 DEF AtWork
<1>2. ASSUME NEW u \in Users, Queue(u) \/ Release(u) PROVE AtWork' \subseteq AtWork
    BY <1>2 DEF Queue, Release, AtWork, TypeOK
<1>3. ASSUME NEW u \in Users, Acquire(u)
      PROVE  \/ AtWork' \subseteq AtWork
             \/ SlotsTaken < Slots /\ UNCHANGED <<jobs, pc>> /\ AtWork' \subseteq AtWork \cup {u}
    BY <1>3 DEF Acquire, AtWork, TypeOK, sched
<1>4. CASE Crash
    BY <1>4 DEF Crash, AtWork
<1> QED
    BY <1>1, <1>2, <1>3, <1>4
    DEF Next, Step, Tail, Wake, ListRows, Prune, CancelOld, Collect, Admit, Launch, Stopped, Tick,
        Stop, Edit, Delete, GetRecord, Refreshed, Cancelled, Report, ReleaseSlot, Unlist, vars

\* One element more at most.
LEMMA OneMore ==
  ASSUME NEW S, NEW T, NEW x, IsFiniteSet(S), T \subseteq S \cup {x}
  PROVE  Cardinality(T) <= Cardinality(S) + 1
<1>1. IsFiniteSet(S \cup {x}) /\ Cardinality(S \cup {x}) <= Cardinality(S) + 1
  <2>1. IsFiniteSet(S \cup {x})
    BY FS_AddElement
  <2>2. Cardinality(S \cup {x}) = IF x \in S THEN Cardinality(S) ELSE Cardinality(S) + 1
    BY FS_AddElement
  <2>3. Cardinality(S) \in Nat
    BY FS_CardinalityType
  <2> QED
    BY <2>1, <2>2, <2>3
<1>2. T \in SUBSET (S \cup {x})
    OBVIOUS
<1>3. IsFiniteSet(T) /\ Cardinality(T) <= Cardinality(S \cup {x})
    BY <1>1, <1>2, FS_Subset
<1> QED
  <2>1. Cardinality(S) \in Nat /\ Cardinality(T) \in Nat /\ Cardinality(S \cup {x}) \in Nat
    BY <1>1, <1>3, FS_CardinalityType
  <2> QED
    BY <1>1, <1>3, <2>1

LEMMA BoundedStep ==
  ASSUME TypeOK, BackgroundBounded, [Next]_vars
  PROVE  BackgroundBounded'
<1>1. /\ BackgroundFull <=> Cardinality(Running) >= Limit
      /\ SlotsTaken = Cardinality(Holding) + Cardinality(AtWork)
      /\ SlotsTaken' = Cardinality(Holding') + Cardinality(AtWork')
      /\ Slots \in Nat \ {0} /\ Limit \in Nat
    BY SlotsAssumption DEF BackgroundFull, Limit, SlotsTaken, Holding, AtWork
<1>2. Running' \subseteq Running => Cardinality(Running') <= Cardinality(Running)
    BY SetsFinite, FS_Subset
<1>3. Holding' \subseteq Holding => Cardinality(Holding') <= Cardinality(Holding)
    BY SetsFinite, FS_Subset
<1>4. AtWork' \subseteq AtWork => Cardinality(AtWork') <= Cardinality(AtWork)
    BY SetsFinite, FS_Subset
<1>5. Cardinality(Running') <= Limit
    <2>1. CASE Running' \subseteq Running
        BY <1>1, <1>2, <2>1, SetsFinite, SetsFiniteNext DEF BackgroundBounded, Limit
    <2>2. CASE ~BackgroundFull /\ \E i \in Ids : Running' \subseteq Running \cup {i}
      <3>1. Cardinality(Running') <= Cardinality(Running) + 1
        BY <2>2, SetsFinite, OneMore
      <3> QED
        BY <1>1, <2>2, <3>1, SetsFinite, SetsFiniteNext
    <2> QED
        BY <2>1, <2>2, JobsBounded
<1>6. SlotsTaken' <= Slots
    <2>1. CASE Holding' \subseteq Holding /\ AtWork' \subseteq AtWork
        BY <1>1, <1>3, <1>4, <2>1, SetsFinite, SetsFiniteNext DEF BackgroundBounded
    <2>2. CASE SlotsTaken < Slots /\ UNCHANGED users /\ \E i \in Ids : Holding' \subseteq Holding \cup {i}
      <3>1. Cardinality(Holding') <= Cardinality(Holding) + 1 /\ AtWork' = AtWork
        BY <2>2, SetsFinite, OneMore DEF AtWork
      <3> QED
        BY <1>1, <2>2, <3>1, SetsFinite, SetsFiniteNext
    <2>3. CASE SlotsTaken < Slots /\ UNCHANGED jobs /\ \E u \in Users : AtWork' \subseteq AtWork \cup {u}
      <3>1. Cardinality(AtWork') <= Cardinality(AtWork) + 1 /\ Holding' = Holding
        BY <2>3, SetsFinite, OneMore DEF Holding, HasSlot
      <3> QED
        BY <1>1, <2>3, <3>1, SetsFinite, SetsFiniteNext
    <2> QED
        BY <2>1, <2>2, <2>3, JobsBounded, UsersBounded
<1>7. pc' = "stopped" => Running' = {}
    <2>1. CASE Stopped
        BY <2>1 DEF Stopped, Running
    <2>2. CASE ~Stopped /\ pc' = "stopped"
      <3>1. pc = "stopped"
        BY <2>2 DEF Next, Step, Tail, Wake, ListRows, Prune, CancelOld, Collect, Admit, Launch, Sleep, Tick,
            Stop, Edit, Delete, GetRecord, Refreshed, Cancelled, Report, ReleaseSlot, Unlist,
            Queue, Acquire, Release, Crash, sched, vars
      <3>2. Running' \subseteq Running
        BY <2>2, JobsBounded
      <3> QED
        BY <3>1, <3>2 DEF BackgroundBounded
    <2> QED
        BY <2>1, <2>2
<1> QED
    BY <1>5, <1>6, <1>7 DEF BackgroundBounded, Limit

\* The scheduler's jobs leave a slot for the foreground, and slots are not overdrawn.
THEOREM SlotsLeft == Spec => []BackgroundBounded
<1>1. Init => TypeOK /\ BackgroundBounded
  <2> SUFFICES ASSUME Init PROVE BackgroundBounded
    BY TypeInit
  <2>1. Running = {} /\ Holding = {} /\ AtWork = {}
    BY DEF Init, Running, Holding, HasSlot, AtWork
  <2>2. Cardinality(Running) = 0 /\ SlotsTaken = 0
    <3>1. Cardinality({}) = 0
      BY FS_EmptySet
    <3>2. SlotsTaken = Cardinality(Holding) + Cardinality(AtWork)
      BY DEF SlotsTaken, Holding, AtWork
    <3> QED
      BY <2>1, <3>1, <3>2
  <2> QED
    BY <2>1, <2>2, SlotsAssumption DEF BackgroundBounded
<1>2. TypeOK /\ BackgroundBounded /\ [Next]_vars => (TypeOK /\ BackgroundBounded)'
    BY TypeStep, BoundedStep
<1> QED
    BY <1>1, <1>2, PTL DEF Spec

-----------------------------------------------------------------------------
(* Statuses.                                                                 *)

\* The steps that write a status.
LEMMA StatusWritten ==
  ASSUME TypeOK, [Next]_vars
  PROVE  \/ UNCHANGED <<status, backoff>>
         \/ Prune
         \/ \E i \in Ids : Report(i) /\ Reportable(i, jobs[i].rev)
         \/ \E i \in Ids, n \in Nat :
              /\ record[i] # None /\ record[i].rev \in Nat /\ UNCHANGED <<store, sched, now, stopping, jobs>> /\ woken'
              /\ status' = [status EXCEPT ![i] = [rev |-> record[i].rev, next |-> n, failures |-> 0]]
              /\ backoff' = [backoff EXCEPT ![i] = None]
<1>1. CASE Step /\ ~Prune
    BY <1>1 DEF Step, Wake, ListRows, CancelOld, Collect, Admit, Launch, Stopped
<1>2. ASSUME NEW i \in Ids, JobSteps(i) \/ Edit(i) \/ Delete(i)
      PROVE  UNCHANGED <<status, backoff>> \/ (Report(i) /\ Reportable(i, jobs[i].rev))
    BY <1>2 DEF JobSteps, GetRecord, Refreshed, Cancelled, Report, ReleaseSlot, Unlist, Edit, Delete
<1>3. ASSUME NEW u \in Users, Queue(u) \/ Acquire(u)
      PROVE  UNCHANGED <<status, backoff>>
    BY <1>3 DEF Queue, Acquire
<1>4. ASSUME NEW u \in Users, Release(u)
      PROVE  UNCHANGED <<store, sched, now, stopping, jobs>> /\ woken'
    BY <1>4 DEF Release
<1>5. CASE Tick \/ Stop \/ Crash \/ UNCHANGED vars
    BY <1>5 DEF Tick, Stop, Crash, vars
<1> QED
    BY <1>1, <1>2, <1>3, <1>4, <1>5, Releases DEF Next, Tail, JobSteps

\* What is written is of the revision there is.
LEMMA CurrentStep ==
  ASSUME TypeOK, [Next]_vars, NEW i \in Ids, status'[i] # status[i], status'[i] # None
  PROVE  /\ IsCurrent(i, status'[i].rev)
         /\ status[i] # None /\ status[i].rev # status'[i].rev => status'[i].failures <= 1
<1>1. ~ UNCHANGED <<status, backoff>>
    OBVIOUS
<1>2. ~Prune
    BY DEF Prune
<1>3. ASSUME NEW k \in Ids, Report(k), Reportable(k, jobs[k].rev)
      PROVE  /\ IsCurrent(i, status'[i].rev)
             /\ status[i] # None /\ status[i].rev # status'[i].rev => status'[i].failures <= 1
    <2>1. PICK n \in Nat, d \in Nat :
              /\ status' = [status EXCEPT ![k] = [rev |-> jobs[k].rev, next |-> now + d, failures |-> n]]
              /\ status[k] # None /\ status[k].rev # jobs[k].rev => n <= 1
        BY <1>3, Reports
    <2>2. k = i
        BY <2>1 DEF TypeOK
    <2>3. status'[i] = [rev |-> jobs[i].rev, next |-> now + d, failures |-> n]
        BY <2>1, <2>2 DEF TypeOK
    <2> QED
        BY <1>3, <2>1, <2>2, <2>3 DEF Reportable
<1>4. ASSUME NEW k \in Ids, NEW n \in Nat, record[k] # None, record[k].rev \in Nat,
             status' = [status EXCEPT ![k] = [rev |-> record[k].rev, next |-> n, failures |-> 0]]
      PROVE  /\ IsCurrent(i, status'[i].rev)
             /\ status[i] # None /\ status[i].rev # status'[i].rev => status'[i].failures <= 1
    <2>1. k = i
        BY <1>4 DEF TypeOK
    <2>2. status'[i] = [rev |-> record[i].rev, next |-> n, failures |-> 0]
        BY <1>4, <2>1 DEF TypeOK
    <2> QED
        BY <1>4, <2>1, <2>2 DEF IsCurrent
<1> QED
    BY <1>1, <1>2, <1>3, <1>4, StatusWritten

\* A job that was overtaken by an edit reports nothing.
THEOREM StatusCurrent == Spec => StatusOfCurrent
<1>1. TypeOK /\ [Next]_vars =>
        [\A i \in Ids : status'[i] # status[i] /\ status'[i] # None
            => IsCurrent(i, status'[i].rev)
               /\ (status[i] # None /\ status[i].rev # status'[i].rev => status'[i].failures <= 1)]_vars
    BY CurrentStep
<1> QED
    BY <1>1, TypeInit, TypeStep, PTL DEF Spec, StatusOfCurrent

-----------------------------------------------------------------------------
(* Delays after a failure.                                                   *)

\* A revision is used once.
Revisions == \A i \in Ids :
    /\ record[i] # None => record[i].rev = lastRev[i]
    /\ jobs[i] # None => jobs[i].rev <= lastRev[i]
    /\ backoff[i] # None => backoff[i].rev <= lastRev[i]

\* The delay is in the status as long as the record is the one that failed.
Remembered == \A i \in Ids : backoff[i] # None =>
    /\ backoff[i].until > 0
    /\ IsCurrent(i, backoff[i].rev) =>
        /\ status[i] # None
        /\ status[i].rev = backoff[i].rev /\ status[i].next = backoff[i].until

\* What prune removes is of no record that may have failed.
Absent == pc = "prune" => \A i \in Ids \ rows :
    /\ backoff[i] # None => ~IsCurrent(i, backoff[i].rev)
    /\ jobs[i] # None /\ jobs[i].at \in Working => ~IsCurrent(i, jobs[i].rev)

\* What was collected is still due when it is launched.
StillDue == \A d \in due :
    /\ jobs[d.id] = None
    /\ backoff[d.id] # None /\ backoff[d.id].rev = d.rev => backoff[d.id].until <= now
    /\ d.rev <= lastRev[d.id]
    /\ \A e \in due : e.id = d.id => e = d

Delays == Revisions /\ Remembered /\ Absent /\ StillDue

\* A step that takes jobs or due records away, or lets time pass.
LEMMA DelaysFrame ==
  ASSUME TypeOK, Delays, UNCHANGED <<record, lastRev, status, backoff>>,
         now' \in Nat, now' >= now, due' \subseteq due,
         pc' = "prune" => pc = "prune" /\ rows' = rows,
         \A i \in Ids :
            /\ jobs[i] = None => jobs'[i] = None
            /\ jobs'[i] # None => /\ jobs'[i].rev \in {0, jobs[i].rev}
                                  /\ jobs'[i].at \in Working => jobs'[i].rev = jobs[i].rev /\ jobs[i].at \in Working
  PROVE  Delays'
<1>1. Revisions'
    <2> SUFFICES ASSUME NEW i \in Ids
                 PROVE  /\ record[i] # None => record[i].rev = lastRev[i]
                        /\ jobs'[i] # None => jobs'[i].rev <= lastRev[i]
                        /\ backoff[i] # None => backoff[i].rev <= lastRev[i]
        BY DEF Revisions
    <2>1. lastRev[i] \in Nat
        BY DEF TypeOK
    <2> QED
        BY <2>1 DEF Delays, Revisions
<1>2. \A i \in Ids : \A v : IsCurrent(i, v)' <=> IsCurrent(i, v)
    BY DEF IsCurrent
<1>3. Remembered'
    BY DEF Delays, Remembered, IsCurrent
<1>4. Absent'
    <2> SUFFICES ASSUME pc' = "prune", NEW i \in Ids \ rows'
                 PROVE  /\ backoff[i] # None => ~IsCurrent(i, backoff[i].rev)
                        /\ jobs'[i] # None /\ jobs'[i].at \in Working => ~IsCurrent(i, jobs'[i].rev)
        BY DEF Absent, IsCurrent
    <2> QED
        BY DEF Delays, Absent
<1>5. StillDue'
    <2> SUFFICES ASSUME NEW d \in due
                 PROVE  /\ jobs'[d.id] = None
                        /\ backoff[d.id] # None /\ backoff[d.id].rev = d.rev => backoff[d.id].until <= now'
                        /\ d.rev <= lastRev[d.id]
                        /\ \A e \in due : e.id = d.id => e = d
        BY DEF StillDue
    <2>1. d.id \in Ids
        BY DEF TypeOK, Dues
    <2>2. backoff[d.id] # None => backoff[d.id].until \in Nat
        BY <2>1 DEF TypeOK
    <2>3. now \in Nat
        BY DEF TypeOK
    <2> QED
        BY <2>1, <2>2, <2>3 DEF Delays, StillDue
<1> QED
    BY <1>1, <1>3, <1>4, <1>5 DEF Delays

\* An edit or a deletion: what is known of older revisions is of no use.
LEMMA DelaysEdit ==
  ASSUME TypeOK, Delays, NEW i \in Ids, Edit(i) \/ Delete(i)
  PROVE  Delays'
<1>1. /\ \A k \in Ids \ {i} : record'[k] = record[k] /\ lastRev'[k] = lastRev[k]
      /\ lastRev[i] \in Nat /\ lastRev'[i] \in {lastRev[i], lastRev[i] + 1}
      /\ record'[i] # None => record'[i].rev = lastRev'[i] /\ lastRev'[i] = lastRev[i] + 1
    BY DEF Edit, Delete, TypeOK
<1>2. UNCHANGED <<now, status, pc, rows, due, jobs, backoff>>
    BY DEF Edit, Delete, sched
<1>3. ASSUME NEW k \in Ids
      PROVE  /\ jobs[k] # None => jobs[k].rev \in Nat
             /\ backoff[k] # None => backoff[k].rev \in Nat
             /\ lastRev[k] \in Nat
    BY DEF TypeOK, Jobs
<1>4. \A k \in Ids, v \in Nat : v <= lastRev[k] /\ IsCurrent(k, v)' => IsCurrent(k, v)
    BY <1>1 DEF IsCurrent
<1>5. Revisions'
    <2> SUFFICES ASSUME NEW k \in Ids
                 PROVE  /\ record'[k] # None => record'[k].rev = lastRev'[k]
                        /\ jobs[k] # None => jobs[k].rev <= lastRev'[k]
                        /\ backoff[k] # None => backoff[k].rev <= lastRev'[k]
        BY <1>2 DEF Revisions
    <2> QED
        BY <1>1, <1>3 DEF Delays, Revisions
<1>6. Remembered'
    <2> SUFFICES ASSUME NEW k \in Ids, backoff[k] # None
                 PROVE  /\ backoff[k].until > 0
                        /\ IsCurrent(k, backoff[k].rev)' =>
                            /\ status[k] # None
                            /\ status[k].rev = backoff[k].rev /\ status[k].next = backoff[k].until
        BY <1>2 DEF Remembered, IsCurrent
    <2>1. IsCurrent(k, backoff[k].rev)' => IsCurrent(k, backoff[k].rev)
        BY <1>2, <1>3, <1>4 DEF Delays, Revisions, IsCurrent
    <2> QED
        BY <2>1 DEF Delays, Remembered
<1>7. Absent'
    <2> SUFFICES ASSUME pc = "prune", NEW k \in Ids \ rows
                 PROVE  /\ backoff[k] # None => ~(record'[k] # None /\ record'[k].rev = backoff[k].rev)
                        /\ jobs[k] # None /\ jobs[k].at \in Working
                            => ~(record'[k] # None /\ record'[k].rev = jobs[k].rev)
        BY <1>2 DEF Absent, IsCurrent
    <2> QED
        BY <1>3, <1>4 DEF Delays, Revisions, Absent, IsCurrent
<1>8. StillDue'
    <2> SUFFICES ASSUME NEW d \in due
                 PROVE  /\ jobs[d.id] = None
                        /\ backoff[d.id] # None /\ backoff[d.id].rev = d.rev => backoff[d.id].until <= now
                        /\ d.rev <= lastRev'[d.id]
                        /\ \A e \in due : e.id = d.id => e = d
        BY <1>2 DEF StillDue
    <2>1. d.id \in Ids /\ d.rev \in Nat
        BY DEF TypeOK, Dues
    <2>2. d.rev <= lastRev[d.id] => d.rev <= lastRev'[d.id]
        BY <1>1, <1>3, <2>1
    <2> QED
        BY <2>2 DEF Delays, StillDue
<1> QED
    BY <1>5, <1>6, <1>7, <1>8 DEF Delays

\* The steps of the scheduler.
LEMMA DelaysList ==
  ASSUME TypeOK, Delays, ListRows \/ Prune \/ Collect
  PROVE  Delays'
<1>1. UNCHANGED <<now, record, lastRev, jobs, backoff>>
    BY DEF ListRows, Prune, Collect, store
<1>2. Revisions'
    BY <1>1 DEF Delays, Revisions
<1>3. Remembered'
    <2>1. CASE status' = status
        BY <1>1, <2>1 DEF Delays, Remembered, IsCurrent
    <2>2. CASE Prune
      <3>1. \A i \in Ids : backoff[i] # None /\ IsCurrent(i, backoff[i].rev) => status'[i] = status[i]
        BY <2>2 DEF Prune, Delays, Absent
      <3>2. ASSUME NEW i \in Ids, backoff[i] # None
            PROVE  /\ backoff[i].until > 0
                   /\ IsCurrent(i, backoff[i].rev) =>
                        /\ status'[i] # None
                        /\ status'[i].rev = backoff[i].rev /\ status'[i].next = backoff[i].until
        BY <3>1, <3>2 DEF Delays, Remembered
      <3> QED
        BY <1>1, <3>2 DEF Remembered, IsCurrent
    <2> QED
        BY <2>1, <2>2 DEF ListRows, Collect
<1>4. Absent'
    <2>1. CASE ListRows
      <3>1. \A i \in Ids \ rows' : record[i] = None
        BY <2>1 DEF ListRows
      <3> QED
        BY <1>1, <3>1 DEF Absent, IsCurrent
    <2>2. CASE Prune \/ Collect
        BY <2>2 DEF Prune, Collect, Absent
    <2> QED
        BY <2>1, <2>2
<1>5. StillDue'
    <2>1. CASE due' = due
        BY <1>1, <2>1 DEF Delays, StillDue
    <2>2. CASE Collect
      <3> SUFFICES ASSUME NEW d \in due'
                   PROVE  /\ jobs[d.id] = None
                          /\ backoff[d.id] # None /\ backoff[d.id].rev = d.rev => backoff[d.id].until <= now
                          /\ d.rev <= lastRev[d.id]
                          /\ \A e \in due' : e.id = d.id => e = d
        BY <1>1 DEF StillDue
      <3>1. PICK i \in Ids \ Running : /\ record[i] # None /\ ~(DueAt(i) > now)
                                       /\ d = [id |-> i, rev |-> record[i].rev, at |-> DueAt(i)]
        BY <2>2 DEF Collect, TypeOK
      <3>2. \A e \in due' : e.id = i => e = [id |-> i, rev |-> record[i].rev, at |-> DueAt(i)]
        BY <2>2 DEF Collect
      <3>3. jobs[i] = None
        BY <3>1 DEF Running
      <3>4. record[i].rev = lastRev[i] /\ lastRev[i] \in Nat
        BY <3>1 DEF Delays, Revisions, TypeOK
      <3>5. ASSUME backoff[i] # None, backoff[i].rev = record[i].rev PROVE backoff[i].until <= now
        <4>1. IsCurrent(i, backoff[i].rev)
            BY <3>1, <3>5 DEF IsCurrent
        <4>2. status[i] # None /\ status[i].rev = record[i].rev /\ status[i].next = backoff[i].until
              /\ backoff[i].until > 0
            BY <3>5, <4>1 DEF Delays, Remembered
        <4>3. backoff[i].until \in Nat /\ now \in Nat
            BY <3>5 DEF TypeOK
        <4>4. DueAt(i) = backoff[i].until
            BY <4>2, <4>3 DEF DueAt, StatusOf
        <4> QED
            BY <3>1, <4>3, <4>4
      <3> QED
        BY <3>1, <3>2, <3>3, <3>4, <3>5
    <2> QED
        BY <2>1, <2>2 DEF ListRows, Prune
<1> QED
    BY <1>2, <1>3, <1>4, <1>5 DEF Delays

\* A record is taken off the due ones when its job starts.
LEMMA DelaysLaunch ==
  ASSUME TypeOK, Delays, NEW d \in due, pc' = "admit", due' = due \ {d},
         jobs' = [jobs EXCEPT ![d.id] = [rev |-> d.rev, cancelled |-> stopping, at |-> "get"]],
         UNCHANGED <<now, store, status, rows, backoff>>
  PROVE  Delays'
<1>1. d.id \in Ids /\ jobs'[d.id].rev = d.rev /\ \A i \in Ids \ {d.id} : jobs'[i] = jobs[i]
    BY DEF TypeOK, Dues
<1>2. UNCHANGED <<record, lastRev>>
    BY DEF store
<1>3. Revisions'
    <2> SUFFICES ASSUME NEW i \in Ids
                 PROVE  /\ record[i] # None => record[i].rev = lastRev[i]
                        /\ jobs'[i] # None => jobs'[i].rev <= lastRev[i]
                        /\ backoff[i] # None => backoff[i].rev <= lastRev[i]
        BY <1>2 DEF Revisions
    <2> QED
        BY <1>1 DEF Delays, Revisions, StillDue
<1>4. Remembered'
    BY <1>2 DEF Delays, Remembered, IsCurrent
<1>5. Absent'
    BY DEF Absent
<1>6. StillDue'
    <2> SUFFICES ASSUME NEW e \in due, e # d
                 PROVE  /\ jobs'[e.id] = None
                        /\ backoff[e.id] # None /\ backoff[e.id].rev = e.rev => backoff[e.id].until <= now
                        /\ e.rev <= lastRev[e.id]
                        /\ \A f \in due \ {d} : f.id = e.id => f = e
        BY <1>2 DEF StillDue
    <2>1. e.id \in Ids /\ e.id # d.id
        BY DEF Delays, StillDue, TypeOK, Dues
    <2> QED
        BY <1>1, <2>1 DEF Delays, StillDue
<1> QED
    BY <1>3, <1>4, <1>5, <1>6 DEF Delays

\* A failure is remembered, for the revision there is; a refresh by hand is a new start.
LEMMA DelaysWrite ==
  ASSUME TypeOK, Delays, NEW i \in Ids, NEW v \in Nat, NEW until \in Nat, NEW n \in Nat,
         IsCurrent(i, v),
         status' = [status EXCEPT ![i] = [rev |-> v, next |-> until, failures |-> n]],
         \/ backoff' = [backoff EXCEPT ![i] = None]
         \/ /\ backoff' = [backoff EXCEPT ![i] = [rev |-> v, until |-> until]]
            /\ until > 0 /\ jobs[i] # None /\ jobs[i].at \in Working /\ jobs[i].rev = v,
         UNCHANGED <<now, record, lastRev, pc, rows, due>>,
         \A k \in Ids :
            /\ jobs[k] = None => jobs'[k] = None
            /\ jobs'[k] # None => /\ jobs'[k].rev \in {0, jobs[k].rev}
                                  /\ jobs'[k].at \in Working => jobs'[k].rev = jobs[k].rev /\ jobs[k].at \in Working
  PROVE  Delays'
<1>1. UNCHANGED <<record, lastRev, now>>
    OBVIOUS
<1>2. /\ \A k \in Ids \ {i} : status'[k] = status[k] /\ backoff'[k] = backoff[k]
      /\ status'[i] = [rev |-> v, next |-> until, failures |-> n]
    BY DEF TypeOK
<1>3. \/ backoff'[i] = None
      \/ /\ backoff'[i] = [rev |-> v, until |-> until]
         /\ until > 0 /\ jobs[i] # None /\ jobs[i].at \in Working /\ jobs[i].rev = v
    BY DEF TypeOK
<1>4. status'[i] # None
    BY <1>2, NoneAssumption DEF Statuses
<1>5. v <= lastRev[i]
    BY DEF Delays, Revisions, IsCurrent, TypeOK
<1>6. Revisions'
    <2> SUFFICES ASSUME NEW k \in Ids
                 PROVE  /\ record[k] # None => record[k].rev = lastRev[k]
                        /\ jobs'[k] # None => jobs'[k].rev <= lastRev[k]
                        /\ backoff'[k] # None => backoff'[k].rev <= lastRev[k]
        BY <1>1 DEF Revisions
    <2> QED
        BY <1>2, <1>5, <1>3 DEF Delays, Revisions, TypeOK
<1>7. Remembered'
    <2> SUFFICES ASSUME NEW k \in Ids, backoff'[k] # None
                 PROVE  /\ backoff'[k].until > 0
                        /\ IsCurrent(k, backoff'[k].rev) =>
                            /\ status'[k] # None
                            /\ status'[k].rev = backoff'[k].rev /\ status'[k].next = backoff'[k].until
        BY <1>1 DEF Remembered, IsCurrent
    <2>1. CASE k # i
        BY <1>2, <2>1 DEF Delays, Remembered
    <2>2. CASE k = i
      <3>1. backoff'[i] = [rev |-> v, until |-> until] /\ until > 0
        BY <1>3, <2>2
      <3> QED
        BY <1>2, <1>4, <2>2, <3>1
    <2> QED
        BY <2>1, <2>2
<1>8. Absent'
    <2> SUFFICES ASSUME pc = "prune", NEW k \in Ids \ rows
                 PROVE  /\ backoff'[k] # None => ~IsCurrent(k, backoff'[k].rev)
                        /\ jobs'[k] # None /\ jobs'[k].at \in Working => ~IsCurrent(k, jobs'[k].rev)
        BY <1>1 DEF Absent, IsCurrent
    <2>1. CASE k # i
        BY <1>2, <2>1 DEF Delays, Absent
    <2>2. CASE k = i
      <3>1. jobs[i] # None /\ jobs[i].at \in Working => jobs[i].rev # v
        BY <2>2 DEF Delays, Absent
      <3> QED
        BY <1>3, <2>2, <3>1 DEF Delays, Absent
    <2> QED
        BY <2>1, <2>2
<1>9. StillDue'
    <2> SUFFICES ASSUME NEW d \in due
                 PROVE  /\ jobs'[d.id] = None
                        /\ backoff'[d.id] # None /\ backoff'[d.id].rev = d.rev => backoff'[d.id].until <= now
                        /\ d.rev <= lastRev[d.id]
                        /\ \A e \in due : e.id = d.id => e = d
        BY <1>1 DEF StillDue
    <2>1. d.id \in Ids /\ jobs[d.id] = None /\ jobs'[d.id] = None
        BY DEF Delays, StillDue, TypeOK, Dues
    <2>2. backoff'[d.id] # None => backoff'[d.id] = backoff[d.id]
        BY <1>2, <1>3, <2>1
    <2> QED
        BY <2>1, <2>2 DEF Delays, StillDue
<1> QED
    BY <1>6, <1>7, <1>8, <1>9 DEF Delays

LEMMA DelaysStep ==
  ASSUME TypeOK, Delays, [Next]_vars
  PROVE  Delays'
<1>0. now \in Nat \ {0}
    BY DEF TypeOK
<1>1. CASE ListRows \/ Prune \/ Collect
    BY <1>1, DelaysList
<1>2. CASE Launch
    <2>1. CASE due' = {} /\ UNCHANGED jobs /\ pc' = "wait"
        BY <1>0, <1>2, <2>1, DelaysFrame DEF Launch, store
    <2>2. CASE \E d \in due : /\ pc' = "admit" /\ due' = due \ {d}
                              /\ jobs' = [jobs EXCEPT ![d.id] = [rev |-> d.rev, cancelled |-> stopping, at |-> "get"]]
        BY <1>2, <2>2, DelaysLaunch DEF Launch
    <2> QED
        BY <1>2, <2>1, <2>2 DEF Launch, Sleep
<1>3. CASE CancelOld \/ Stop
    <2>1. pc' # "prune" \/ pc' = pc
        BY <1>3 DEF CancelOld, Stop, store, sched
    <2>2. UNCHANGED <<record, lastRev, status, backoff, now, due, rows>>
        BY <1>3 DEF CancelOld, Stop, store, sched
    <2>3. \A i \in Ids : /\ jobs[i] = None => jobs'[i] = None
                         /\ jobs'[i] # None => jobs'[i].rev = jobs[i].rev /\ jobs'[i].at = jobs[i].at
        BY <1>3, JobMarks
    <2> QED
        BY <1>0, <2>1, <2>2, <2>3, DelaysFrame
<1>4. ASSUME NEW i \in Ids, JobSteps(i) PROVE Delays'
    <2>1. \A k \in Ids :
            /\ jobs[k] = None => jobs'[k] = None
            /\ jobs'[k] # None => /\ jobs'[k].rev \in {0, jobs[k].rev}
                                  /\ jobs'[k].at \in Working => jobs'[k].rev = jobs[k].rev /\ jobs[k].at \in Working
        BY <1>4, JobMoves
    <2>2. UNCHANGED <<now, record, lastRev, pc, rows, due>>
        BY <1>4 DEF JobSteps, GetRecord, Refreshed, Cancelled, Report, ReleaseSlot, Unlist, store, sched
    <2>3. CASE UNCHANGED <<status, backoff>>
        BY <1>0, <2>1, <2>2, <2>3, DelaysFrame
    <2>4. CASE Report(i) /\ Reportable(i, jobs[i].rev)
      <3>1. PICK n \in Nat, d \in Nat :
                /\ status' = [status EXCEPT ![i] = [rev |-> jobs[i].rev, next |-> now + d, failures |-> n]]
                /\ backoff' = [backoff EXCEPT ![i] = None]
                     \/ backoff' = [backoff EXCEPT ![i] = [rev |-> jobs[i].rev, until |-> now + d]]
                /\ jobs[i].rev \in Nat
        BY <2>4, Reports
      <3>2. jobs[i] # None /\ jobs[i].at \in Working
        BY <2>4 DEF Report, Job, Working
      <3>3. now + d \in Nat /\ now + d > 0
        BY <1>0
      <3>4. IsCurrent(i, jobs[i].rev)
        BY <2>4 DEF Reportable
      <3> QED
        BY <1>4, <2>1, <2>2, <3>1, <3>2, <3>3, <3>4, DelaysWrite
    <2> QED
        BY <1>4, <2>3, <2>4 DEF JobSteps, GetRecord, Refreshed, Cancelled, Report, ReleaseSlot, Unlist
<1>5. ASSUME NEW u \in Users, Queue(u) \/ Acquire(u) \/ Release(u) PROVE Delays'
    <2>1. UNCHANGED <<now, record, lastRev, pc, rows, due, jobs>>
        BY <1>5 DEF Queue, Acquire, Release, store, sched
    <2>2. CASE UNCHANGED <<status, backoff>>
        BY <1>0, <2>1, <2>2, DelaysFrame
    <2>3. CASE \E i \in Ids, n \in Nat :
                  /\ record[i] # None /\ record[i].rev \in Nat
                  /\ status' = [status EXCEPT ![i] = [rev |-> record[i].rev, next |-> n, failures |-> 0]]
                  /\ backoff' = [backoff EXCEPT ![i] = None]
      <3>1. PICK i \in Ids, n \in Nat :
                  /\ record[i] # None /\ record[i].rev \in Nat
                  /\ status' = [status EXCEPT ![i] = [rev |-> record[i].rev, next |-> n, failures |-> 0]]
                  /\ backoff' = [backoff EXCEPT ![i] = None]
        BY <2>3
      <3>2. IsCurrent(i, record[i].rev)
        BY <3>1 DEF IsCurrent
      <3>3. \A k \in Ids : jobs'[k] # None /\ jobs'[k].at \in Working => jobs[k].at \in Working
        BY <2>1
      <3> QED
        BY <2>1, <3>1, <3>2, <3>3, DelaysWrite
    <2> QED
        BY <1>5, <2>2, <2>3, Releases DEF Queue, Acquire
<1>6. ASSUME NEW i \in Ids, Edit(i) \/ Delete(i) PROVE Delays'
    BY <1>6, DelaysEdit
<1>7. CASE Crash
    <2>1. \A i \in Ids : jobs'[i] = None
        BY <1>7 DEF Crash
    <2> QED
        BY <1>0, <1>7, <2>1, DelaysFrame DEF Crash, store
<1>8. CASE Wake \/ Admit \/ Stopped \/ Tick \/ UNCHANGED vars
    <2>1. UNCHANGED <<record, lastRev, status, backoff, jobs>> /\ due' \subseteq due
        BY <1>8 DEF Wake, Admit, Sleep, Stopped, Tick, vars, store, sched
    <2>2. pc' = "prune" => pc = "prune" /\ rows' = rows
        BY <1>8 DEF Wake, Admit, Sleep, Stopped, Tick, vars, sched
    <2>3. now' \in Nat /\ now' >= now
        BY <1>0, <1>8 DEF Wake, Admit, Stopped, Tick, vars
    <2> QED
        BY <2>1, <2>2, <2>3, DelaysFrame
<1> QED
    BY <1>1, <1>2, <1>3, <1>4, <1>5, <1>6, <1>7, <1>8 DEF Next, Step, Tail, JobSteps

LEMMA DelaysInit == Init => Delays
<1> SUFFICES ASSUME Init PROVE Delays
    OBVIOUS
<1>1. \A i \in Ids : jobs[i] = None /\ backoff[i] = None /\ lastRev[i] = 0
    BY DEF Init
<1>2. \A i \in Ids : record[i] # None => record[i].rev = 0
    BY DEF Init
<1>3. due = {} /\ pc = "list"
    BY DEF Init
<1> QED
    BY <1>1, <1>2, <1>3 DEF Delays, Revisions, Remembered, Absent, StillDue

\* A record that failed is left alone until its delay is over.
THEOREM DelaysKept == Spec => BackoffKept
<1>1. ASSUME TypeOK, Delays, [Next]_vars, NEW i \in Ids, jobs[i] = None, jobs'[i] # None, backoff[i] # None
      PROVE  jobs'[i].rev # backoff[i].rev \/ now >= backoff[i].until
    <2>1. Launch
        BY <1>1, JobsBounded DEF Running
    <2>2. PICK d \in due : jobs' = [jobs EXCEPT ![d.id] = [rev |-> d.rev, cancelled |-> stopping, at |-> "get"]]
        BY <1>1, <2>1 DEF Launch
    <2>3. d.id \in Ids /\ d.id = i
        BY <1>1, <2>2 DEF TypeOK, Dues
    <2>4. jobs'[i].rev = d.rev
      <3>1. jobs'[i] = [rev |-> d.rev, cancelled |-> stopping, at |-> "get"]
        BY <1>1, <2>2, <2>3 DEF TypeOK
      <3> QED
        BY <3>1
    <2>5. backoff[i].rev = d.rev => backoff[i].until <= now
        BY <1>1, <2>3 DEF Delays, StillDue
    <2>6. backoff[i].until \in Nat /\ now \in Nat
        BY <1>1 DEF TypeOK
    <2> QED
        BY <2>4, <2>5, <2>6
<1>2. TypeOK /\ Delays /\ [Next]_vars =>
        [\A i \in Ids : jobs[i] = None /\ jobs'[i] # None /\ backoff[i] # None
            => jobs'[i].rev # backoff[i].rev \/ now >= backoff[i].until]_vars
    BY <1>1
<1> QED
    BY <1>2, DelaysInit, DelaysStep, TypeInit, TypeStep, PTL DEF Spec, BackoffKept

-----------------------------------------------------------------------------
(* Deadlines.                                                                *)

Wanted(i) == record[i] # None /\ record[i].enabled
InTime(i) == StatusOf(i).next # 0 /\ wakeAt <= StatusOf(i).next

\* Without a signal, what was listed is what there is.
Listed == pc \in {"prune", "cancel", "collect"} /\ ~woken =>
    rows = {i \in Ids : record[i] # None}

\* And who is not running is to be started, or the timer is set for him.
Planned == pc \in {"admit", "launch"} /\ ~woken =>
    \A i \in Ids \ Running : Wanted(i) => InTime(i) \/ \E d \in due : d.id = i

Wakes == Listed /\ Planned /\ NoLostWakeup

\* Slots are taken by somebody.
LEMMA SlotsBusy ==
  SlotsTaken > 0 => Running # {} \/ \E u \in Users : users[u].at = "working"
<1> SUFFICES ASSUME Running = {}, AtWork = {} PROVE SlotsTaken = 0
    BY DEF AtWork
<1>1. Holding = {}
    BY DEF Holding, HasSlot, Running
<1>2. Cardinality({}) = 0
    BY FS_EmptySet
<1>3. SlotsTaken = Cardinality(Holding) + Cardinality(AtWork)
    BY DEF SlotsTaken, Holding, AtWork
<1> QED
    BY <1>1, <1>2, <1>3

\* A step of somebody else that gives no signal takes nothing away.
LEMMA Undisturbed ==
  ASSUME TypeOK, Wakes, UNCHANGED <<record, status, wakeAt, due, rows, pc, woken>>,
         Running' = Running, now' \in Nat, now' >= now, stopping => stopping',
         \A u \in Users : users[u].at \in {"waiting", "working"} => users'[u].at = users[u].at
  PROVE  Wakes'
<1>1. \A i \in Ids : Wanted(i)' = Wanted(i) /\ StatusOf(i)' = StatusOf(i) /\ InTime(i)' = InTime(i)
    BY DEF Wanted, InTime, StatusOf, Blank
<1>2. Listed' /\ Planned'
    BY <1>1 DEF Wakes, Listed, Planned
<1>3. Waiters > 0 => Waiters' > 0
  <2> DEFINE S == {u \in Users : users[u].at = "waiting"}
             T == {u \in Users : users'[u].at = "waiting"}
  <2>1. S \in SUBSET T /\ S \in SUBSET Users /\ T \in SUBSET Users
    OBVIOUS
  <2>2. IsFiniteSet(S) /\ IsFiniteSet(T)
    BY <2>1, SetsAssumption, FS_Subset
  <2>3. Cardinality(S) <= Cardinality(T) /\ Cardinality(S) \in Nat /\ Cardinality(T) \in Nat
    BY <2>1, <2>2, FS_Subset, FS_CardinalityType
  <2>4. Waiters = Cardinality(S) /\ Waiters' = Cardinality(T)
    BY DEF Waiters
  <2> HIDE DEF S, T
  <2> QED
    BY <2>3, <2>4
<1>4. NoLostWakeup'
  <2> SUFFICES ASSUME pc = "wait", ~woken, ~stopping', NEW i \in Ids \ Running, Wanted(i)
               PROVE  \/ InTime(i)
                      \/ wakeAt <= now'
                      \/ Waiters' > 0 \/ Running # {} \/ \E u \in Users : users'[u].at = "working"
    BY <1>1 DEF NoLostWakeup, Wanted, InTime
  <2>1. \/ InTime(i)
        \/ wakeAt <= now
        \/ Waiters > 0 \/ Running # {} \/ \E u \in Users : users[u].at = "working"
    BY DEF Wakes, NoLostWakeup, Wanted, InTime
  <2>2. wakeAt <= now => wakeAt <= now'
    BY DEF TypeOK
  <2> QED
    BY <1>3, <2>1, <2>2
<1> QED
    BY <1>2, <1>4 DEF Wakes

\* The steps of the scheduler.
LEMMA WakesStep ==
  ASSUME TypeOK, Wakes, Step
  PROVE  Wakes'
<1>1. CASE Wake \/ Stopped
    BY <1>1 DEF Wake, Stopped, Wakes, Listed, Planned, NoLostWakeup
<1>2. CASE ListRows \/ Prune \/ CancelOld
    BY <1>2 DEF ListRows, Prune, CancelOld, store, Wakes, Listed, Planned, NoLostWakeup
<1>3. CASE Collect
    <2>1. UNCHANGED <<record, status, jobs, woken>> /\ pc' = "admit"
        BY <1>3 DEF Collect, store
    <2>2. ASSUME ~woken', NEW i \in Ids \ Running, Wanted(i) PROVE InTime(i)' \/ \E d \in due' : d.id = i
      <3>1. i \in rows /\ pc = "collect"
        BY <1>3, <2>1, <2>2 DEF Collect, Wakes, Listed, Wanted
      <3>2. CASE DueAt(i) > now
        <4>1. wakeAt' <= DueAt(i)
            BY <1>3, <2>2, <3>1, <3>2 DEF Collect, Wanted
        <4>2. StatusOf(i).next # 0 /\ DueAt(i) = StatusOf(i).next
            BY <3>2 DEF DueAt, TypeOK
        <4> QED
            BY <2>1, <4>1, <4>2 DEF InTime, StatusOf, Blank
      <3>3. CASE ~(DueAt(i) > now)
        <4>1. [id |-> i, rev |-> record[i].rev, at |-> DueAt(i)] \in due'
            BY <1>3, <2>2, <3>1, <3>3 DEF Collect, Wanted
        <4> QED
            BY <4>1
      <3> QED
        BY <3>2, <3>3
    <2>3. Planned'
        BY <2>1, <2>2 DEF Planned, Running, Wanted
    <2> QED
        BY <2>1, <2>3 DEF Wakes, Listed, NoLostWakeup
<1>4. CASE Admit
    <2>1. UNCHANGED <<record, status, jobs, woken, wakeAt, users, now, stopping>> /\ pc = "admit"
        BY <1>4 DEF Admit, store
    <2>2. \A i \in Ids : Wanted(i)' = Wanted(i) /\ StatusOf(i)' = StatusOf(i) /\ InTime(i)' = InTime(i)
        BY <2>1 DEF Wanted, InTime, StatusOf, Blank
    <2>3. CASE pc' = "launch" /\ due' = due
        BY <2>1, <2>2, <2>3 DEF Wakes, Listed, Planned, NoLostWakeup, Running
    <2>4. CASE pc' = "wait" /\ (due = {} \/ stopping \/ Waiters > 0 \/ SlotsTaken + Reserve >= Slots)
      <3>1. SlotsTaken + Reserve >= Slots => SlotsTaken > 0
        <4>1. SlotsTaken \in Nat
            BY SetsFinite DEF SlotsTaken, Holding, AtWork
        <4>2. Slots \in Nat \ {0}
            BY SlotsAssumption
        <4> QED
            BY <4>1, <4>2 DEF Reserve
      <3>2. ASSUME ~woken, ~stopping, NEW i \in Ids \ Running, Wanted(i)
            PROVE  InTime(i) \/ Waiters > 0 \/ Running # {} \/ \E u \in Users : users[u].at = "working"
        BY <2>1, <2>4, <3>1, <3>2, SlotsBusy DEF Wakes, Planned
      <3> QED
        BY <2>1, <2>2, <2>4, <3>2 DEF Wakes, Listed, Planned, NoLostWakeup, Running, Waiters, Wanted, InTime
    <2> QED
        BY <1>4, <2>3, <2>4 DEF Admit, Sleep
<1>5. CASE Launch
    <2>1. UNCHANGED <<record, status, woken, wakeAt, users, now, stopping>> /\ pc = "launch"
        BY <1>5 DEF Launch, store
    <2>2. \A i \in Ids : Wanted(i)' = Wanted(i) /\ StatusOf(i)' = StatusOf(i) /\ InTime(i)' = InTime(i)
        BY <2>1 DEF Wanted, InTime, StatusOf, Blank
    <2>3. CASE pc' = "wait" /\ (BackgroundFull \/ SlotsTaken >= Slots) /\ UNCHANGED jobs
      <3>1. Slots \in Nat \ {0} /\ SlotsTaken \in Nat
        BY SetsFinite, SlotsAssumption DEF SlotsTaken, Holding, AtWork
      <3>2. BackgroundFull => Running # {}
        <4> SUFFICES ASSUME Running = {} PROVE ~BackgroundFull
            OBVIOUS
        <4>1. Cardinality(Running) = 0
            BY FS_EmptySet
        <4> QED
            BY <3>1, <4>1 DEF BackgroundFull
      <3>3. Running # {} \/ \E u \in Users : users[u].at = "working"
        BY <2>3, <3>1, <3>2, SlotsBusy
      <3> QED
        BY <2>1, <2>3, <3>3 DEF Wakes, Listed, Planned, NoLostWakeup, Running
    <2>4. CASE \E d \in due : /\ pc' = "admit" /\ due' = due \ {d}
                              /\ jobs' = [jobs EXCEPT ![d.id] = [rev |-> d.rev, cancelled |-> stopping, at |-> "get"]]
      <3>1. PICK d \in due : /\ pc' = "admit" /\ due' = due \ {d}
                             /\ jobs' = [jobs EXCEPT ![d.id] = [rev |-> d.rev, cancelled |-> stopping, at |-> "get"]]
        BY <2>4
      <3>2. d.id \in Ids /\ [rev |-> d.rev, cancelled |-> stopping, at |-> "get"] \in Jobs
        BY DEF TypeOK, Dues, Jobs
      <3>3. jobs'[d.id] # None /\ \A i \in Ids \ {d.id} : jobs'[i] = jobs[i]
        BY <3>1, <3>2, NoneAssumption DEF TypeOK
      <3>4. \A i \in Ids \ Running' : i \in Ids \ Running /\ i # d.id
        BY <3>3 DEF Running
      <3>5. Planned'
        BY <2>1, <2>2, <3>1, <3>4 DEF Wakes, Planned
      <3> QED
        BY <3>1, <3>5 DEF Wakes, Listed, NoLostWakeup
    <2> QED
        BY <1>5, <2>3, <2>4 DEF Launch, Sleep
<1> QED
    BY <1>1, <1>2, <1>3, <1>4, <1>5 DEF Step

LEMMA WakesNext ==
  ASSUME TypeOK, Wakes, [Next]_vars
  PROVE  Wakes'
<1>1. CASE Step
    BY <1>1, WakesStep
<1>2. CASE woken'
    BY <1>2 DEF Wakes, Listed, Planned, NoLostWakeup
<1>3. CASE Crash
    BY <1>3 DEF Crash, Wakes, Listed, Planned, NoLostWakeup
<1>4. ASSUME NEW i \in Ids, JobSteps(i), ~woken' PROVE Wakes'
    <2>1. ~Unlist(i)
        BY <1>4 DEF Unlist
    <2>2. ~(Report(i) /\ Reportable(i, jobs[i].rev))
        BY <1>4 DEF Report
    <2>3. UNCHANGED <<now, record, status, wakeAt, due, rows, pc, woken, stopping, users>>
        BY <1>4, <2>1, <2>2 DEF JobSteps, GetRecord, Refreshed, Cancelled, Report, ReleaseSlot, store, sched
    <2>4. Running' = Running
        BY <1>4, <2>1, JobMoves DEF Running
    <2> QED
        BY <2>3, <2>4, Undisturbed DEF TypeOK
<1>5. ASSUME NEW u \in Users, Queue(u) PROVE Wakes'
    <2>1. UNCHANGED <<now, record, status, wakeAt, due, rows, pc, woken, stopping, jobs>>
        BY <1>5 DEF Queue, store, sched
    <2>2. \A v \in Users : users[v].at \in {"waiting", "working"} => users'[v].at = users[v].at
        BY <1>5 DEF Queue, TypeOK
    <2> QED
        BY <2>1, <2>2, Undisturbed DEF TypeOK, Running
<1>6. CASE Stop
    <2>1. UNCHANGED <<now, record, status, wakeAt, due, rows, pc, woken, users>> /\ stopping'
        BY <1>6 DEF Stop, store, sched
    <2>2. Running' = Running
        BY <1>6, JobMarks DEF Running
    <2> QED
        BY <2>1, <2>2, Undisturbed DEF TypeOK
<1>7. CASE Tick \/ UNCHANGED vars
    <2>1. UNCHANGED <<record, status, wakeAt, due, rows, pc, woken, users, stopping, jobs>>
        BY <1>7 DEF Tick, vars, store, sched
    <2>2. now' \in Nat /\ now' >= now
        BY <1>7 DEF Tick, vars, TypeOK
    <2> QED
        BY <2>1, <2>2, Undisturbed DEF Running
<1>8. ASSUME NEW i \in Ids, Edit(i) \/ Delete(i) PROVE woken'
    BY <1>8 DEF Edit, Delete
<1>9. ASSUME NEW u \in Users, Acquire(u) \/ Release(u) PROVE woken'
    BY <1>9 DEF Acquire, Release
<1> QED
    BY <1>1, <1>2, <1>3, <1>4, <1>5, <1>6, <1>7, <1>8, <1>9 DEF Next, Tail, JobSteps

\* Whoever sleeps is woken in time for every record that is due.
THEOREM WakesInTime == Spec => []NoLostWakeup
<1>1. Init => Wakes
    BY DEF Init, Wakes, Listed, Planned, NoLostWakeup
<1>2. TypeOK /\ Wakes /\ [Next]_vars => (TypeOK /\ Wakes)'
    BY TypeStep, WakesNext
<1>3. Wakes => NoLostWakeup
    BY DEF Wakes
<1> QED
    BY <1>1, <1>2, <1>3, TypeInit, PTL DEF Spec
=============================================================================
