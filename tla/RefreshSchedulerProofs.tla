----------------------- MODULE RefreshSchedulerProofs -----------------------
(***************************************************************************)
(* Proofs about RefreshScheduler: delays, the order of jobs and the status *)
(* file, for any number of jobs, intervals and requests.                   *)
(***************************************************************************)
EXTENDS RefreshScheduler, FiniteSetTheorems, NaturalsInduction, TLAPS

-----------------------------------------------------------------------------
(* Delays.                                                                   *)

\* The least element of a set of numbers, without an operator as parameter.
LEMMA Least ==
  ASSUME NEW T \in SUBSET Nat, T # {}
  PROVE  \E n \in T : \A m \in T : ~(m < n)
<1>1. IsWellFoundedOn(OpToRel(<, Nat), Nat)
    BY NatLessThanWellFounded
<1>2. PICK n \in T : \A m \in T : ~(<<m, n>> \in OpToRel(<, Nat))
    BY <1>1, WFMin
<1> QED
    BY <1>2 DEF OpToRel

\* One turn of the loop of retryDelay.
Longer(d, v) == IF d < CapDelay(v) THEN Shorter(2 * d, CapDelay(v)) ELSE d

LEMMA CapType ==
  ASSUME NEW v \in Nat, v >= 2
  PROVE  CapDelay(v) \in Nat \ {0} /\ CapDelay(v) <= v \div 2
BY DurationAssumption DEF CapDelay, Shorter

\* The intervals of a process that runs.
LEMMA IntervalType ==
  ASSUME NEW j \in Job, NEW v \in Intervals[j]
  PROVE  v \in Nat /\ v >= 2
BY IntervalAssumption

\* The loop has delays for all numbers of failures.
LEMMA LoopDefined ==
  ASSUME NEW v \in Nat, v >= 2, NEW n \in Nat
  PROVE  \E g \in [1..n -> Nat \ {0}] :
              g = [i \in 1..n |-> IF i = 1 THEN Minute ELSE Longer(g[i - 1], v)]
<1> DEFINE Row(k, g) == g = [i \in 1..k |-> IF i = 1 THEN Minute ELSE Longer(g[i - 1], v)]
           Missing   == {k \in Nat : ~\E g \in [1..k -> Nat \ {0}] : Row(k, g)}
<1>1. ASSUME Missing # {} PROVE FALSE
    <2>1. PICK k \in Missing : \A m \in Missing : ~(m < k)
        BY <1>1, Least
    <2>2. k # 0
        <3>1. [i \in 1..0 |-> 1] \in [1..0 -> Nat \ {0}] /\ Row(0, [i \in 1..0 |-> 1])
            OBVIOUS
        <3> QED
            BY <3>1
    <2>3. k \in Nat /\ k - 1 \in Nat /\ k - 1 < k
        BY <2>2
    <2>4. PICK g \in [1..(k - 1) -> Nat \ {0}] : Row(k - 1, g)
        BY <2>1, <2>3
    <2> DEFINE last == IF k = 1 THEN Minute ELSE Longer(g[k - 1], v)
               h    == [i \in 1..k |-> IF i < k THEN g[i] ELSE last]
    <2>5. last \in Nat \ {0}
        <3>0. k # 1 => k - 1 \in 1..(k - 1)
            BY <2>2, <2>3
        <3>1. k # 1 => g[k - 1] \in Nat \ {0}
            BY <2>4, <3>0
        <3> QED
            BY <3>1, CapType, DurationAssumption DEF Longer, Shorter
    <2>6. h \in [1..k -> Nat \ {0}]
        BY <2>4, <2>5
    <2>7. ASSUME NEW i \in 1..k PROVE h[i] = IF i = 1 THEN Minute ELSE Longer(h[i - 1], v)
        <3>1. CASE i < k
            BY <2>4, <3>1
        <3>2. CASE i = k
            BY <2>2, <2>4, <3>2
        <3> QED
            BY <3>1, <3>2
    <2>8. Row(k, h)
        BY <2>7
    <2> QED
        BY <2>6, <2>8
<1> QED
    BY <1>1

\* What retryDelay returns is at least one and at most its cap.
LEMMA DelayBounds ==
  ASSUME NEW v \in Nat, v >= 2, NEW n \in Nat
  PROVE  /\ RetryDelay(v, n) \in Nat \ {0}
         /\ RetryDelay(v, n) <= CapDelay(v)
<1> DEFINE N      == Later(n, 1)
           Row(g) == g = [i \in 1..N |-> IF i = 1 THEN Minute ELSE Longer(g[i - 1], v)]
           delay  == CHOOSE g : Row(g)
<1>1. N \in Nat /\ N >= 1
    BY DEF Later
<1>2. \E g : Row(g)
    <2> HIDE DEF N
    <2>1. \E g \in [1..N -> Nat \ {0}] :
              g = [i \in 1..N |-> IF i = 1 THEN Minute ELSE Longer(g[i - 1], v)]
        BY <1>1, LoopDefined
    <2> QED
        BY <2>1
<1>3. Row(delay)
    BY <1>2
<1>4. RetryDelay(v, n) = Shorter(delay[N], CapDelay(v))
    BY DEF RetryDelay, Longer
<1> HIDE DEF delay
<1> DEFINE Bad == {i \in 1..N : delay[i] \notin Nat \ {0}}
<1>5. ASSUME Bad # {} PROVE FALSE
    <2>1. PICK i \in Bad : \A m \in Bad : ~(m < i)
        <3>1. Bad \in SUBSET Nat
            BY <1>1
        <3> HIDE DEF Bad
        <3> QED
            BY <1>5, <3>1, Least
    <2>2. i = 1 \/ delay[i - 1] \in Nat \ {0}
        BY <1>1, <2>1
    <2>3. delay[i] = IF i = 1 THEN Minute ELSE Longer(delay[i - 1], v)
        BY <1>1, <1>3, <2>1
    <2> QED
        BY <2>1, <2>2, <2>3, CapType, DurationAssumption DEF Longer, Shorter
<1>6. delay[N] \in Nat \ {0}
    BY <1>1, <1>5
<1> QED
    BY <1>4, <1>6, CapType DEF Shorter

LEMMA JitterBounds ==
  ASSUME NEW d \in Nat, NEW e \in Jitter(d)
  PROVE  e \in Nat /\ e <= d \div 10 /\ e <= LongestJitter /\ e <= Shorter(d \div 10, LongestJitter)
BY DurationAssumption DEF Jitter, Shorter

-----------------------------------------------------------------------------
(* Types and times.                                                          *)

State == [enabled : BOOLEAN, hash : Hash \cup {0}, attempt : Nat, next : Nat, failures : Nat,
          under : Nat]

TypeOK ==
    /\ now \in Nat \ {0} /\ stopping \in BOOLEAN
    /\ \/ phase = "executing" /\ running \in Job
       \/ phase \in {"down", "idle"} /\ running = 0
    /\ \/ phase = "down" /\ interval = NoIntervals
       \/ phase # "down" /\ interval \in [Job -> Nat] /\ \A j \in Job : interval[j] \in Intervals[j]
    /\ states \in [Job -> State] /\ file \in [Job -> State]
    /\ created \in [Job -> Nat] /\ backoff \in [Job -> Nat] /\ overtaken \in [Job -> Nat]

\* The last moment for which a job of interval v may now be planned.
Latest(v) == now + Span(v)

\* Nothing lies further ahead, in memory or in the file.
Timely ==
    \A j \in Job : /\ created[j] <= now
                   /\ states[j].attempt <= now /\ file[j].attempt <= now
                   /\ states[j].next <= Latest(states[j].under)
                   /\ file[j].next <= Latest(file[j].under)

\* The step that changes the state of one job.
StepOf(j) == Postpone(j) \/ Attempt(j) \/ (running = j /\ (Succeed \/ FailAttempt))

LEMMA NoStatesType == NoStates \in [Job -> State]
BY DEF NoStates, NewState, State

LEMMA JobFacts == IsFiniteSet(Job) /\ Cardinality(Job) = Jobs /\ 0 \notin Job /\ Job \subseteq Nat
BY JobsAssumption, FS_Interval DEF Job

LEMMA SpanType ==
  ASSUME NEW v \in Nat
  PROVE  Span(v) \in Nat /\ Span(v) >= v
BY DurationAssumption DEF Span, Shorter

LEMMA LatestType ==
  ASSUME now \in Nat, NEW v \in Nat
  PROVE  Latest(v) \in Nat /\ Latest(v) >= now
BY SpanType DEF Latest

\* A process that runs has the intervals of its configuration.
LEMMA Running ==
  ASSUME TypeOK, phase # "down", NEW j \in Job
  PROVE  interval[j] \in Nat /\ interval[j] >= 2
BY IntervalType DEF TypeOK

\* An interval and its jitter.
LEMMA SpanCovers ==
  ASSUME NEW v \in Nat, NEW d \in Jitter(v)
  PROVE  d \in Nat /\ v + d <= Span(v)
<1>1. d \in Nat /\ d <= Shorter(v \div 10, LongestJitter)
    BY JitterBounds
<1>2. Shorter(v \div 10, LongestJitter) \in Nat
    BY DurationAssumption DEF Shorter
<1> QED
    BY <1>1, <1>2 DEF Span

\* Three fields of the state of a job are set.
Ended(r, f, t, v) == [enabled |-> r.enabled, hash |-> r.hash, attempt |-> r.attempt,
                      next |-> t, failures |-> f, under |-> v]

LEMMA TwoFields ==
  ASSUME TypeOK, NEW j \in Job, NEW t \in Nat, NEW v \in Nat,
         states' = [states EXCEPT ![j].next = t, ![j].under = v]
  PROVE  /\ states' = [states EXCEPT ![j] = Ended(states[j], states[j].failures, t, v)]
         /\ Ended(states[j], states[j].failures, t, v) \in State
<1> DEFINE r == Ended(states[j], states[j].failures, t, states[j].under)
           s == Ended(states[j], states[j].failures, t, v)
<1>1. states[j] \in State /\ states \in [Job -> State]
    BY DEF TypeOK
<1>2. r \in State /\ s \in State
    BY <1>1 DEF State, Ended
<1>3. [states[j] EXCEPT !.next = t] = r
    BY <1>1 DEF State, Ended
<1>4. [r EXCEPT !.under = v] = s
    BY DEF Ended
<1>5. [states EXCEPT ![j].next = t] = [states EXCEPT ![j] = r]
    BY <1>1, <1>3
<1>6. [[states EXCEPT ![j] = r] EXCEPT ![j].under = v] = [states EXCEPT ![j] = s]
    BY <1>1, <1>2, <1>4
<1>7. [states EXCEPT ![j].next = t, ![j].under = v] = [[states EXCEPT ![j].next = t] EXCEPT ![j].under = v]
    OBVIOUS
<1> QED
    BY <1>2, <1>5, <1>6, <1>7

LEMMA ThreeFields ==
  ASSUME TypeOK, NEW j \in Job, NEW f \in Nat, NEW t \in Nat, NEW v \in Nat,
         states' = [states EXCEPT ![j].failures = f, ![j].next = t, ![j].under = v]
  PROVE  /\ states' = [states EXCEPT ![j] = Ended(states[j], f, t, v)]
         /\ Ended(states[j], f, t, v) \in State
<1> DEFINE q == Ended(states[j], f, states[j].next, states[j].under)
           r == Ended(states[j], f, t, states[j].under)
           s == Ended(states[j], f, t, v)
<1>1. states[j] \in State /\ states \in [Job -> State]
    BY DEF TypeOK
<1>2. q \in State /\ r \in State /\ s \in State
    BY <1>1 DEF State, Ended
<1>3. [states[j] EXCEPT !.failures = f] = q
    BY <1>1 DEF State, Ended
<1>4. [q EXCEPT !.next = t] = r /\ [r EXCEPT !.under = v] = s
    BY DEF Ended
<1>5. [states EXCEPT ![j].failures = f] = [states EXCEPT ![j] = q]
    BY <1>1, <1>3
<1>6. [[states EXCEPT ![j] = q] EXCEPT ![j].next = t] = [states EXCEPT ![j] = r]
    BY <1>1, <1>2, <1>4
<1>7. [[states EXCEPT ![j] = r] EXCEPT ![j].under = v] = [states EXCEPT ![j] = s]
    BY <1>1, <1>2, <1>4
<1>8. [states EXCEPT ![j].failures = f, ![j].next = t, ![j].under = v]
        = [[[states EXCEPT ![j].failures = f] EXCEPT ![j].next = t] EXCEPT ![j].under = v]
    OBVIOUS
<1> QED
    BY <1>2, <1>5, <1>6, <1>7, <1>8

\* A postponed job is next run after its interval.
LEMMA PostponeFacts ==
  ASSUME TypeOK, Timely, NEW j \in Job, Postpone(j)
  PROVE  \E s \in State : /\ states' = [states EXCEPT ![j] = s]
                          /\ s.enabled = states[j].enabled /\ s.hash = states[j].hash
                          /\ s.attempt = states[j].attempt /\ s.failures = states[j].failures
                          /\ s.next > now /\ s.next <= Latest(s.under)
                          /\ s.under = interval[j] /\ s.next <= created[j] + Span(interval[j])
<1>1. PICK d \in Jitter(interval[j]) :
          states' = [states EXCEPT ![j].next = created[j] + interval[j] + d,
                                   ![j].under = interval[j]]
    BY DEF Postpone
<1>2. interval[j] \in Nat
    BY Running DEF Postpone
<1>3. d \in Nat /\ interval[j] + d <= Span(interval[j]) /\ Span(interval[j]) \in Nat
    BY <1>1, <1>2, SpanCovers, SpanType
<1>4. /\ created[j] \in Nat /\ now \in Nat /\ created[j] <= now
      /\ created[j] + interval[j] > now
    BY DEF Postpone, Fresh, TypeOK, Timely
<1>5. PICK t \in Nat : /\ t = created[j] + interval[j] + d /\ t > now
                       /\ t <= now + Span(interval[j]) /\ t <= created[j] + Span(interval[j])
    BY <1>2, <1>3, <1>4
<1>6. states' = [states EXCEPT ![j].next = t, ![j].under = interval[j]]
    BY <1>1, <1>5
<1> DEFINE s == Ended(states[j], states[j].failures, t, interval[j])
<1>7. states' = [states EXCEPT ![j] = s] /\ s \in State
    BY <1>2, <1>6, TwoFields
<1>8. /\ s.enabled = states[j].enabled /\ s.hash = states[j].hash
      /\ s.attempt = states[j].attempt /\ s.failures = states[j].failures
      /\ s.next = t /\ s.under = interval[j]
    BY DEF Ended
<1> HIDE DEF s
<1> QED
    BY <1>5, <1>7, <1>8 DEF Latest

\* An attempt notes its time.
LEMMA AttemptFacts ==
  ASSUME TypeOK, NEW j \in Job, Attempt(j)
  PROVE  \E s \in State : /\ states' = [states EXCEPT ![j] = s]
                          /\ s.enabled = states[j].enabled /\ s.hash = states[j].hash
                          /\ s.attempt = now /\ s.failures = states[j].failures
                          /\ s.next = states[j].next /\ s.under = states[j].under
<1> DEFINE s == [states[j] EXCEPT !.attempt = now]
<1>1. states[j] \in State /\ now \in Nat
    BY DEF TypeOK
<1>2. s = [enabled |-> states[j].enabled, hash |-> states[j].hash, attempt |-> now,
           next |-> states[j].next, failures |-> states[j].failures, under |-> states[j].under]
    BY <1>1 DEF State
<1>3. s \in State
    BY <1>1, <1>2 DEF State
<1>4. states' = [states EXCEPT ![j] = s]
    BY DEF Attempt, TypeOK
<1> QED
    BY <1>2, <1>3, <1>4

\* After an attempt a job is next run later, and after a failure the file may remember that.
LEMMA EndFacts ==
  ASSUME TypeOK, Timely, NEW j \in Job, running = j, Succeed \/ FailAttempt
  PROVE  \E s \in State : /\ states' = [states EXCEPT ![j] = s]
                          /\ s.enabled = states[j].enabled /\ s.hash = states[j].hash
                          /\ s.attempt = states[j].attempt
                          /\ s.next > now /\ s.next <= Latest(s.under)
                          /\ s.under = interval[j]
                          /\ s.failures = 0 => created'[j] = now
                          /\ \/ backoff' = backoff
                             \/ backoff' = [backoff EXCEPT ![j] = 0]
                             \/ /\ file' = states' /\ s.failures > 0
                                /\ \E t \in Nat : t <= s.next /\ backoff' = [backoff EXCEPT ![j] = t]
<1>1. states[j] \in State /\ now \in Nat
    BY DEF TypeOK
<1>2. interval[j] \in Nat /\ interval[j] >= 2
    BY Running DEF Succeed, FailAttempt
<1>3. CASE Succeed
    <2>1. PICK d \in Jitter(interval[j]) :
              states' = [states EXCEPT ![j].failures = 0, ![j].next = now + interval[j] + d,
                                       ![j].under = interval[j]]
        BY <1>3 DEF Succeed
    <2>2. d \in Nat /\ interval[j] + d <= Span(interval[j]) /\ Span(interval[j]) \in Nat
        BY <1>2, <2>1, SpanCovers, SpanType
    <2>3. PICK t \in Nat : t = now + interval[j] + d /\ t > now /\ t <= now + Span(interval[j])
        BY <1>1, <1>2, <2>2
    <2>4. states' = [states EXCEPT ![j].failures = 0, ![j].next = t, ![j].under = interval[j]]
        BY <2>1, <2>3
    <2>5. backoff' = backoff \/ backoff' = [backoff EXCEPT ![j] = 0]
        BY <1>3 DEF Succeed
    <2>6. /\ states' = [states EXCEPT ![j] = Ended(states[j], 0, t, interval[j])]
          /\ Ended(states[j], 0, t, interval[j]) \in State
        BY <1>2, <2>4, ThreeFields
    <2>7. created'[j] = now
        BY <1>3 DEF Succeed, TypeOK
    <2> QED
        BY <2>3, <2>5, <2>6, <2>7 DEF Ended, Latest
<1>4. CASE FailAttempt
    <2>1. PICK n \in Nat : n = states[j].failures + 1 /\ n > 0
        BY <1>1 DEF State
    <2>2. PICK delay \in Nat : /\ delay = RetryDelay(interval[j], n)
                               /\ delay >= 1 /\ delay <= interval[j] \div 2
        <3> DEFINE v == interval[j]
        <3>1. v \in Nat /\ v >= 2
            BY <1>2
        <3> HIDE DEF v
        <3>2. RetryDelay(v, n) \in Nat \ {0} /\ RetryDelay(v, n) <= CapDelay(v)
            BY <3>1, DelayBounds
        <3>3. CapDelay(v) \in Nat /\ CapDelay(v) <= v \div 2
            BY <3>1, CapType
        <3>4. v \div 2 \in Nat
            BY <3>1
        <3>5. RetryDelay(v, n) >= 1 /\ RetryDelay(v, n) <= v \div 2
            BY <3>2, <3>3, <3>4
        <3> QED
            BY <3>2, <3>5 DEF v
    <2>3. PICK d \in Jitter(delay) :
              states' = [states EXCEPT ![j].failures = n, ![j].next = now + (delay + d),
                                       ![j].under = interval[j]]
        BY <1>4, <2>1, <2>2 DEF FailAttempt, RetryAt
    <2>4. (file' = states' /\ backoff' = [backoff EXCEPT ![j] = now + delay]) \/ backoff' = backoff
        BY <1>4, <2>1, <2>2 DEF FailAttempt, Saved
    <2>5. d \in Nat /\ d <= delay \div 10
        BY <2>2, <2>3, JitterBounds
    <2>6. Span(interval[j]) \in Nat /\ delay + d <= Span(interval[j])
        BY <1>2, <2>2, <2>5, SpanType
    <2>7. PICK t \in Nat, u \in Nat : /\ t = now + (delay + d) /\ u = now + delay
                                      /\ t > now /\ t <= now + Span(interval[j]) /\ u <= t
        BY <1>1, <2>2, <2>5, <2>6
    <2>8. states' = [states EXCEPT ![j].failures = n, ![j].next = t, ![j].under = interval[j]]
        BY <2>3, <2>7
    <2>9. (file' = states' /\ backoff' = [backoff EXCEPT ![j] = u]) \/ backoff' = backoff
        BY <2>4, <2>7
    <2> DEFINE s == Ended(states[j], n, t, interval[j])
    <2>10. states' = [states EXCEPT ![j] = s] /\ s \in State
        BY <1>2, <2>8, ThreeFields
    <2>11. /\ s.enabled = states[j].enabled /\ s.hash = states[j].hash
           /\ s.attempt = states[j].attempt /\ s.failures = n
           /\ s.next = t /\ s.under = interval[j]
        BY DEF Ended
    <2> HIDE DEF s
    <2>12. /\ s.next > now /\ s.next <= Latest(s.under)
           /\ s.failures > 0 /\ s.failures # 0 /\ u <= s.next
        BY <2>1, <2>7, <2>11 DEF Latest
    <2>13. \/ backoff' = backoff
           \/ /\ file' = states'
              /\ \E when \in Nat : when <= s.next /\ backoff' = [backoff EXCEPT ![j] = when]
        BY <2>9, <2>12
    <2> QED
        BY <2>10, <2>11, <2>12, <2>13
<1> QED
    BY <1>3, <1>4

\* A step of the goroutine changes the state of one job and leaves its times in their bounds.
LEMMA StepFacts ==
  ASSUME TypeOK, Timely, NEW j \in Job, StepOf(j)
  PROVE  /\ \E s \in State : /\ states' = [states EXCEPT ![j] = s]
                             /\ s.enabled = states[j].enabled /\ s.hash = states[j].hash
                             /\ s.attempt <= now /\ s.next <= Latest(s.under)
         /\ file' = states' \/ file' = file
         /\ now' = now /\ phase # "down"
<1>1. states[j] \in State /\ states[j].attempt <= now /\ states[j].next <= Latest(states[j].under) /\ now \in Nat
    BY DEF TypeOK, Timely
<1>2. CASE Postpone(j)
    BY <1>1, <1>2, PostponeFacts DEF Postpone, Persist, Saved, NotSaved
<1>3. CASE Attempt(j)
    <2>1. \E s \in State : /\ states' = [states EXCEPT ![j] = s]
                           /\ s.enabled = states[j].enabled /\ s.hash = states[j].hash
                           /\ s.attempt = now /\ s.next = states[j].next /\ s.under = states[j].under
        BY <1>3, AttemptFacts
    <2>2. (file' = states' \/ file' = file) /\ now' = now /\ phase # "down"
        BY <1>3 DEF Attempt, Persist, Saved, NotSaved
    <2>3. PICK s \in State : /\ states' = [states EXCEPT ![j] = s]
                            /\ s.enabled = states[j].enabled /\ s.hash = states[j].hash
                            /\ s.attempt = now /\ s.next = states[j].next /\ s.under = states[j].under
        BY <2>1
    <2>4. s.attempt <= now /\ s.next <= Latest(s.under)
        BY <1>1, <2>3
    <2> QED
        BY <2>2, <2>3, <2>4
<1>4. CASE running = j /\ (Succeed \/ FailAttempt)
    <2>1. file' = states' \/ file' = file
        BY <1>4 DEF Succeed, FailAttempt, Saved, NotSaved
    <2>2. now' = now /\ phase # "down"
        BY <1>4 DEF Succeed, FailAttempt
    <2> QED
        BY <1>1, <1>4, <2>1, <2>2, EndFacts
<1> QED
    BY <1>2, <1>3, <1>4 DEF StepOf

\* What a start makes of the file.
LEMMA StartFacts ==
  ASSUME TypeOK, Timely, NEW on \in [Job -> BOOLEAN], NEW int \in [Job -> UNION {Intervals[j] : j \in Job}],
         NEW hash \in [Job -> Hash], NEW jitter, Start(on, int, hash, jitter), NEW j \in Job
  PROVE  /\ states'[j] \in State
         /\ states'[j].attempt <= now /\ states'[j].next <= Latest(states'[j].under)
         /\ on[j] /\ file[j].hash = hash[j] /\ file[j].failures > 0 /\ file[j].next # 0 =>
                states'[j].failures = file[j].failures /\ states'[j].next >= file[j].next
         /\ states'[j].failures = 0 =>
                /\ states'[j].under = int[j]
                /\ Fresh(j, int[j]) => states'[j].next <= created[j] + Span(int[j])
<1> DEFINE old == Old(j, hash[j])
           v   == int[j]
           t   == NextRun(j, on[j], v, old, jitter[j])
           u   == IF old.failures > 0 /\ t = old.next THEN old.under ELSE v
<1>1. now \in Nat /\ file[j] \in State /\ file[j].attempt <= now /\ file[j].next <= Latest(file[j].under)
      /\ created[j] \in Nat /\ created[j] <= now
    BY DEF TypeOK, Timely
<1>2. v \in Nat /\ v >= 2 /\ Span(v) \in Nat /\ Span(v) >= v /\ v \div 2 \in Nat /\ v \div 2 <= v
    BY IntervalType, SpanType DEF Start
<1>3. /\ old \in State /\ old.attempt <= now /\ old.next <= Latest(old.under)
      /\ old.failures \in Nat /\ old.next \in Nat /\ old.attempt \in Nat /\ old.under \in Nat
      /\ file[j].hash = hash[j] => old = file[j]
    <2>1. NewState \in State /\ NewState.attempt = 0 /\ NewState.next = 0 /\ NewState.under = 0
        BY DEF NewState, State
    <2>2. Latest(0) \in Nat
        BY <1>1, LatestType
    <2> QED
        BY <1>1, <2>1, <2>2 DEF Old, State
<1>4. states'[j] = Restored(j, on[j], v, hash[j], jitter[j])
    BY DEF Start
<1>5. jitter[j] \in Nat /\ v + jitter[j] <= Span(v)
    BY <1>2, SpanCovers DEF Start
<1> HIDE DEF old, v
<1>6. on[j] \in BOOLEAN /\ hash[j] \in Hash
    OBVIOUS
<1>7. /\ t \in Nat
      /\ t <= now + Span(v) \/ (old.failures > 0 /\ t = old.next)
      /\ on[j] /\ old.failures > 0 /\ old.next # 0 => t >= old.next
      /\ old.failures = 0 /\ Fresh(j, v) => t <= created[j] + Span(v)
    <2> DEFINE due   == IF Fresh(j, v) THEN created[j] + v ELSE now
               delay == RetryDelay(v, old.failures)
               retry == IF old.next # 0 THEN old.next ELSE old.attempt + delay
    <2>1. /\ due + jitter[j] \in Nat /\ due + jitter[j] <= now + Span(v)
          /\ Fresh(j, v) => due + jitter[j] <= created[j] + Span(v)
        BY <1>1, <1>2, <1>5
    <2>2. delay \in Nat /\ delay <= v
        <3>1. delay \in Nat /\ delay <= CapDelay(v) /\ CapDelay(v) \in Nat /\ CapDelay(v) <= v \div 2
            BY <1>2, <1>3, DelayBounds, CapType
        <3> HIDE DEF delay
        <3> QED
            BY <1>2, <3>1
    <2> HIDE DEF delay
    <2>3. retry \in Nat /\ (retry <= now + Span(v) \/ retry = old.next)
        BY <1>1, <1>2, <1>3, <2>2
    <2>4. t = IF ~on[j] THEN 0 ELSE IF old.failures > 0 THEN Later(due + jitter[j], retry) ELSE due + jitter[j]
        BY DEF NextRun, delay
    <2>5. old.next # 0 => retry = old.next
        OBVIOUS
    <2> HIDE DEF due, retry, t
    <2>6. now + Span(v) \in Nat /\ created[j] + Span(v) \in Nat
        BY <1>1, <1>2
    <2> QED
        BY <1>3, <2>1, <2>3, <2>4, <2>5, <2>6 DEF Later
<1>8. states'[j] = [enabled |-> on[j], hash |-> hash[j], attempt |-> old.attempt, next |-> t,
                    failures |-> old.failures, under |-> u]
    <2>1. states'[j] = [old EXCEPT !.enabled = on[j], !.hash = hash[j], !.next = t, !.under = u]
        BY <1>4 DEF Restored, old
    <2> HIDE DEF t, u
    <2>2. old = [enabled |-> old.enabled, hash |-> old.hash, attempt |-> old.attempt, next |-> old.next,
                 failures |-> old.failures, under |-> old.under]
        BY <1>3 DEF State
    <2> QED
        BY <2>1, <2>2
<1> HIDE DEF t
<1>9. u \in Nat /\ t <= Latest(u) /\ (old.failures = 0 => u = v)
    BY <1>1, <1>2, <1>3, <1>7 DEF Latest
<1> HIDE DEF u
<1>10. states'[j] \in State
    BY <1>3, <1>6, <1>7, <1>8, <1>9 DEF State
<1> QED
    BY <1>3, <1>7, <1>8, <1>9, <1>10 DEF v

\* A start leaves types and times as they should be.
LEMMA StartType ==
  ASSUME TypeOK, Timely, NEW on \in [Job -> BOOLEAN], NEW int \in [Job -> UNION {Intervals[j] : j \in Job}],
         NEW hash \in [Job -> Hash], NEW jitter, Start(on, int, hash, jitter)
  PROVE  states' \in [Job -> State] /\ (file' = states' \/ file' = file)
<1>1. \A j \in Job : states'[j] \in State
    BY StartFacts
<1>2. states' = [j \in Job |-> Restored(j, on[j], int[j], hash[j], jitter[j])]
    BY DEF Start
<1>3. states' = [j \in Job |-> states'[j]]
    BY <1>2
<1>4. states' \in [Job -> State]
    BY <1>1, <1>3
<1> QED
    BY <1>4 DEF Start, Persist, Saved, NotSaved

LEMMA TypeInit == Init => TypeOK /\ Timely
<1> SUFFICES ASSUME Init PROVE TypeOK /\ Timely
    OBVIOUS
<1>1. TypeOK
    <2>1. states \in [Job -> State] /\ file \in [Job -> State]
        BY NoStatesType DEF Init
    <2>2. created \in [Job -> Nat] /\ backoff \in [Job -> Nat] /\ overtaken \in [Job -> Nat]
        BY DEF Init
    <2>3. now \in Nat \ {0} /\ phase = "down" /\ running = 0
        BY DEF Init
    <2>4. stopping \in BOOLEAN
        BY Zenon DEF Init
    <2>5. interval = NoIntervals
        BY DEF Init
    <2> QED
        BY <2>1, <2>2, <2>3, <2>4, <2>5 DEF TypeOK
<1>2. Timely
    <2>1. Latest(0) \in Nat
        BY LatestType DEF Init
    <2> QED
        BY <2>1 DEF Init, Timely, NoStates, NewState
<1> QED
    BY <1>1, <1>2

LEMMA TypeStep ==
  ASSUME TypeOK, Timely, [Next]_vars
  PROVE  TypeOK'
<1>1. ASSUME NEW j \in Job, StepOf(j) PROVE TypeOK'
    <2>1. states' \in [Job -> State] /\ file' \in [Job -> State] /\ now' = now
        BY <1>1, StepFacts DEF TypeOK
    <2>2. CASE Postpone(j)
        BY <2>1, <2>2 DEF Postpone, TypeOK
    <2>3. CASE Attempt(j)
        BY <2>1, <2>3 DEF Attempt, TypeOK
    <2>4. CASE running = j /\ (Succeed \/ FailAttempt)
        <3>1. backoff' \in [Job -> Nat]
            BY <2>4, EndFacts DEF TypeOK
        <3>2. CASE Succeed
            BY <2>1, <3>1, <3>2 DEF Succeed, TypeOK
        <3>3. CASE FailAttempt
            BY <2>1, <3>1, <3>3 DEF FailAttempt, TypeOK
        <3> QED
            BY <2>4, <3>2, <3>3
    <2> QED
        BY <1>1, <2>2, <2>3, <2>4 DEF StepOf
<1>2. CASE Succeed \/ FailAttempt
    BY <1>1, <1>2 DEF StepOf, TypeOK, Succeed, FailAttempt
<1>3. CASE LoseFile
    BY <1>3, NoStatesType DEF LoseFile, TypeOK
<1>4. CASE Stop
    BY <1>4 DEF Stop, TypeOK
<1>5. CASE Exit \/ Crash
    <2>1. states' \in [Job -> State]
        BY <1>5, NoStatesType DEF Exit, Crash, Down
    <2>2. overtaken' \in [Job -> Nat]
        BY <1>5 DEF Exit, Crash, Down
    <2> QED
        BY <1>5, <2>1, <2>2 DEF Exit, Crash, Down, TypeOK
<1>6. ASSUME NEW on \in [Job -> BOOLEAN], NEW int \in [Job -> UNION {Intervals[j] : j \in Job}],
             NEW hash \in [Job -> Hash], NEW jitter, Start(on, int, hash, jitter)
      PROVE  TypeOK'
    <2>1. states' \in [Job -> State] /\ file' \in [Job -> State]
        BY <1>6, StartType DEF TypeOK
    <2>2. int \in [Job -> Nat] /\ \A j \in Job : int[j] \in Intervals[j]
        BY <1>6, IntervalType DEF Start
    <2> QED
        BY <1>6, <2>1, <2>2 DEF Start, TypeOK
<1>7. ASSUME NEW j \in Job, CacheSet(j) \/ CacheGone(j) PROVE TypeOK'
    BY <1>7 DEF CacheSet, CacheGone, TypeOK
<1>8. ASSUME NEW d \in Steps, Tick(d) PROVE TypeOK'
    BY <1>8, BoundAssumption DEF Tick, TypeOK
<1>9. CASE UNCHANGED vars
    BY <1>9 DEF vars, TypeOK
<1> QED
    BY <1>1, <1>2, <1>3, <1>4, <1>5, <1>6, <1>7, <1>8, <1>9 DEF Next, StepOf

LEMMA TimelyStep ==
  ASSUME TypeOK, Timely, [Next]_vars
  PROVE  Timely'
<1> USE DEF Timely
<1> TAKE i \in Job
<1> DEFINE Bounds == /\ created'[i] <= now'
                     /\ states'[i].attempt <= now' /\ file'[i].attempt <= now'
                     /\ states'[i].next <= now' + Span(states'[i].under)
                     /\ file'[i].next <= now' + Span(file'[i].under)
<1> SUFFICES Bounds
    BY DEF Latest
<1>0. /\ now \in Nat /\ created[i] \in Nat /\ states[i] \in State /\ file[i] \in State
      /\ created[i] <= now /\ states[i].attempt <= now /\ file[i].attempt <= now
      /\ states[i].next <= now + Span(states[i].under) /\ file[i].next <= now + Span(file[i].under)
      /\ NoStates[i].attempt = 0 /\ NoStates[i].next = 0 /\ NoStates[i].under = 0
    BY DEF TypeOK, Timely, NoStates, NewState, Latest
<1>1. /\ states[i].under \in Nat /\ file[i].under \in Nat /\ Span(0) \in Nat
      /\ Span(states[i].under) \in Nat /\ Span(file[i].under) \in Nat
    BY <1>0, SpanType DEF State
<1>2. ASSUME NEW j \in Job, StepOf(j) PROVE Bounds
    <2>1. created'[i] <= now
        <3>1. CASE Postpone(j) \/ Attempt(j)
            BY <1>0, <3>1 DEF Postpone, Attempt
        <3>2. CASE Succeed
            BY <1>0, <3>2 DEF Succeed, TypeOK
        <3>3. CASE FailAttempt
            BY <1>0, <3>3 DEF FailAttempt
        <3> QED
            BY <1>2, <3>1, <3>2, <3>3 DEF StepOf
    <2>2. PICK s \in State : /\ states' = [states EXCEPT ![j] = s]
                             /\ s.attempt <= now /\ s.next <= now + Span(s.under)
        BY <1>2, StepFacts DEF Latest
    <2>3. states'[i].attempt <= now /\ states'[i].next <= now + Span(states'[i].under)
        BY <1>0, <2>2 DEF TypeOK
    <2> QED
        BY <1>0, <1>1, <1>2, <2>1, <2>3, StepFacts
<1>3. CASE Succeed \/ FailAttempt
    BY <1>2, <1>3 DEF StepOf, TypeOK, Succeed, FailAttempt
<1>4. CASE LoseFile
    BY <1>0, <1>1, <1>4 DEF LoseFile
<1>5. CASE Stop \/ UNCHANGED vars
    BY <1>0, <1>1, <1>5 DEF Stop, vars
<1>6. CASE Exit \/ Crash
    BY <1>0, <1>1, <1>6 DEF Exit, Crash, Down
<1>7. ASSUME NEW on \in [Job -> BOOLEAN], NEW int \in [Job -> UNION {Intervals[j] : j \in Job}],
             NEW hash \in [Job -> Hash], NEW jitter, Start(on, int, hash, jitter)
      PROVE  Bounds
    <2>1. states'[i].attempt <= now /\ states'[i].next <= now + Span(states'[i].under)
        BY <1>7, StartFacts DEF Latest
    <2> QED
        BY <1>0, <1>1, <1>7, <2>1, StartType DEF Start
<1>8. ASSUME NEW j \in Job, CacheSet(j) \/ CacheGone(j) PROVE Bounds
    <2>1. created'[i] \in {0, now, created[i]}
        BY <1>8 DEF CacheSet, CacheGone, TypeOK
    <2> QED
        BY <1>0, <1>1, <1>8, <2>1 DEF CacheSet, CacheGone
<1>9. ASSUME NEW d \in Steps, Tick(d) PROVE Bounds
    <2>1. d \in Nat /\ now' = now + d /\ UNCHANGED <<states, file, created>>
        BY <1>9, BoundAssumption DEF Tick
    <2> QED
        BY <1>0, <1>1, <2>1 DEF State
<1> QED
    BY <1>2, <1>3, <1>4, <1>5, <1>6, <1>7, <1>8, <1>9 DEF Next, StepOf

\* A job that has not failed since its last success is planned by its present interval,
\* and no later after a result that is still fresh than interval and jitter.
Prompt ==
    \A j \in Job :
        states[j].failures = 0 =>
            /\ states[j].under = interval[j]
            /\ Fresh(j, interval[j]) => states[j].next <= created[j] + Span(interval[j])

LEMMA PromptStep ==
  ASSUME TypeOK, Timely, Prompt, [Next]_vars
  PROVE  Prompt'
<1> USE DEF Prompt
<1> TAKE i \in Job
<1> DEFINE Planned == states'[i].failures = 0 =>
                          /\ states'[i].under = interval'[i]
                          /\ Fresh(i, interval[i])' => states'[i].next <= created'[i] + Span(interval'[i])
<1> SUFFICES Planned
    OBVIOUS
<1>0. /\ now \in Nat /\ created[i] \in Nat /\ states[i] \in State /\ created[i] <= now
      /\ states[i].next <= now + Span(states[i].under) /\ states[i].under \in Nat
      /\ states[i].failures = 0 =>
             /\ states[i].under = interval[i]
             /\ Fresh(i, interval[i]) => states[i].next <= created[i] + Span(interval[i])
    BY DEF TypeOK, Timely, Latest, State
<1>1. CASE UNCHANGED <<states, interval, created, now>>
    BY <1>0, <1>1 DEF Fresh
<1>2. ASSUME NEW j \in Job, StepOf(j) PROVE Planned
    <2>1. UNCHANGED <<interval, now>> /\ interval[i] \in Nat
        BY <1>2, Running DEF StepOf, Postpone, Attempt, Succeed, FailAttempt
    <2>2. CASE i # j
        <3>1. states'[i] = states[i]
            BY <1>2, <2>2, StepFacts DEF TypeOK
        <3>2. created'[i] = created[i]
            BY <1>2, <2>2 DEF StepOf, Postpone, Attempt, Succeed, FailAttempt, TypeOK
        <3> QED
            BY <1>0, <2>1, <3>1, <3>2 DEF Fresh
    <2>3. CASE i = j /\ Postpone(j)
        <3>1. PICK s \in State : /\ states' = [states EXCEPT ![j] = s]
                                 /\ s.under = interval[j] /\ s.next <= created[j] + Span(interval[j])
            BY <2>3, PostponeFacts
        <3>2. states'[i] = s /\ created' = created
            BY <2>3, <3>1 DEF Postpone, TypeOK
        <3> QED
            BY <2>1, <2>3, <3>1, <3>2
    <2>4. CASE i = j /\ Attempt(j)
        <3>1. PICK s \in State : /\ states' = [states EXCEPT ![j] = s]
                                 /\ s.failures = states[j].failures
                                 /\ s.next = states[j].next /\ s.under = states[j].under
            BY <2>4, AttemptFacts
        <3>2. states'[i] = s /\ created' = created
            BY <2>4, <3>1 DEF Attempt, TypeOK
        <3> QED
            BY <1>0, <2>1, <2>4, <3>1, <3>2 DEF Fresh
    <2>5. CASE i = j /\ running = j /\ (Succeed \/ FailAttempt)
        <3>1. PICK s \in State : /\ states' = [states EXCEPT ![j] = s]
                                 /\ s.under = interval[j] /\ s.next <= now + Span(interval[j])
                                 /\ s.failures = 0 => created'[j] = now
            BY <2>5, EndFacts DEF Latest
        <3>2. states'[i] = s
            BY <2>5, <3>1 DEF TypeOK
        <3> QED
            BY <2>1, <2>5, <3>1, <3>2
    <2> QED
        BY <1>2, <2>2, <2>3, <2>4, <2>5 DEF StepOf
<1>3. CASE Succeed \/ FailAttempt
    BY <1>2, <1>3 DEF StepOf, TypeOK, Succeed, FailAttempt
<1>4. CASE Exit \/ Crash
    <2>1. states'[i] = NewState /\ interval'[i] = 0 /\ created'[i] = created[i] /\ now' = now
        BY <1>4 DEF Exit, Crash, Down, NoStates, NoIntervals
    <2>2. ~Fresh(i, interval[i])'
        BY <1>0, <2>1 DEF Fresh
    <2> QED
        BY <2>1, <2>2 DEF NewState
<1>5. ASSUME NEW on \in [Job -> BOOLEAN], NEW int \in [Job -> UNION {Intervals[j] : j \in Job}],
             NEW hash \in [Job -> Hash], NEW jitter, Start(on, int, hash, jitter)
      PROVE  Planned
    <2>1. interval' = int /\ UNCHANGED <<now, created>>
        BY <1>5 DEF Start
    <2>2. states'[i].failures = 0 =>
              /\ states'[i].under = int[i]
              /\ Fresh(i, int[i]) => states'[i].next <= created[i] + Span(int[i])
        BY <1>5, StartFacts
    <2> QED
        BY <2>1, <2>2 DEF Fresh
<1>6. ASSUME NEW j \in Job, CacheSet(j) \/ CacheGone(j) PROVE Planned
    <2>1. UNCHANGED <<states, interval, now>> /\ created'[i] \in {0, now, created[i]}
        BY <1>6 DEF CacheSet, CacheGone, TypeOK
    <2>2. CASE created'[i] = 0
        BY <1>0, <2>1, <2>2 DEF Fresh
    <2>3. CASE created'[i] = now
        BY <1>0, <2>1, <2>3
    <2>4. CASE created'[i] = created[i]
        BY <1>0, <2>1, <2>4 DEF Fresh
    <2> QED
        BY <2>1, <2>2, <2>3, <2>4
<1>7. ASSUME NEW d \in Steps, Tick(d) PROVE Planned
    <2>1. d \in Nat /\ now' = now + d /\ UNCHANGED <<states, interval, created>>
        BY <1>7, BoundAssumption DEF Tick
    <2>2. interval[i] \in Nat
        BY IntervalType DEF TypeOK, NoIntervals
    <2>3. Fresh(i, interval[i])' => Fresh(i, interval[i])
        BY <1>0, <2>1, <2>2 DEF Fresh
    <2> QED
        BY <1>0, <2>1, <2>3
<1>8. CASE LoseFile \/ Stop \/ UNCHANGED vars
    BY <1>1, <1>8 DEF LoseFile, Stop, vars
<1> QED
    BY <1>2, <1>3, <1>4, <1>5, <1>6, <1>7, <1>8 DEF Next, StepOf

\* A job that has not failed runs again within interval and jitter of its result, whatever its
\* interval was before a restart, so before a result that is kept longer expires.  A job that
\* has failed is put off by no more than the interval its delay was computed for.
THEOREM NeverTooLate == Spec => []RunsWithinInterval
<1>1. TypeOK /\ Timely /\ Prompt /\ [Next]_vars => (TypeOK /\ Timely /\ Prompt)'
    BY TypeStep, TimelyStep, PromptStep
<1>2. Timely /\ Prompt => RunsWithinInterval
    BY DEF Timely, Prompt, RunsWithinInterval, Latest
<1>3. Init => Prompt
    BY DEF Init, Prompt, NoStates, NewState, NoIntervals, Fresh
<1> QED
    BY <1>1, <1>2, <1>3, TypeInit, PTL DEF Spec

-----------------------------------------------------------------------------
(* Delays after failures.                                                    *)

\* State s of job j remembers a delay that is not over.
Remembers(s, j) == backoff[j] <= now \/ (s.failures > 0 /\ backoff[j] <= s.next)

\* The file does, and a running process; who is running has no delay left.
Delayed ==
    \A j \in Job : /\ Remembers(file[j], j)
                   /\ phase # "down" => Remembers(states[j], j)
                   /\ running = j => backoff[j] <= now

\* A job that is due has no delay left.
LEMMA DueIsFree ==
  ASSUME TypeOK, Delayed, phase # "down", NEW j \in Job, Due(j)
  PROVE  backoff[j] <= now
<1>1. states[j] \in State /\ backoff[j] \in Nat /\ now \in Nat
    BY DEF TypeOK
<1> QED
    BY <1>1 DEF Delayed, Remembers, Due, State

LEMMA DelayedStep ==
  ASSUME TypeOK, Timely, Delayed, [Next]_vars
  PROVE  Delayed'
<1> USE DEF Delayed
<1> TAKE i \in Job
<1> DEFINE Keeps == /\ Remembers(file[i], i)'
                    /\ phase' # "down" => Remembers(states[i], i)'
                    /\ running' = i => backoff'[i] <= now'
<1> SUFFICES Keeps
    OBVIOUS
<1>0. /\ now \in Nat \ {0} /\ backoff[i] \in Nat /\ states[i] \in State /\ file[i] \in State
      /\ i # 0
    BY JobFacts DEF TypeOK
<1>1. ASSUME NEW j \in Job, StepOf(j) PROVE Keeps
    <2>1. /\ phase # "down" /\ now' = now
          /\ file' = states' \/ file' = file
          /\ \A k \in Job \ {j} : states'[k] = states[k]
        <3>1. PICK s \in State : states' = [states EXCEPT ![j] = s]
            BY <1>1, StepFacts
        <3>2. \A k \in Job \ {j} : states'[k] = states[k]
            BY <3>1 DEF TypeOK
        <3> QED
            BY <1>1, <3>2, StepFacts
    <2>2. backoff[j] <= now /\ (running' = i => i = j)
        <3>1. CASE Postpone(j) \/ Attempt(j)
            BY <1>0, <2>1, <3>1, DueIsFree DEF Postpone, Attempt, Selected, TypeOK
        <3>2. CASE running = j /\ (Succeed \/ FailAttempt)
            BY <1>0, <3>2 DEF Succeed, FailAttempt
        <3> QED
            BY <1>1, <3>1, <3>2 DEF StepOf
    <2>3. CASE i # j
        <3>1. backoff'[i] = backoff[i]
            <4>1. CASE Postpone(j) \/ Attempt(j)
                BY <4>1 DEF Postpone, Attempt
            <4>2. CASE running = j /\ (Succeed \/ FailAttempt)
                BY <2>3, <4>2, EndFacts DEF TypeOK
            <4> QED
                BY <1>1, <4>1, <4>2 DEF StepOf
        <3> QED
            BY <2>1, <2>2, <2>3, <3>1 DEF Remembers
    <2>4. CASE i = j
        <3>1. CASE Postpone(j) \/ Attempt(j)
            BY <2>1, <2>2, <2>4, <3>1 DEF Remembers, Postpone, Attempt
        <3>2. CASE running = j /\ (Succeed \/ FailAttempt)
            <4>1. PICK s \in State : /\ states' = [states EXCEPT ![j] = s]
                                    /\ \/ backoff' = backoff
                                       \/ backoff' = [backoff EXCEPT ![j] = 0]
                                       \/ /\ file' = states' /\ s.failures > 0
                                          /\ \E t \in Nat : t <= s.next /\ backoff' = [backoff EXCEPT ![j] = t]
                BY <3>2, EndFacts
            <4>2. states'[i] = s /\ running' # i
                BY <1>0, <2>4, <3>2, <4>1 DEF TypeOK, Succeed, FailAttempt
            <4>3. CASE backoff'[i] <= now
                BY <2>1, <4>2, <4>3 DEF Remembers
            <4>4. CASE file' = states' /\ s.failures > 0 /\ backoff'[i] <= s.next
                BY <4>2, <4>4 DEF Remembers
            <4> QED
                BY <1>0, <2>2, <2>4, <4>1, <4>3, <4>4 DEF TypeOK
        <3> QED
            BY <1>1, <3>1, <3>2 DEF StepOf
    <2> QED
        BY <2>3, <2>4
<1>2. CASE Succeed \/ FailAttempt
    BY <1>1, <1>2 DEF StepOf, TypeOK, Succeed, FailAttempt
<1>3. CASE LoseFile
    BY <1>0, <1>3 DEF LoseFile, Remembers, TypeOK
<1>4. CASE Stop \/ UNCHANGED vars
    BY <1>4 DEF Stop, vars, Remembers
<1>5. CASE Exit \/ Crash
    BY <1>0, <1>5 DEF Exit, Crash, Down, Remembers
<1>6. ASSUME NEW on \in [Job -> BOOLEAN], NEW int \in [Job -> UNION {Intervals[j] : j \in Job}],
             NEW hash \in [Job -> Hash], NEW jitter, Start(on, int, hash, jitter)
      PROVE  Keeps
    <2>1. now' = now /\ running' = running /\ phase = "down"
        BY <1>6 DEF Start
    <2>2. backoff'[i] = IF on[i] /\ file[i].hash = hash[i] THEN backoff[i] ELSE 0
        BY <1>6 DEF Start
    <2>3. file' = states' \/ file' = file
        BY <1>6, StartType
    <2>4. CASE backoff'[i] <= now
        BY <2>1, <2>3, <2>4 DEF Remembers
    <2>5. CASE ~(backoff'[i] <= now)
        <3>1. on[i] /\ file[i].hash = hash[i] /\ backoff'[i] = backoff[i]
            BY <1>0, <2>2, <2>5
        <3>2. file[i].failures > 0 /\ backoff[i] <= file[i].next /\ file[i].next # 0
            BY <1>0, <2>5, <3>1 DEF Remembers, State
        <3>3. /\ states'[i] \in State
              /\ states'[i].failures = file[i].failures /\ states'[i].next >= file[i].next
            BY <1>6, <3>1, <3>2, StartFacts
        <3>4. states'[i].failures > 0 /\ backoff'[i] <= states'[i].next
            BY <1>0, <3>1, <3>2, <3>3 DEF State
        <3> QED
            BY <1>0, <2>1, <2>3, <3>1, <3>2, <3>4 DEF Remembers, TypeOK
    <2> QED
        BY <2>4, <2>5
<1>7. ASSUME NEW j \in Job, CacheSet(j) \/ CacheGone(j) PROVE Keeps
    BY <1>7 DEF CacheSet, CacheGone, Remembers
<1>8. ASSUME NEW d \in Steps, Tick(d) PROVE Keeps
    BY <1>0, <1>8, BoundAssumption DEF Tick, Remembers
<1> QED
    BY <1>1, <1>2, <1>3, <1>4, <1>5, <1>6, <1>7, <1>8 DEF Next, StepOf

\* A job that failed is not tried again before its delay is over, across lost writes and restarts.
THEOREM DelaysSurvive == Spec => BackoffKept
<1>1. Init => Delayed
    BY DEF Init, Delayed, Remembers
<1>2. TypeOK /\ Timely /\ Delayed /\ [Next]_vars => (TypeOK /\ Timely /\ Delayed)'
    BY TypeStep, TimelyStep, DelayedStep
<1>3. TypeOK /\ Delayed /\ [Next]_vars => [\A j \in Job : running' = j /\ running # j => now >= backoff[j]]_vars
    <2> SUFFICES ASSUME TypeOK, Delayed, Next, NEW j \in Job, running' = j, running # j
                 PROVE  now >= backoff[j]
        OBVIOUS
    <2>1. Attempt(j)
        BY JobFacts DEF Next, LoseFile, Succeed, FailAttempt, Stop, Exit, Crash, Down, Start, Postpone, Attempt,
                        CacheSet, CacheGone, Tick
    <2> QED
        BY <2>1, DueIsFree DEF Attempt, Selected, TypeOK
<1> QED
    BY <1>1, <1>2, <1>3, TypeInit, PTL DEF Spec, BackoffKept

-----------------------------------------------------------------------------
(* Jobs that wait for others.                                                *)

\* The jobs that run, or that the goroutine takes up after j.
Ahead(j) == {i \in Job \ {j} : running = i \/ states[i].next > states[j].next}

\* Who overtook job j, while it is due, is behind it now.
Queued ==
    \A j \in Job : overtaken[j] # 0 => /\ phase # "down" /\ running # j /\ Due(j)
                                      /\ overtaken[j] <= Cardinality(Ahead(j))

LEMMA AheadFinite ==
  ASSUME NEW j \in Job
  PROVE  IsFiniteSet(Ahead(j)) /\ Cardinality(Ahead(j)) \in Nat /\ Cardinality(Ahead(j)) < Jobs
<1>1. IsFiniteSet(Job \ {j}) /\ Cardinality(Job \ {j}) = Jobs - 1
    BY JobFacts, FS_RemoveElement
<1>2. Ahead(j) \in SUBSET (Job \ {j})
    BY DEF Ahead
<1>3. IsFiniteSet(Ahead(j)) /\ Cardinality(Ahead(j)) <= Jobs - 1
    BY <1>1, <1>2, FS_Subset
<1> QED
    BY <1>3, JobsAssumption, FS_CardinalityType

\* The same at the next step.
LEMMA AheadFiniteNext ==
  ASSUME NEW j \in Job
  PROVE  IsFiniteSet(Ahead(j)') /\ Cardinality(Ahead(j)') \in Nat
<1>1. IsFiniteSet(Job)
    BY JobFacts
<1>2. Ahead(j)' \in SUBSET Job
    BY DEF Ahead
<1> QED
    BY <1>1, <1>2, FS_Subset, FS_CardinalityType

\* A step that nobody leaves Ahead with.
LEMMA QueuedFrame ==
  ASSUME TypeOK, Queued, NEW j \in Job, overtaken'[j] \in {0, overtaken[j]},
         overtaken[j] # 0 => \/ overtaken'[j] = 0
                            \/ /\ phase' # "down" /\ running' # j /\ Due(j)'
                               /\ Ahead(j) \subseteq Ahead(j)'
  PROVE  overtaken'[j] # 0 => /\ phase' # "down" /\ running' # j /\ Due(j)'
                              /\ overtaken'[j] <= Cardinality(Ahead(j)')
<1> SUFFICES ASSUME overtaken'[j] # 0
             PROVE  /\ phase' # "down" /\ running' # j /\ Due(j)'
                    /\ overtaken'[j] <= Cardinality(Ahead(j)')
    OBVIOUS
<1>1. /\ overtaken'[j] = overtaken[j] /\ overtaken[j] # 0 /\ overtaken[j] \in Nat
      /\ phase' # "down" /\ running' # j /\ Due(j)' /\ Ahead(j) \subseteq Ahead(j)'
    BY DEF TypeOK
<1>2. Cardinality(Ahead(j)) <= Cardinality(Ahead(j)')
    BY <1>1, AheadFiniteNext, FS_Subset
<1>3. overtaken[j] <= Cardinality(Ahead(j))
    BY <1>1 DEF Queued
<1> QED
    BY <1>1, <1>2, <1>3, AheadFinite, AheadFiniteNext

\* A step that changes nothing of the order.
LEMMA QueuedSame ==
  ASSUME TypeOK, Queued, UNCHANGED <<phase, running, states, overtaken>>, now' \in Nat, now' >= now
  PROVE  Queued'
<1> SUFFICES ASSUME NEW j \in Job
             PROVE  overtaken'[j] # 0 => /\ phase' # "down" /\ running' # j /\ Due(j)'
                                         /\ overtaken'[j] <= Cardinality(Ahead(j)')
    BY DEF Queued
<1>1. overtaken[j] # 0 => phase' # "down" /\ running' # j /\ Due(j)
    BY DEF Queued
<1>2. Due(j) => Due(j)'
    BY DEF Due, TypeOK, State
<1>3. Ahead(j)' = Ahead(j)
    BY DEF Ahead
<1> QED
    BY <1>1, <1>2, <1>3, QueuedFrame

LEMMA QueuedStep ==
  ASSUME TypeOK, Timely, Queued, [Next]_vars
  PROVE  Queued'
<1>0. now \in Nat
    BY DEF TypeOK
<1>1. ASSUME NEW j \in Job, StepOf(j), NEW i \in Job
      PROVE  overtaken'[i] # 0 => /\ phase' # "down" /\ running' # i /\ Due(i)'
                                  /\ overtaken'[i] <= Cardinality(Ahead(i)')
    <2>1. PICK s \in State : states' = [states EXCEPT ![j] = s] /\ s.enabled = states[j].enabled
        BY <1>1, StepFacts
    <2>2. /\ states'[j] = s /\ \A k \in Job \ {j} : states'[k] = states[k]
          /\ now' = now /\ phase' # "down"
        BY <1>1, <2>1, StepFacts DEF TypeOK, StepOf, Postpone, Attempt, Succeed, FailAttempt
    <2>3. i # j => (Due(i)' <=> Due(i))
        BY <2>2 DEF Due
    <2>4. CASE Attempt(j)
        <3>1. i = j => overtaken'[i] = 0
            BY <2>4 DEF Attempt, TypeOK
        <3>2. CASE i # j
            <4>1. /\ running = 0 /\ running' = j /\ overtaken'[i] = IF Due(i) THEN overtaken[i] + 1 ELSE overtaken[i]
                BY <2>4, <3>2, JobFacts DEF Attempt, TypeOK
            <4>2. s.next = states[j].next
                BY <2>1, <2>2, <2>4, AttemptFacts DEF TypeOK
            <4>3. CASE ~Due(i)
                BY <3>2, <4>1, <4>3 DEF Queued
            <4>4. CASE Due(i)
                <5>1. Ahead(i)' = Ahead(i) \cup {j}
                    BY <2>2, <3>2, <4>1, <4>2, JobFacts DEF Ahead
                <5>2. j \notin Ahead(i)
                    <6>1. states[j].next \in Nat /\ states[i].next \in Nat
                        BY DEF TypeOK, State
                    <6>2. ~(states[j].next > states[i].next)
                        BY <2>4, <4>4, <6>1 DEF Attempt, Selected
                    <6> QED
                        BY <4>1, <6>2, JobFacts DEF Ahead
                <5>3. Cardinality(Ahead(i)') = Cardinality(Ahead(i)) + 1
                    BY <5>1, <5>2, AheadFinite, FS_AddElement
                <5>4. overtaken[i] \in Nat /\ overtaken[i] <= Cardinality(Ahead(i))
                    BY AheadFinite DEF Queued, TypeOK
                <5> QED
                    BY <2>2, <2>3, <3>2, <4>1, <4>4, <5>3, <5>4, AheadFinite
            <4> QED
                BY <4>3, <4>4
        <3> QED
            BY <3>1, <3>2
    <2>5. CASE Postpone(j) \/ (running = j /\ (Succeed \/ FailAttempt))
        <3>1. s.next > now
            <4>1. \E r \in State : states' = [states EXCEPT ![j] = r] /\ r.next > now
                BY <2>5, PostponeFacts, EndFacts
            <4>2. PICK r \in State : states' = [states EXCEPT ![j] = r] /\ r.next > now
                BY <4>1
            <4>3. states'[j] = r
                BY <4>2 DEF TypeOK
            <4> QED
                BY <2>2, <4>2, <4>3
        <3>2. running' = 0 /\ (running = 0 \/ running = j)
            BY <2>5 DEF Postpone, Succeed, FailAttempt, TypeOK
        <3>3. CASE i = j
            <4>1. overtaken'[i] = 0
                BY <2>5, <3>3 DEF Postpone, Succeed, FailAttempt, Queued, TypeOK
            <4> QED
                BY <4>1
        <3>4. CASE i # j
            <4>1. overtaken'[i] = overtaken[i]
                BY <2>5, <3>4 DEF Postpone, Succeed, FailAttempt, TypeOK
            <4>2. Due(i) => Ahead(i) \subseteq Ahead(i)'
                <5>1. Due(i) => s.next > states'[i].next
                    BY <1>0, <2>2, <3>1, <3>4 DEF Due, TypeOK, State
                <5> QED
                    BY <2>2, <3>2, <3>4, <5>1, JobFacts DEF Ahead
            <4>3. overtaken[i] # 0 => Due(i)
                BY DEF Queued
            <4> QED
                BY <2>2, <2>3, <3>2, <3>4, <4>1, <4>2, <4>3, JobFacts, QueuedFrame
        <3> QED
            BY <3>3, <3>4
    <2> QED
        BY <1>1, <2>4, <2>5 DEF StepOf
<1>2. ASSUME NEW j \in Job, StepOf(j) PROVE Queued'
    BY <1>1, <1>2 DEF Queued
<1>3. CASE Succeed \/ FailAttempt
    BY <1>2, <1>3 DEF StepOf, TypeOK, Succeed, FailAttempt
<1>4. CASE LoseFile \/ Stop \/ UNCHANGED vars
    BY <1>0, <1>4, QueuedSame DEF LoseFile, Stop, vars
<1>5. CASE Exit \/ Crash
    BY <1>5 DEF Exit, Crash, Down, Queued
<1>6. ASSUME NEW on, NEW int, NEW hash, NEW jitter, Start(on, int, hash, jitter) PROVE Queued'
    <2>1. \A j \in Job : overtaken[j] = 0
        BY <1>6 DEF Queued, Start
    <2> QED
        BY <1>6, <2>1 DEF Queued, Start
<1>7. ASSUME NEW j \in Job, CacheSet(j) \/ CacheGone(j) PROVE Queued'
    BY <1>0, <1>7, QueuedSame DEF CacheSet, CacheGone
<1>8. ASSUME NEW d \in Steps, Tick(d) PROVE Queued'
    BY <1>0, <1>8, BoundAssumption, QueuedSame DEF Tick
<1> QED
    BY <1>2, <1>3, <1>4, <1>5, <1>6, <1>7, <1>8 DEF Next, StepOf

\* However often others fail, a job that is due is attempted after fewer than Jobs attempts of others.
THEOREM EveryTurnComes == Spec => []NobodyStarves
<1>1. Init => Queued
    BY DEF Init, Queued
<1>2. TypeOK /\ Timely /\ Queued /\ [Next]_vars => (TypeOK /\ Timely /\ Queued)'
    BY TypeStep, TimelyStep, QueuedStep
<1>3. TypeOK /\ Queued => NobodyStarves
    <2> SUFFICES ASSUME TypeOK, Queued, NEW j \in Job PROVE overtaken[j] < Jobs
        BY DEF NobodyStarves
    <2>1. overtaken[j] \in Nat
        BY DEF TypeOK
    <2>2. overtaken[j] = 0 \/ overtaken[j] <= Cardinality(Ahead(j))
        BY DEF Queued
    <2> QED
        BY <2>1, <2>2, AheadFinite, JobsAssumption
<1> QED
    BY <1>1, <1>2, <1>3, TypeInit, PTL DEF Spec
=============================================================================
