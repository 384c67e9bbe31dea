------------------------ MODULE RefreshLimiterProofs ------------------------
(***************************************************************************)
(* Proofs about RefreshLimiter, for every configuration, every set of keys *)
(* and every passage of time.                                              *)
(***************************************************************************)
EXTENDS RefreshLimiter, SequenceTheorems, FiniteSetTheorems, TLAPS

\* The clamps of newRefreshLimiter leave a positive cooldown and maximum.
LEMMA SettingsTyped == Cooldown \in Nat \ {0} /\ MaxPerMinute \in Nat \ {0}
BY SettingAssumption DEF Cooldown, MaxPerMinute

\* Trimming drops the first n attempts and keeps the others in order.
LEMMA KeptFacts ==
    ASSUME TypeOK, NEW n \in 0..Len(attempts)
    PROVE  /\ Kept(n) \in Seq(Nat)
           /\ Len(Kept(n)) = Len(attempts) - n
           /\ \A i \in 1..Len(Kept(n)) : Kept(n)[i] = attempts[n + i]
BY DEF TypeOK, Kept

\* The purge of the table forgets only keys whose time has come.
LEMMA LiveFacts ==
    ASSUME TypeOK
    PROVE  /\ Live \in [Key -> Nat]
           /\ \A k \in Key : Live[k] = keys[k] \/ (Live[k] = 0 /\ keys[k] <= now)
           /\ \A k \in Key : Live[k] = 0 => keys[k] <= now
BY DEF TypeOK, Live

\* The types of what the sequences hold.
LEMMA HistoryTyped ==
    ASSUME TypeOK
    PROVE  /\ Len(accepted) \in Nat /\ Len(attempts) \in Nat
           /\ \A i \in 1..Len(accepted) :
                 accepted[i].key \in Key /\ accepted[i].time \in Nat
           /\ \A i \in 1..Len(attempts) : attempts[i] \in Nat
<1>1. ASSUME NEW i \in 1..Len(accepted) PROVE accepted[i] \in [key : Key, time : Nat]
    BY ElementOfSeq DEF TypeOK
<1>2. \A i \in 1..Len(accepted) : accepted[i].key \in Key /\ accepted[i].time \in Nat
    BY <1>1
<1> QED
    BY <1>2 DEF TypeOK

\* A refused caller is told a time.
LEMMA DueTyped == ASSUME TypeOK PROVE \A k \in Key : Due(k) \in Nat
BY DEF TypeOK, Due

\* Nothing accepted, nothing remembered.
LEMMA InitInvariant == Init => IInv
<1> SUFFICES ASSUME Init PROVE IInv
    OBVIOUS
<1>1. TypeOK /\ Len(attempts) = 0 /\ Len(accepted) = 0
  <2>1. attempts = << >> /\ accepted = << >>
      BY DEF Init
  <2>2. /\ now \in Nat /\ keys \in [Key -> Nat]
        /\ promise \in [Key -> [until : Nat, why : {"none", "key", "minute", "table"}]]
      BY DEF Init
  <2> QED
      BY <2>1, <2>2 DEF TypeOK
<1>2. now = 0 /\ \A k \in Key : Due(k) = 0
    BY DEF Init, Due
<1>3. AttemptsKept /\ EntriesKept
    BY <1>1 DEF AttemptsKept, Forgotten, EntriesKept
<1>4. RateKept /\ CooldownKept
    BY <1>1 DEF RateKept, CooldownKept
<1>5. PromisesKept
    BY <1>2 DEF PromisesKept
<1> QED
    BY <1>1, <1>3, <1>4, <1>5, SettingsTyped DEF IInv

\* Time passes: what was remembered is still remembered.
LEMMA TickKeeps == ASSUME IInv, NEW d \in Steps, Tick(d) PROVE IInv'
<1>1. now' \in Nat /\ now' >= now /\ UNCHANGED <<keys, attempts, accepted, promise>>
    BY StepAssumption DEF Tick, IInv, TypeOK
<1>2. TypeOK' /\ (Len(attempts) <= MaxPerMinute)' /\ RateKept' /\ CooldownKept'
    BY <1>1 DEF IInv, TypeOK, RateKept, CooldownKept
<1>3. AttemptsKept'
  <2>1. Forgotten' = Forgotten /\ now \in Nat /\ Forgotten \in Int
      BY <1>1, HistoryTyped DEF Forgotten, IInv, TypeOK
  <2>2. ASSUME NEW i \in 1..Len(accepted)
        PROVE  accepted[i].time <= now' /\ (i <= Forgotten => accepted[i].time + Minute <= now')
    <3>1. accepted[i].time <= now /\ (i <= Forgotten => accepted[i].time + Minute <= now)
        BY DEF IInv, AttemptsKept
    <3>2. accepted[i].time \in Nat
        BY HistoryTyped DEF IInv
    <3> QED
        BY <3>1, <3>2, <1>1, <2>1 DEF Minute
  <2> QED
      BY <1>1, <2>1, <2>2 DEF IInv, AttemptsKept
<1>4. EntriesKept'
  <2> SUFFICES ASSUME NEW i \in 1..Len(accepted)
               PROVE  \/ accepted[i].time + Cooldown <= now'
                      \/ keys[accepted[i].key] >= accepted[i].time + Cooldown
      BY <1>1 DEF EntriesKept
  <2>1. \/ accepted[i].time + Cooldown <= now
        \/ keys[accepted[i].key] >= accepted[i].time + Cooldown
      BY DEF IInv, EntriesKept
  <2>2. accepted[i].time \in Nat /\ now \in Nat
      BY HistoryTyped DEF IInv, TypeOK
  <2> QED
      BY <2>1, <2>2, <1>1, SettingsTyped
<1>5. PromisesKept'
  <2>1. \A k \in Key : Due(k)' = Due(k) /\ Due(k) \in Nat
      BY <1>1, DueTyped DEF Due, IInv
  <2> QED
      BY <1>1, <2>1, SettingsTyped DEF IInv, TypeOK, PromisesKept
<1> QED
    BY <1>2, <1>3, <1>4, <1>5 DEF IInv

\* The entries that the purge removes protect no accepted refresh any more, and
\* keep no promise.
LEMMA PurgeKeeps ==
    ASSUME IInv, UNCHANGED <<now, accepted>>, keys' = Live
    PROVE  EntriesKept'
<1> SUFFICES ASSUME NEW i \in 1..Len(accepted)
             PROVE  \/ accepted[i].time + Cooldown <= now
                    \/ Live[accepted[i].key] >= accepted[i].time + Cooldown
    BY DEF EntriesKept
<1>1. accepted[i].key \in Key /\ accepted[i].time \in Nat
    BY HistoryTyped DEF IInv
<1>2. \/ accepted[i].time + Cooldown <= now
      \/ keys[accepted[i].key] >= accepted[i].time + Cooldown
    BY DEF IInv, EntriesKept
<1>3. keys[accepted[i].key] \in Nat /\ now \in Nat
    BY <1>1 DEF IInv, TypeOK
<1> QED
    BY <1>1, <1>2, <1>3, LiveFacts, SettingsTyped, SMTT(40) DEF IInv

\* A key that is cooling down is told until when its entry stays.
LEMMA CoolingDownKeeps == ASSUME IInv, NEW k \in Key, CoolingDown(k) PROVE IInv'
<1>1. keys' = Live /\ UNCHANGED <<now, accepted, attempts>> /\ TypeOK
    BY DEF CoolingDown, Refuse, IInv
<1>2. promise' = [promise EXCEPT ![k] = [until |-> keys[k], why |-> "key"]] /\ Live[k] # 0
    BY DEF CoolingDown, Wait, Table
<1>3. TypeOK'
    BY <1>1, <1>2, LiveFacts DEF TypeOK
<1>4. EntriesKept'
    BY <1>1, PurgeKeeps
<1>5. PromisesKept'
  <2> SUFFICES ASSUME NEW q \in Key
               PROVE  \/ Due(q)' <= now \/ Live[q] >= Due(q)'
                      \/ Len(attempts) = MaxPerMinute /\ attempts[1] + Minute >= Due(q)'
      BY <1>1 DEF PromisesKept
  <2>1. CASE q = k
    <3>1. Due(q)' = keys[k]
        BY <2>1, <1>1, <1>2 DEF TypeOK, Due
    <3> QED
        BY <2>1, <3>1, <1>1, <1>2, LiveFacts DEF TypeOK
  <2>2. CASE q # k
    <3>1. Due(q)' = Due(q)
        BY <2>2, <1>2, <1>1 DEF TypeOK, Due
    <3>2. \/ Due(q) <= now \/ keys[q] >= Due(q)
          \/ Len(attempts) = MaxPerMinute /\ attempts[1] + Minute >= Due(q)
        BY DEF IInv, PromisesKept
    <3>3. Due(q) \in Nat /\ keys[q] \in Nat /\ now \in Nat
        BY <1>1, DueTyped DEF TypeOK
    <3>4. Live[q] = keys[q] \/ keys[q] <= now
        BY <1>1, LiveFacts
    <3> QED
        BY <3>1, <3>2, <3>3, <3>4
  <2> QED
      BY <2>1, <2>2
<1> QED
    BY <1>1, <1>3, <1>4, <1>5
    DEF IInv, AttemptsKept, Forgotten, RateKept, CooldownKept

\* Trimming keeps the newest accepted refreshes, and what it drops is a minute
\* old.
LEMMA Trimmed ==
    ASSUME IInv, NEW n \in 0..Len(attempts), Expired(n)
    PROVE  /\ Kept(n) \in Seq(Nat)
           /\ Len(Kept(n)) = Len(attempts) - n
           /\ Forgotten + n \in Nat
           /\ Len(accepted) = Forgotten + n + Len(Kept(n))
           /\ \A i \in 1..Len(Kept(n)) : Kept(n)[i] = accepted[Forgotten + n + i].time
           /\ \A i \in 1..Len(accepted) :
                 /\ accepted[i].time <= now
                 /\ i <= Forgotten + n => accepted[i].time + Minute <= now
           /\ n > 0 => attempts[1] + Minute <= now
           /\ n = 0 => Kept(n) = attempts
<1>1. TypeOK /\ Len(attempts) \in Nat /\ Len(accepted) \in Nat /\ n \in Nat /\ now \in Nat
    BY HistoryTyped DEF IInv, TypeOK
<1>2. /\ Kept(n) \in Seq(Nat) /\ Len(Kept(n)) = Len(attempts) - n
      /\ \A i \in 1..Len(Kept(n)) : Kept(n)[i] = attempts[n + i]
    BY <1>1, KeptFacts
<1>3. Forgotten \in Nat /\ Forgotten = Len(accepted) - Len(attempts)
    BY <1>1 DEF Forgotten, IInv, AttemptsKept
<1>4. ASSUME NEW i \in 1..n PROVE attempts[i] + Minute <= now
  <2>1. attempts[i] \in Nat /\ ~(attempts[i] > now - Minute)
      BY <1>1 DEF TypeOK, Expired, Recent
  <2> QED
      BY <2>1, <1>1 DEF Minute
<1>5. ASSUME NEW i \in 1..Len(Kept(n))
      PROVE  Kept(n)[i] = accepted[Forgotten + n + i].time
  <2>1. n + i \in 1..Len(attempts) /\ Kept(n)[i] = attempts[n + i]
      BY <1>1, <1>2
  <2>2. attempts[n + i] = accepted[Forgotten + (n + i)].time
      BY <2>1 DEF IInv, AttemptsKept
  <2>3. Forgotten + (n + i) = Forgotten + n + i
      BY <1>1, <1>3
  <2> QED
      BY <2>1, <2>2, <2>3
<1>6. ASSUME NEW i \in 1..Len(accepted)
      PROVE  /\ accepted[i].time <= now
             /\ i <= Forgotten + n => accepted[i].time + Minute <= now
  <2>1. accepted[i].time <= now /\ (i <= Forgotten => accepted[i].time + Minute <= now)
      BY DEF IInv, AttemptsKept
  <2>2. ASSUME i > Forgotten, i <= Forgotten + n PROVE accepted[i].time + Minute <= now
    <3>1. i - Forgotten \in 1..n /\ i - Forgotten \in 1..Len(attempts)
        BY <1>1, <1>3, <2>2
    <3>2. attempts[i - Forgotten] = accepted[Forgotten + (i - Forgotten)].time
        BY <3>1 DEF IInv, AttemptsKept
    <3>3. Forgotten + (i - Forgotten) = i
        BY <1>3
    <3> QED
        BY <3>1, <3>2, <3>3, <1>4
  <2> QED
      BY <1>3, <2>1, <2>2
<1>7. n > 0 => attempts[1] + Minute <= now
    BY <1>1, <1>4
<1>8. n = 0 => Kept(n) = attempts
    BY <1>1 DEF Kept, TypeOK
<1>9. Forgotten + n \in Nat /\ Len(accepted) = Forgotten + n + Len(Kept(n))
    BY <1>1, <1>2, <1>3
<1> QED
    BY <1>2, <1>5, <1>6, <1>7, <1>8, <1>9

\* While the minute is full, nothing is dropped without freeing a place.
LEMMA FullMeansRefused ==
    ASSUME IInv, NEW n \in 0..Len(attempts), Expired(n), Len(Kept(n)) < MaxPerMinute
    PROVE  ~(n = 0 /\ Len(attempts) = MaxPerMinute)
<1>1. Len(Kept(n)) = Len(attempts) - n /\ Len(attempts) \in Nat
    BY Trimmed, HistoryTyped DEF IInv
<1> QED
    BY <1>1, SettingsTyped

\* A refusal after the attempts were trimmed.
LEMMA TrimKeeps ==
    ASSUME IInv, NEW n \in 0..Len(attempts), Expired(n), attempts' = Kept(n),
           UNCHANGED <<now, accepted>>, keys' = Live
    PROVE  /\ AttemptsKept' /\ EntriesKept' /\ RateKept' /\ CooldownKept'
           /\ attempts' \in Seq(Nat) /\ (Len(attempts) <= MaxPerMinute)'
<1>1. Forgotten' = Forgotten + n
  <2>1. Len(attempts') \in Nat /\ Forgotten + n \in Nat
      BY Trimmed
  <2>2. Len(accepted) = Forgotten + n + Len(attempts')
      BY Trimmed
  <2> QED
      BY <2>1, <2>2 DEF Forgotten
<1>2. AttemptsKept'
    BY <1>1, Trimmed, SMTT(40) DEF AttemptsKept
<1>3. EntriesKept'
    BY PurgeKeeps
<1>4. Len(attempts') <= MaxPerMinute
  <2>1. Len(attempts') = Len(attempts) - n /\ n \in Nat /\ Len(attempts) \in Nat
      BY Trimmed, HistoryTyped DEF IInv
  <2> QED
      BY <2>1, SettingsTyped DEF IInv
<1>5. RateKept' /\ CooldownKept'
    BY DEF IInv, RateKept, CooldownKept
<1> QED
    BY <1>2, <1>3, <1>4, <1>5, Trimmed

\* A promise to another key outlives a purge and a trim: what it rests on is
\* dropped only when its time has come.
LEMMA PromiseOutlives ==
    ASSUME IInv, NEW n \in 0..Len(attempts), Expired(n), NEW q \in Key
    PROVE  \/ Due(q) <= now
           \/ Live[q] >= Due(q)
           \/ /\ n = 0 /\ Len(attempts) = MaxPerMinute
              /\ attempts[1] + Minute >= Due(q)
<1>1. TypeOK /\ Due(q) \in Nat /\ keys[q] \in Nat /\ now \in Nat
    BY DueTyped DEF IInv, TypeOK
<1>2. \/ Due(q) <= now \/ keys[q] >= Due(q)
      \/ Len(attempts) = MaxPerMinute /\ attempts[1] + Minute >= Due(q)
    BY DEF IInv, PromisesKept
<1>3. Live[q] = keys[q] \/ keys[q] <= now
    BY <1>1, LiveFacts
<1>4. ASSUME n > 0, Len(attempts) = MaxPerMinute, attempts[1] + Minute >= Due(q)
      PROVE  Due(q) <= now
  <2>1. attempts[1] + Minute <= now /\ attempts[1] \in Nat
      BY <1>4, <1>1, Trimmed, HistoryTyped, SettingsTyped
  <2> QED
      BY <2>1, <1>4, <1>1 DEF Minute
<1> QED
    BY <1>1, <1>2, <1>3, <1>4

\* When the minute is full nothing was dropped, and the oldest attempt says when a
\* place is free.
LEMMA MinuteFullKeeps ==
    ASSUME IInv, NEW k \in Key, NEW n \in 0..Len(attempts), MinuteFull(k, n)
    PROVE  IInv'
<1>0. Len(Kept(n)) \in Nat
    BY KeptFacts DEF IInv
<1>1. /\ Expired(n) /\ attempts' = Kept(n) /\ UNCHANGED <<now, accepted>> /\ keys' = Live
      /\ Len(Kept(n)) >= MaxPerMinute
      /\ promise' = [promise EXCEPT ![k] = [until |-> Kept(n)[1] + Minute, why |-> "minute"]]
    BY <1>0, SettingsTyped DEF MinuteFull, MinuteHasRoom, NextFree, Refuse, Wait
<1>2. TypeOK /\ Len(attempts) \in Nat /\ Len(attempts) <= MaxPerMinute
    BY HistoryTyped DEF IInv
<1>3. n = 0 /\ Len(attempts) = MaxPerMinute /\ attempts' = attempts
    BY <1>1, <1>2, Trimmed, SettingsTyped
<1>4. attempts[1] + Minute \in Nat
    BY <1>2, <1>3, HistoryTyped, SettingsTyped DEF Minute
<1>5. TypeOK'
    BY <1>1, <1>2, <1>3, <1>4, LiveFacts DEF TypeOK
<1>6. ASSUME NEW q \in Key
      PROVE  \/ Due(q)' <= now \/ Live[q] >= Due(q)'
             \/ Len(attempts) = MaxPerMinute /\ attempts[1] + Minute >= Due(q)'
  <2>1. CASE q = k
    <3>1. Due(q)' = attempts[1] + Minute
        BY <2>1, <1>1, <1>2, <1>3 DEF TypeOK, Due
    <3> QED
        BY <3>1, <1>3, <1>4
  <2>2. CASE q # k
    <3>1. Due(q)' = Due(q)
        BY <2>2, <1>1, <1>2 DEF TypeOK, Due
    <3> QED
        BY <3>1, <1>1, PromiseOutlives
  <2> QED
      BY <2>1, <2>2
<1>7. PromisesKept'
    BY <1>1, <1>3, <1>6 DEF PromisesKept
<1> QED
    BY <1>1, <1>5, <1>7, TrimKeeps DEF IInv

\* The minute told for a full table binds nobody; other promises outlive it.
LEMMA TableFullKeeps ==
    ASSUME IInv, NEW k \in Key, NEW n \in 0..Len(attempts), TableFull(k, n)
    PROVE  IInv'
<1>1. /\ Expired(n) /\ attempts' = Kept(n)
      /\ UNCHANGED <<now, accepted>> /\ keys' = Live
      /\ promise' = [promise EXCEPT ![k] = [until |-> now + Minute, why |-> "table"]]
    BY DEF TableFull, Refuse, Wait
<1>2. TypeOK /\ now \in Nat /\ now + Minute \in Nat
    BY DEF IInv, TypeOK, Minute
<1>3. TypeOK'
    BY <1>1, <1>2, TrimKeeps, LiveFacts DEF TypeOK
<1>4. ASSUME NEW q \in Key
      PROVE  \/ Due(q)' <= now \/ Live[q] >= Due(q)'
             \/ Len(attempts') = MaxPerMinute /\ attempts'[1] + Minute >= Due(q)'
  <2>1. CASE q = k
    <3>1. Due(q)' = 0
        BY <2>1, <1>1, <1>2 DEF TypeOK, Due
    <3> QED
        BY <3>1, <1>2
  <2>2. CASE q # k
    <3>1. Due(q)' = Due(q)
        BY <2>2, <1>1, <1>2 DEF TypeOK, Due
    <3> QED
        BY <3>1, <1>1, PromiseOutlives, Trimmed
  <2> QED
      BY <2>1, <2>2
<1>5. PromisesKept'
    BY <1>1, <1>4 DEF PromisesKept
<1> QED
    BY <1>1, <1>3, <1>5, TrimKeeps DEF IInv

\* An accepted refresh: the attempts kept and the table stand for everything
\* that could be too close to it.
LEMMA AcceptKeeps ==
    ASSUME IInv, NEW k \in Key, NEW n \in 0..Len(attempts), Accept(k, n)
    PROVE  IInv'
<1> DEFINE L == Len(accepted)
           new == [key |-> k, time |-> now]
<1>1. /\ k \notin Table /\ Expired(n) /\ Len(Kept(n)) < MaxPerMinute
      /\ keys' = [Live EXCEPT ![k] = now + Cooldown]
      /\ attempts' = Append(Kept(n), now) /\ accepted' = Append(accepted, new)
      /\ UNCHANGED <<now, promise>>
    BY DEF Accept, MinuteHasRoom, Record
<1>2. /\ TypeOK /\ L \in Nat /\ now \in Nat /\ Len(Kept(n)) \in Nat
      /\ Kept(n) \in Seq(Nat) /\ new \in [key : Key, time : Nat]
    BY <1>1, HistoryTyped, Trimmed, SMTT(40) DEF IInv, TypeOK
<1>3. /\ Len(attempts') = Len(Kept(n)) + 1
      /\ \A i \in 1..Len(Kept(n)) : attempts'[i] = Kept(n)[i]
      /\ attempts'[Len(Kept(n)) + 1] = now
    BY <1>1, <1>2
<1>4. /\ Len(accepted') = L + 1 /\ accepted'[L + 1] = new
      /\ \A i \in 1..L : accepted'[i] = accepted[i]
    BY <1>1, <1>2 DEF TypeOK
<1>5. /\ \A i \in 1..L : accepted[i].key \in Key /\ accepted[i].time \in Nat
      /\ new.key = k /\ new.time = now
    BY <1>2, HistoryTyped
<1>6. keys' \in [Key -> Nat] /\ keys'[k] = now + Cooldown
      /\ \A q \in Key \ {k} : keys'[q] = Live[q]
    BY <1>1, <1>2, LiveFacts, SettingsTyped
<1>7. keys[k] <= now
    BY <1>1, <1>2, LiveFacts DEF Table
<1>8. TypeOK'
    BY <1>1, <1>2, <1>6 DEF TypeOK
<1>9. Len(attempts') <= MaxPerMinute
    BY <1>1, <1>2, <1>3, SettingsTyped
<1>10. /\ Forgotten + n \in Nat /\ L = Forgotten + n + Len(Kept(n))
       /\ \A i \in 1..Len(Kept(n)) : Kept(n)[i] = accepted[Forgotten + n + i].time
    BY <1>1, Trimmed
<1>16. ASSUME NEW i \in 1..L
       PROVE  accepted[i].time <= now /\ (i <= Forgotten + n => accepted[i].time + Minute <= now)
    BY <1>1, Trimmed
<1> HIDE DEF new
<1>11. AttemptsKept'
  <2>1. Forgotten' = Forgotten + n
      BY <1>2, <1>3, <1>4, Trimmed, <1>1, SMTT(40) DEF Forgotten
  <2>2. ASSUME NEW i \in 1..Len(attempts') PROVE attempts'[i] = accepted'[Forgotten + n + i].time
    <3>1. CASE i \in 1..Len(Kept(n))
      <4>1. Forgotten + n + i \in 1..L
          BY <3>1, <1>2, <1>10
      <4> QED
          BY <3>1, <4>1, <1>3, <1>4, <1>10
    <3>2. CASE i = Len(Kept(n)) + 1
      <4>1. Forgotten + n + i = L + 1
          BY <3>2, <1>2, <1>10
      <4> QED
          BY <3>2, <4>1, <1>3, <1>4, <1>5
    <3> QED
        BY <3>1, <3>2, <1>2, <1>3
  <2>3. ASSUME NEW i \in 1..Len(accepted')
        PROVE  /\ accepted'[i].time <= now
               /\ i <= Forgotten + n => accepted'[i].time + Minute <= now
    <3>1. CASE i \in 1..L
        BY <3>1, <1>4, <1>16
    <3>2. CASE i = L + 1
      <4>1. ~(i <= Forgotten + n)
          BY <3>2, <1>2, <1>10
      <4> QED
          BY <3>2, <4>1, <1>2, <1>4, <1>5
    <3> QED
        BY <3>1, <3>2, <1>2, <1>4
  <2> QED
      BY <1>1, <1>10, <2>1, <2>2, <2>3, SMTT(40) DEF AttemptsKept
<1>12. EntriesKept'
  <2> SUFFICES ASSUME NEW i \in 1..Len(accepted')
               PROVE  \/ accepted'[i].time + Cooldown <= now
                      \/ keys'[accepted'[i].key] >= accepted'[i].time + Cooldown
      BY <1>1 DEF EntriesKept
  <2>1. CASE i = L + 1
      BY <2>1, <1>2, <1>4, <1>5, <1>6, SettingsTyped
  <2>2. CASE i \in 1..L
    <3>1. accepted'[i] = accepted[i] /\ accepted[i].key \in Key /\ accepted[i].time \in Nat
        BY <2>2, <1>4, <1>5
    <3>2. \/ accepted[i].time + Cooldown <= now
          \/ keys[accepted[i].key] >= accepted[i].time + Cooldown
        BY <2>2 DEF IInv, EntriesKept
    <3>3. accepted[i].time <= now
        BY <2>2, <1>16
    <3>4. keys[accepted[i].key] \in Nat /\ keys'[accepted[i].key] \in Nat
        BY <3>1, <1>2, <1>6 DEF TypeOK
    <3>5. CASE accepted[i].key = k
        BY <3>1, <3>3, <3>5, <1>2, <1>6, SettingsTyped, SMTT(40)
    <3>6. CASE accepted[i].key # k
      <4>1. keys'[accepted[i].key] = Live[accepted[i].key]
          BY <3>1, <3>6, <1>6
      <4>2. \/ keys'[accepted[i].key] = keys[accepted[i].key]
            \/ keys[accepted[i].key] <= now
          BY <3>1, <4>1, <1>2, LiveFacts
      <4>3. \/ accepted[i].time + Cooldown <= now
            \/ keys'[accepted[i].key] >= accepted[i].time + Cooldown
        <5>1. accepted[i].time + Cooldown \in Nat
            BY <3>1, SettingsTyped
        <5>2. keys[accepted[i].key] \in Nat /\ now \in Nat
            BY <3>4, <1>2
        <5> QED
            BY <3>2, <4>2, <5>1, <5>2
      <4> QED
          BY <3>1, <4>3
    <3> QED
        BY <3>5, <3>6
  <2> QED
      BY <2>1, <2>2, <1>2, <1>4
<1>13. PromisesKept'
  <2> SUFFICES ASSUME NEW q \in Key
               PROVE  Due(q) <= now \/ keys'[q] >= Due(q)
      BY <1>1 DEF PromisesKept, Due
  <2>1. Due(q) \in Nat
      BY <1>2, DueTyped
  <2>2. \/ Due(q) <= now \/ Live[q] >= Due(q)
        \/ n = 0 /\ Len(attempts) = MaxPerMinute
      BY <1>1, PromiseOutlives
  <2>3. ~(n = 0 /\ Len(attempts) = MaxPerMinute)
      BY <1>1, FullMeansRefused
  <2>4. CASE q = k
    <3>1. Live[k] = 0
        BY <1>1 DEF Table
    <3> QED
        BY <2>1, <2>2, <2>3, <2>4, <3>1, <1>2
  <2>5. CASE q # k
      BY <2>2, <2>3, <2>5, <1>6
  <2> QED
      BY <2>4, <2>5
<1>14. RateKept'
  <2> SUFFICES ASSUME NEW i \in 1..L + 1, NEW j \in 1..L + 1, j = i + MaxPerMinute
               PROVE  accepted'[j].time >= accepted'[i].time + Minute
      BY <1>4 DEF RateKept
  <2>1. i \in 1..L
      BY <1>2, SettingsTyped
  <2>2. CASE j \in 1..L
      BY <2>1, <2>2, <1>4 DEF IInv, RateKept
  <2>3. CASE j = L + 1
    <3>1. i <= Forgotten + n
        BY <2>3, <1>1, <1>2, <1>10, SettingsTyped, SMTT(40)
    <3>2. accepted[i].time + Minute <= now
        BY <2>1, <3>1, <1>16
    <3> QED
        BY <2>1, <2>3, <3>2, <1>2, <1>4, <1>5 DEF Minute
  <2> QED
      BY <2>2, <2>3, <1>2
<1>15. CooldownKept'
  <2> SUFFICES ASSUME NEW i \in 1..L + 1, NEW j \in 1..L + 1, i < j,
                      accepted'[i].key = accepted'[j].key
               PROVE  accepted'[j].time >= accepted'[i].time + Cooldown
      BY <1>4 DEF CooldownKept
  <2>1. i \in 1..L
      BY <1>2
  <2>2. CASE j \in 1..L
      BY <2>1, <2>2, <1>4 DEF IInv, CooldownKept
  <2>3. CASE j = L + 1
    <3>1. accepted[i].key = k /\ accepted[i].time \in Nat /\ accepted'[i] = accepted[i]
        BY <2>1, <2>3, <1>4, <1>5
    <3>2. accepted[i].time + Cooldown <= now \/ keys[k] >= accepted[i].time + Cooldown
        BY <2>1, <3>1 DEF IInv, EntriesKept
    <3>3. keys[k] \in Nat
        BY <1>2 DEF TypeOK
    <3> QED
        BY <2>3, <3>1, <3>2, <3>3, <1>2, <1>4, <1>5, <1>7, SettingsTyped, SMTT(40)
  <2> QED
      BY <2>2, <2>3, <1>2
<1> QED
    BY <1>8, <1>9, <1>11, <1>12, <1>13, <1>14, <1>15 DEF IInv

\* Every step of the limiter keeps the invariant.
LEMMA NextInvariant == IInv /\ [Next]_vars => IInv'
<1> SUFFICES ASSUME IInv, [Next]_vars PROVE IInv'
    OBVIOUS
<1>1. ASSUME NEW k \in Key, CoolingDown(k) PROVE IInv'
    BY <1>1, CoolingDownKeeps
<1>2. ASSUME NEW k \in Key, NEW n \in 0..Len(attempts), MinuteFull(k, n) PROVE IInv'
    BY <1>2, MinuteFullKeeps
<1>3. ASSUME NEW k \in Key, NEW n \in 0..Len(attempts), TableFull(k, n) PROVE IInv'
    BY <1>3, TableFullKeeps
<1>4. ASSUME NEW k \in Key, NEW n \in 0..Len(attempts), Accept(k, n) PROVE IInv'
    BY <1>4, AcceptKeeps
<1>5. ASSUME NEW d \in Steps, Tick(d) PROVE IInv'
    BY <1>5, TickKeeps
<1>6. CASE UNCHANGED vars
    BY <1>6 DEF vars, IInv, TypeOK, AttemptsKept, Forgotten, EntriesKept, PromisesKept,
       RateKept, CooldownKept, Due
<1> QED
    BY <1>1, <1>2, <1>3, <1>4, <1>5, <1>6 DEF Next

\* What the limiter remembers stands for its whole history, at every moment.
THEOREM Invariance == Spec => []IInv
BY InitInvariant, NextInvariant, PTL DEF Spec

\* The types of the variables.
THEOREM TypeCorrect == Spec => []TypeOK
<1>1. IInv => TypeOK
    BY DEF IInv
<1> QED
    BY <1>1, Invariance, PTL

\* At most MaxPerMinute refreshes are accepted in any minute, for all settings.
THEOREM RateLimited == Spec => []RateKept
<1>1. IInv => RateKept
    BY DEF IInv
<1> QED
    BY <1>1, Invariance, PTL

\* Accepted refreshes of one key are a cooldown apart, for all settings.
THEOREM KeysCooled == Spec => []CooldownKept
<1>1. IInv => CooldownKept
    BY DEF IInv
<1> QED
    BY <1>1, Invariance, PTL

\* Nobody who was told when its key or the minute is free could have been served
\* before: until then every call of its key is refused for one of the two.
THEOREM RetryAfterNeeded == Spec => NoneTooEarly
<1>1. ASSUME IInv, [Next]_vars
      PROVE  [\A k \in Key : LetIn(k) \/ Due(k)' = 0 => Due(k) <= now]_vars
  <2>1. /\ TypeOK /\ now \in Nat /\ Len(accepted) \in Nat
        /\ \A k \in Key : Due(k) \in Nat
      BY <1>1, HistoryTyped, DueTyped DEF IInv, TypeOK
  <2>2. ASSUME NEW k \in Key, NEW n \in 0..Len(attempts), Expired(n),
               Len(Kept(n)) < MaxPerMinute, k \notin Table
        PROVE  Due(k) <= now
    <3>1. Live[k] = 0
        BY <2>2 DEF Table
    <3>2. \/ Due(k) <= now \/ Live[k] >= Due(k)
          \/ n = 0 /\ Len(attempts) = MaxPerMinute
        BY <1>1, <2>2, PromiseOutlives
    <3>3. ~(n = 0 /\ Len(attempts) = MaxPerMinute)
        BY <1>1, <2>2, FullMeansRefused
    <3> QED
        BY <2>1, <3>1, <3>2, <3>3
  <2>3. ASSUME NEW q \in Key, UNCHANGED accepted PROVE ~LetIn(q)
      BY <2>1, <2>3 DEF LetIn
  <2>4. ASSUME NEW k \in Key, CoolingDown(k), NEW q \in Key, LetIn(q) \/ Due(q)' = 0
        PROVE  Due(q) <= now
    <3>1. Due(q)' = 0
        BY <2>3, <2>4 DEF CoolingDown, Refuse
    <3>2. CASE q = k
      <4>1. Due(q)' = keys[k] /\ Live[k] # 0
          BY <2>1, <2>4, <3>2 DEF CoolingDown, Wait, Due, TypeOK, Table
      <4> QED
          BY <2>1, <2>4, <3>1, <4>1, LiveFacts DEF TypeOK
    <3>3. CASE q # k
        BY <2>1, <2>4, <3>1, <3>3 DEF CoolingDown, Wait, Due, TypeOK
    <3> QED
        BY <3>2, <3>3
  <2>5. ASSUME NEW k \in Key, NEW n \in 0..Len(attempts), MinuteFull(k, n),
               NEW q \in Key, LetIn(q) \/ Due(q)' = 0
        PROVE  Due(q) <= now
    <3>1. Due(q)' = 0
        BY <2>3, <2>5 DEF MinuteFull, Refuse
    <3>2. CASE q = k
      <4>1. Due(q)' = Kept(n)[1] + Minute
          BY <2>1, <2>5, <3>2 DEF MinuteFull, Wait, NextFree, Due, TypeOK
      <4>2. Kept(n) \in Seq(Nat) /\ Len(Kept(n)) >= 1
          BY <1>1, <2>5, Trimmed, SettingsTyped DEF MinuteFull, MinuteHasRoom
      <4>3. Kept(n)[1] \in Nat
          BY <4>2
      <4> QED
          BY <3>1, <4>1, <4>3 DEF Minute
    <3>3. CASE q # k
        BY <2>1, <2>5, <3>1, <3>3 DEF MinuteFull, Wait, Due, TypeOK
    <3> QED
        BY <3>2, <3>3
  <2>6. ASSUME NEW k \in Key, NEW n \in 0..Len(attempts), TableFull(k, n),
               NEW q \in Key, LetIn(q) \/ Due(q)' = 0
        PROVE  Due(q) <= now
    <3>1. CASE q = k
        BY <2>2, <2>6, <3>1 DEF TableFull, MinuteHasRoom
    <3>2. CASE q # k
      <4>1. Due(q)' = Due(q) /\ ~LetIn(q)
          BY <2>1, <2>3, <2>6, <3>2 DEF TableFull, Refuse, Wait, Due, TypeOK
      <4> QED
          BY <2>1, <2>6, <4>1
    <3> QED
        BY <3>1, <3>2
  <2>7. ASSUME NEW k \in Key, NEW n \in 0..Len(attempts), Accept(k, n),
               NEW q \in Key, LetIn(q) \/ Due(q)' = 0
        PROVE  Due(q) <= now
    <3>1. CASE q = k
        BY <2>2, <2>7, <3>1 DEF Accept, MinuteHasRoom
    <3>2. CASE q # k
      <4>1. accepted' = Append(accepted, [key |-> k, time |-> now])
            /\ [key |-> k, time |-> now] \in [key : Key, time : Nat]
          BY <2>1, <2>7 DEF Accept
      <4>2. accepted'[Len(accepted')] = [key |-> k, time |-> now]
          BY <2>1, <4>1 DEF TypeOK
      <4>3. ~LetIn(q)
          BY <3>2, <4>2 DEF LetIn
      <4>4. Due(q)' = Due(q)
          BY <2>7 DEF Accept, Due
      <4> QED
          BY <2>1, <2>7, <4>3, <4>4
    <3> QED
        BY <3>1, <3>2
  <2>8. ASSUME NEW d \in Steps, Tick(d), NEW q \in Key, LetIn(q) \/ Due(q)' = 0
        PROVE  Due(q) <= now
    <3>1. Due(q)' = Due(q) /\ ~LetIn(q)
        BY <2>3, <2>8 DEF Tick, Due
    <3> QED
        BY <2>1, <2>8, <3>1
  <2> QED
      BY <1>1, <2>4, <2>5, <2>6, <2>7, <2>8 DEF Next
<1> QED
    BY <1>1, Invariance, PTL DEF Spec, NoneTooEarly

\* The table never holds more than MaxKeys entries, nor the list more than
\* MaxPerMinute times: the code checks before it adds, and purging only removes.
THEOREM MemoryIsBounded == Spec => []MemoryBounded
<1> DEFINE Entries == {k \in Key : keys[k] # 0}
           Few     == Cardinality(Entries) <= MaxKeys
<1>1. Init => Few
  <2>1. Init => Entries = {}
      BY DEF Init
  <2> QED
      BY <2>1, FS_EmptySet, BoundAssumption
<1>2. ASSUME IInv, Few, [Next]_vars PROVE Few'
  <2>1. IsFiniteSet(Entries) /\ IsFiniteSet(Table) /\ Table \subseteq Entries
    <3>1. Table \subseteq Entries /\ Entries \subseteq Key
        BY <1>2 DEF Table, Live, IInv, TypeOK
    <3> QED
        BY <3>1, KeyAssumption, FS_Subset
  <2>2. Cardinality(Table) <= MaxKeys
    <3>1. Cardinality(Table) <= Cardinality(Entries)
        BY <2>1, FS_Subset
    <3> QED
        BY <1>2, <2>1, <3>1, FS_CardinalityType, BoundAssumption
  <2>3. CASE keys' = Live
    <3>1. Entries' = Table
        BY <2>3 DEF Table
    <3> QED
        BY <2>2, <3>1
  <2>4. CASE UNCHANGED keys
      BY <1>2, <2>4
  <2>5. ASSUME NEW k \in Key, NEW n \in 0..Len(attempts), Accept(k, n) PROVE Few'
    <3>1. Entries' \subseteq Table \cup {k}
        BY <2>5, <1>2, LiveFacts DEF Accept, Record, Table, IInv
    <3>2. k \notin Table /\ Cardinality(Table) < MaxKeys
        BY <2>5 DEF Accept, TableHasRoom
    <3>3. IsFiniteSet(Table \cup {k}) /\ Cardinality(Table \cup {k}) = Cardinality(Table) + 1
        BY <2>1, <3>2, FS_AddElement
    <3>4. IsFiniteSet(Entries') /\ Cardinality(Entries') <= Cardinality(Table \cup {k})
        BY <3>1, <3>3, FS_Subset
    <3>5. Cardinality(Table) \in Nat /\ Cardinality(Entries') \in Nat
        BY <2>1, <3>4, FS_CardinalityType
    <3> QED
        BY <3>2, <3>3, <3>4, <3>5, BoundAssumption
  <2>6. \/ keys' = Live \/ UNCHANGED keys
        \/ \E k \in Key, n \in 0..Len(attempts) : Accept(k, n)
      BY <1>2 DEF Next, vars, CoolingDown, MinuteFull, TableFull, Refuse, Tick
  <2> QED
      BY <2>3, <2>4, <2>5, <2>6
<1>3. IInv /\ Few => MemoryBounded
    BY DEF MemoryBounded, IInv
<1> HIDE DEF Few
<1>4. Spec => []Few
    BY <1>1, <1>2, Invariance, PTL DEF Spec
<1> QED
    BY <1>3, <1>4, Invariance, PTL

\* Both limits of the README hold together in every reachable state: as many
\* refreshes a minute as the instance allows, one per key and cooldown.
THEOREM Limited == Spec => []LimitsKept
<1>1. RateKept /\ CooldownKept => LimitsKept
    BY DEF LimitsKept
<1> QED
    BY <1>1, RateLimited, KeysCooled, PTL

=============================================================================
