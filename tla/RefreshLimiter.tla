--------------------------- MODULE RefreshLimiter ---------------------------
(***************************************************************************)
(* The limiter of public forced refreshes: internal/server/refresh_limit.go.*)
(*                                                                         *)
(* allow keeps a cooldown for each key and the times of the last minute's  *)
(* accepted refreshes.  It cleans up only when it is called, returns at    *)
(* the first reason to refuse, and then records nothing.  Time is in       *)
(* seconds, read under the limiter's lock.                                 *)
(*                                                                         *)
(* An operator named ...Mutant is the one below it with a plausible bug.   *)
(***************************************************************************)
EXTENDS Integers, Sequences, FiniteSets

CONSTANTS
    Key,
    CooldownSetting, MaximumSetting,  \* the configuration, of any value
    MaxKeys,                          \* 4096 in the code
    Steps, MaxTime                    \* how time passes, and how far TLC follows it

ASSUME SettingAssumption == CooldownSetting \in Int /\ MaximumSetting \in Int
ASSUME BoundAssumption   == MaxKeys \in Nat \ {0} /\ MaxTime \in Nat
ASSUME StepAssumption    == Steps \subseteq Nat \ {0}
ASSUME KeyAssumption     == IsFiniteSet(Key)

Minute == 60

\* newRefreshLimiter.
Cooldown == IF CooldownSetting <= 0 THEN 60
            ELSE IF CooldownSetting > 86400 THEN 86400 ELSE CooldownSetting
MaxPerMinute == IF MaximumSetting > 1000 THEN 1000
                ELSE IF MaximumSetting <= 0 THEN 10 ELSE MaximumSetting

VARIABLES
    now,
    keys,       \* until when each key is refused; 0 when it has no entry
    attempts,   \* the times of accepted refreshes still kept
    accepted,   \* every accepted refresh, in order: history
    promise     \* when the last refused caller of each key was told to come
                \* back, and why: history

vars == <<now, keys, attempts, accepted, promise>>

-----------------------------------------------------------------------------
\* The two purges of allow.  The table's is done on every call, the other one
\* only when the key is not cooling down.
Live  == [k \in Key |-> IF keys[k] <= now THEN 0 ELSE keys[k]]
Table == {k \in Key : Live[k] # 0}

\* The first n attempts, and no more, are a minute old.
Recent(t)  == t > now - Minute
Expired(n) == /\ \A i \in 1..n : ~Recent(attempts[i])
              /\ n < Len(attempts) => Recent(attempts[n + 1])
Kept(n)    == SubSeq(attempts, n + 1, Len(attempts))

\* A bug: one refresh too many.
OneMoreMutant(n) == Len(Kept(n)) <= MaxPerMinute

MinuteHasRoom(n) == Len(Kept(n)) < MaxPerMinute

TableHasRoom == Cardinality(Table) < MaxKeys

Record(k) == keys' = [Live EXCEPT ![k] = now + Cooldown]

\* A bug: the newest attempt is asked, not the oldest.
NewestMutant(n) == Kept(n)[Len(Kept(n))] + Minute

\* When the oldest of the attempts kept leaves its place.
NextFree(n) == Kept(n)[1] + Minute

Refuse == keys' = Live /\ UNCHANGED <<now, accepted>>

\* The caller is told to wait until t: what allow returns, sent as Retry-After.
Wait(k, t, why) == promise' = [promise EXCEPT ![k] = [until |-> t, why |-> why]]

Init ==
    /\ now = 0
    /\ keys = [k \in Key |-> 0]
    /\ attempts = << >>
    /\ accepted = << >>
    /\ promise = [k \in Key |-> [until |-> 0, why |-> "none"]]

CoolingDown(k) ==
    /\ k \in Table
    /\ Refuse /\ Wait(k, keys[k], "key")
    /\ UNCHANGED attempts

MinuteFull(k, n) ==
    /\ k \notin Table /\ Expired(n)
    /\ ~MinuteHasRoom(n)
    /\ Refuse /\ Wait(k, NextFree(n), "minute")
    /\ attempts' = Kept(n)

\* The table's entries may go sooner or stay longer than the minute told here.
TableFull(k, n) ==
    /\ k \notin Table /\ Expired(n)
    /\ MinuteHasRoom(n) /\ ~TableHasRoom
    /\ Refuse /\ Wait(k, now + Minute, "table")
    /\ attempts' = Kept(n)

Accept(k, n) ==
    /\ k \notin Table /\ Expired(n)
    /\ MinuteHasRoom(n) /\ TableHasRoom
    /\ Record(k)
    /\ attempts' = Append(Kept(n), now)
    /\ accepted' = Append(accepted, [key |-> k, time |-> now])
    /\ UNCHANGED <<now, promise>>

Tick(d) ==
    /\ now + d <= MaxTime
    /\ now' = now + d
    /\ UNCHANGED <<keys, attempts, accepted, promise>>

Next ==
    \/ \E k \in Key : CoolingDown(k)
    \/ \E k \in Key, n \in 0..Len(attempts) :
          MinuteFull(k, n) \/ TableFull(k, n) \/ Accept(k, n)
    \/ \E d \in Steps : Tick(d)

Spec == Init /\ [][Next]_vars

-----------------------------------------------------------------------------
(* Properties.                                                              *)

TypeOK ==
    /\ now \in Nat
    /\ keys \in [Key -> Nat]
    /\ attempts \in Seq(Nat)
    /\ accepted \in Seq([key : Key, time : Nat])
    /\ promise \in [Key -> [until : Nat, why : {"none", "key", "minute", "table"}]]

\* README: the whole instance accepts at most MaxPerMinute refreshes a minute.
\* That is every minute, not only those that begin with a call: MaxPerMinute
\* refreshes later at least a minute has passed, though expired times are
\* dropped only by calls that get that far.
RateKept ==
    \A i, j \in 1..Len(accepted) :
        j = i + MaxPerMinute => accepted[j].time >= accepted[i].time + Minute

\* Two accepted refreshes of one key are a cooldown apart, whatever other keys
\* do to the table in between.
CooldownKept ==
    \A i, j \in 1..Len(accepted) :
        /\ i < j
        /\ accepted[i].key = accepted[j].key
        => accepted[j].time >= accepted[i].time + Cooldown

\* The two limits of the README, on the whole instance and on each result, together.
LimitsKept == RateKept /\ CooldownKept

\* The time for which a key was refused on its own account or the minute's; the
\* minute told when the table is full is a guess, and binds nobody.
Due(k) == IF promise[k].why \in {"key", "minute"} THEN promise[k].until ELSE 0

LetIn(k) == Len(accepted') > Len(accepted) /\ accepted'[Len(accepted')].key = k

\* A caller who was told when its key, or a place in the minute, is free again
\* (Retry-After) loses nothing by coming back then: before that time no refresh
\* of its key is accepted, nor even gets as far as a full table.
NoneTooEarly ==
    [][\A k \in Key : LetIn(k) \/ Due(k)' = 0 => Due(k) <= now]_vars

\* The memory of the limiter is bounded, whatever the configuration.
MemoryBounded ==
    /\ Cardinality({k \in Key : keys[k] # 0}) <= MaxKeys
    /\ Len(attempts) <= MaxPerMinute

-----------------------------------------------------------------------------
(* The inductive invariant: what the limiter still remembers stands for all  *)
(* the history that can matter.                                              *)

\* The attempts kept are the newest of all accepted refreshes; those forgotten
\* are a minute old.
Forgotten == Len(accepted) - Len(attempts)

AttemptsKept ==
    /\ Forgotten >= 0
    /\ \A i \in 1..Len(attempts) : attempts[i] = accepted[Forgotten + i].time
    /\ \A i \in 1..Len(accepted) :
          accepted[i].time <= now /\ (i <= Forgotten => accepted[i].time + Minute <= now)

\* A key without an entry has no accepted refresh within the cooldown.
EntriesKept ==
    \A i \in 1..Len(accepted) :
        LET a == accepted[i]
        IN  a.time + Cooldown <= now \/ keys[a.key] >= a.time + Cooldown

\* What a caller was refused for, its key or the minute, holds until the time
\* it was told.
PromisesKept ==
    \A k \in Key :
        \/ Due(k) <= now
        \/ keys[k] >= Due(k)
        \/ Len(attempts) = MaxPerMinute /\ attempts[1] + Minute >= Due(k)

IInv == TypeOK /\ Len(attempts) <= MaxPerMinute /\ AttemptsKept /\ EntriesKept
            /\ PromisesKept /\ RateKept /\ CooldownKept

=============================================================================
