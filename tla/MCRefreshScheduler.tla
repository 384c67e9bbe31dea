------------------------- MODULE MCRefreshScheduler -------------------------
(***************************************************************************)
(* A small instance of RefreshScheduler for TLC, with a next-state         *)
(* relation that offers Start only the configurations it accepts.          *)
(***************************************************************************)
EXTENDS RefreshScheduler

CONSTANT Public     \* bound: the jobs whose results public requests refresh, or that are lost

ASSUME PublicAssumption == Public \subseteq Job

\* In half minutes: for the first job five minutes, and for all the shortest interval
\* allowed, which a restart may change it to.
Mixed == [j \in Job |-> IF j = 1 THEN {10, 2} ELSE {2}]

Enabled == {on \in [Job -> BOOLEAN] : \A j \in Job \ Optional : on[j]}
Chosen  == {int \in [Job -> UNION {Intervals[j] : j \in Job}] : \A j \in Job : int[j] \in Intervals[j]}

BoundedNext ==
    \/ LoseFile \/ Succeed \/ FailAttempt \/ Stop \/ Exit \/ Crash
    \/ \E on \in Enabled, int \in Chosen, hash \in [Job -> Hash], jitter \in [Job -> 0..LongestJitter] :
          Start(on, int, hash, jitter)
    \/ \E j \in Job : Postpone(j) \/ Attempt(j)
    \/ \E j \in Public : CacheSet(j) \/ CacheGone(j)
    \/ \E d \in Steps : Tick(d)

BoundedSpec == Init /\ [][BoundedNext]_vars
=============================================================================
