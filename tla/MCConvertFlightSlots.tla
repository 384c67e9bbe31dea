------------------------- MODULE MCConvertFlightSlots -------------------------
(***************************************************************************)
(* A small instance of ConvertFlight for the liveness of its requests.  For*)
(* a forced request to try again an ordinary one must miss the cache, a    *)
(* second one store meanwhile, and the first one lead and find that: three *)
(* requests, one of which may take the only slot for another key instead.  *)
(***************************************************************************)
EXTENDS ConvertFlight

CONSTANTS      \* bounds
    Forced,    \* the requests that are forced
    Home,      \* the key all may ask for; the others are for those in Roaming
    Roaming,
    Impatient  \* the requests whose clients may go away

ASSUME BoundsAssumption ==
    Forced \cup Roaming \cup Impatient \subseteq Request /\ Home \in Key

\* No entry expires here; the run convert_flight has that.
BoundedNext ==
    \/ \E r \in Request, k \in Key :
          (k = Home \/ r \in Roaming) /\ Arrive(r, k, r \in Forced)
    \/ \E r \in Impatient : Cancel(r)
    \/ \E r \in Request : Step(r)

BoundedFairSpec == Init /\ [][BoundedNext]_vars /\ Fairness
=============================================================================
