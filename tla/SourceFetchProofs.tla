-------------------------- MODULE SourceFetchProofs --------------------------
(***************************************************************************)
(* What a fetch promises, proved for any number of requests and sources,   *)
(* any cooldown, and clocks and sources that change as often as they like. *)
(***************************************************************************)
EXTENDS SourceFetch, FiniteSetTheorems, TLAPS

Leading(r) == pc[r] \in {"recheck", "download", "receive", "store", "reread"}
Flying(r)  == Leading(r) \/ pc[r] = "leave"

\* One flight for each key, and it has the leader that it is named after; who waits, waits
\* for it or for one that is over.
OneFlight ==
    /\ \A r \in Request : pc[r] # "idle" => key[r] \in Key
    /\ \A k \in Key : flights[k] # NoOne => key[flights[k]] = k /\ Flying(flights[k])
    /\ \A r \in Request : Flying(r) => flights[key[r]] = r /\ flight[r] = r
    /\ \A r \in Request : pc[r] \in {"idle", "lookup", "lock"} => flight[r] = NoOne
    /\ \A r \in Request : flight[r] # NoOne => pc[flight[r]] # "idle"
    /\ \A c \in closed : pc[c] = "done"
    /\ \A r \in Request : pc[r] = "wait" =>
          /\ flight[r] \in Request /\ key[flight[r]] = key[r]
          /\ flight[r] \in closed \/ flights[key[r]] = flight[r]

\* Who has arrived for the same key.
Same(q, k) == pc[q] # "idle" /\ key[q] = k

\* Nothing about a key is newer than upstream, or than what a leader is to store, or than an
\* entry that is still there.
Forward ==
    /\ \A k \in Key : entry[k].tag \in {0, entry[k].version} /\ entry[k].version <= upstream[k]
    /\ \A r \in Request : held[r].tag \in {0, held[r].version}
    /\ \A r \in Request : pc[r] \in {"receive", "store"} =>
          held[r].version <= upstream[key[r]] /\ entry[key[r]].version <= held[r].version
    /\ \A q \in Request, k \in Key : Same(q, k) =>
          /\ answer[q].version <= upstream[k] /\ past[q] <= upstream[k]
          /\ entry[k].state # "none" =>
                answer[q].version <= entry[k].version /\ past[q] <= entry[k].version
    /\ \A q, r \in Request : pc[r] \in {"receive", "store"} /\ Same(q, key[r]) =>
          answer[q].version <= held[r].version /\ past[q] <= held[r].version
    /\ \A r \in Request : pc[r] \in {"leave", "done"} /\ answer[r].err = "nil" =>
          answer[r].version >= past[r]

\* Who has not arrived has no answer.
Blank == \A q \in Request : pc[q] = "idle" => answer[q].version = 0

\* What the last flight stored, or is to store, was validated after its leader asked, and
\* after every leader before it did.
Fresh ==
    /\ \A r \in Request : force[r] <= now
    /\ \A k \in Key, c \in closed :
          entry[k].state = "fresh" /\ key[c] = k /\ answer[c].err = "nil" => entry[k].validated >= force[c]
    /\ \A d \in Request : pc[d] = "store" =>
          /\ stamp[d] >= force[d]
          /\ \A c \in closed : key[c] = key[d] => stamp[d] >= force[c]
    /\ \A d \in Request :
          /\ pc[d] = "reread" \/ (pc[d] = "leave" /\ answer[d].err = "nil")
          /\ entry[key[d]].state = "fresh"
          => entry[key[d]].validated >= force[d]
    /\ \A r \in Request : pc[r] = "leave" /\ answer[r].err = "nil" => answer[r].validated >= force[r]
    /\ Revalidated

\* What the last flight recorded is in the table as long as it matters.
Cool ==
    /\ \A k \in Key : now < last[k].until => failures[k] >= last[k].until
    /\ CooldownKept

-----------------------------------------------------------------------------
(* The ways of a request through fetch: it quits with an error, takes a    *)
(* copy of the entry, or goes on.                                          *)

Place(r) == IF Leading(r) THEN "leave" ELSE "done"

Quits(r) ==
    /\ pc[r] \in {"lookup", "lock", "wait"} \/ Leading(r)
    /\ \E e \in ErrorNames \ {"nil"} : Ends(r, Place(r), {[answer EXCEPT ![r].err = e]})

Copies(r) ==
    LET e == entry[key[r]] IN
    /\ pc[r] \in {"lookup", "wait", "recheck", "reread"}
    /\ e.state = "fresh"
    /\ pc[r] \in {"lookup", "recheck"} => Usable(r)
    /\ pc[r] = "wait" => Ended(r) /\ answer[flight[r]].err = "nil"
    /\ Ends(r, Place(r), {[answer EXCEPT ![r].version = e.version, ![r].validated = e.validated]})

GoesOn(r) ==
    \/ LookupMiss(r) \/ Join(r) \/ Lead(r) \/ RecheckMiss(r) \/ RespondOK(r)
    \/ RespondNotModified(r) \/ Received(r) \/ Store(r) \/ EndFlight(r)

\* A copy that is taken or fails is one of the two.
LEMMA CopiedWays ==
  ASSUME NEW r \in Request, NEW place, Ends(r, place, Copied(r))
  PROVE  \/ \E e \in ErrorNames \ {"nil"} : Ends(r, place, {[answer EXCEPT ![r].err = e]})
         \/ Ends(r, place, {[answer EXCEPT ![r].version = entry[key[r]].version,
                                           ![r].validated = entry[key[r]].validated]})
<1>1. answer' \in Copied(r)
    BY DEF Ends
<1>2. CASE answer' \in Errors(r, {"budget", "capacity"})
    BY <1>2 DEF Ends, Errors, ErrorNames
<1>3. CASE answer' = [answer EXCEPT ![r].version = entry[key[r]].version,
                                    ![r].validated = entry[key[r]].validated]
    BY <1>3 DEF Ends
<1> QED
    BY <1>1, <1>2, <1>3 DEF Copied

LEMMA ErrorWays ==
  ASSUME NEW r \in Request, NEW place, NEW S \in SUBSET (ErrorNames \ {"nil"}), Ends(r, place, Errors(r, S))
  PROVE  \E e \in ErrorNames \ {"nil"} : Ends(r, place, {[answer EXCEPT ![r].err = e]})
  BY DEF Ends, Errors

\* Every step of a request is one of the three.
LEMMA Ways ==
  ASSUME TypeOK, OneFlight, NEW r \in Request, Step(r)
  PROVE  Quits(r) \/ Copies(r) \/ GoesOn(r)
<1>1. CASE AlreadyCancelled(r) \/ CoolingDown(r) \/ WaitCancelled(r)
    BY <1>1, ErrorWays DEF AlreadyCancelled, CoolingDown, WaitCancelled, Quits, Place, Leading, ErrorNames
<1>2. CASE WaitMiss(r) \/ NoWorkspace(r) \/ DownloadFails(r) \/ StoreFails(r) \/ RereadMiss(r)
    BY <1>2, ErrorWays
       DEF WaitMiss, Ended, NoWorkspace, DownloadFails, StoreFails, RereadMiss, Quits, Place, Leading, ErrorNames
<1>3. CASE WaitError(r)
    <2>1. answer[flight[r]].err \in ErrorNames \ {"nil"}
        BY <1>3 DEF WaitError, Ended, TypeOK, OneFlight
    <2> QED
        BY <1>3, <2>1, ErrorWays DEF WaitError, Ended, Quits, Place, Leading
<1>4. CASE LookupHit(r) \/ RecheckHit(r)
    BY <1>4, CopiedWays DEF LookupHit, RecheckHit, Usable, Quits, Copies, Place, Leading
<1>5. CASE WaitHit(r) \/ RereadHit(r)
    BY <1>5, CopiedWays DEF WaitHit, RereadHit, Ended, Quits, Copies, Place, Leading
<1> QED
    BY <1>1, <1>2, <1>3, <1>4, <1>5 DEF Step, Begin, Wake, Refresh, GoesOn

-----------------------------------------------------------------------------
(* Types.                                                                   *)

\* The answers of the three ways, field by field.
LEMMA QuitsAnswer ==
  ASSUME TypeOK, NEW r \in Request, Quits(r)
  PROVE  /\ \A q \in Request \ {r} : answer'[q] = answer[q]
         /\ answer'[r].err \in ErrorNames \ {"nil"}
         /\ answer'[r].version = answer[r].version
         /\ answer' \in [Request -> [err : ErrorNames, version : Nat, validated : Nat]]
<1>1. PICK e \in ErrorNames \ {"nil"} : answer' = [answer EXCEPT ![r].err = e]
    BY DEF Quits, Ends
<1>2. answer[r] \in [err : ErrorNames, version : Nat, validated : Nat]
    BY DEF TypeOK
<1>3. answer'[r] = [err |-> e, version |-> answer[r].version, validated |-> answer[r].validated]
    BY <1>1, <1>2 DEF TypeOK
<1> QED
    BY <1>1, <1>2, <1>3 DEF TypeOK

LEMMA CopiesAnswer ==
  ASSUME TypeOK, OneFlight, NEW r \in Request, Copies(r)
  PROVE  /\ \A q \in Request \ {r} : answer'[q] = answer[q]
         /\ answer'[r].version = entry[key[r]].version
         /\ answer'[r].validated = entry[key[r]].validated
         /\ answer' \in [Request -> [err : ErrorNames, version : Nat, validated : Nat]]
<1>1. answer' = [answer EXCEPT ![r].version = entry[key[r]].version,
                               ![r].validated = entry[key[r]].validated]
    BY DEF Copies, Ends
<1>2. answer[r] \in [err : ErrorNames, version : Nat, validated : Nat]
    BY DEF TypeOK
<1>3. entry[key[r]] \in Entries
    BY DEF TypeOK, OneFlight, Copies
<1>4. answer'[r] = [err |-> answer[r].err, version |-> entry[key[r]].version,
                    validated |-> entry[key[r]].validated]
    BY <1>1, <1>2 DEF TypeOK
<1> QED
    BY <1>1, <1>2, <1>3, <1>4 DEF TypeOK, Entries

\* A table of failures that is recorded is one.
LEMMA RecordedType ==
  ASSUME TypeOK, NEW k \in Key, NEW err, NEW t \in Recorded(k, err)
  PROVE  t \in [Key -> 0..(now + Cooldown)]
<1>1. Live \in [Key -> 0..(now + Cooldown)]
    BY CooldownAssumption DEF Live, TypeOK
<1>2. \A s \in WithRoom(Live) : s \in [Key -> 0..(now + Cooldown)]
    BY <1>1, CooldownAssumption DEF WithRoom, TypeOK
<1>3. CASE err = "nil"
    BY <1>3, CooldownAssumption DEF Recorded, TypeOK
<1>4. CASE err \in {"cancelled", "capacity"}
    BY <1>4 DEF Recorded, TypeOK
<1>5. CASE err \notin {"nil", "cancelled", "capacity"}
    <2>1. PICK s \in WithRoom(Live) : t = [s EXCEPT ![k] = now + Cooldown]
        BY <1>5 DEF Recorded
    <2>2. s \in [Key -> 0..(now + Cooldown)] /\ now + Cooldown \in 0..(now + Cooldown)
        BY <1>2, CooldownAssumption DEF TypeOK
    <2> QED
        BY <2>1, <2>2
<1> QED
    BY <1>3, <1>4, <1>5

Places == {"idle", "lookup", "lock", "wait", "recheck", "download", "receive",
           "store", "reread", "leave", "done"}

LEMMA TypeStep ==
  ASSUME TypeOK, OneFlight, [Next]_vars
  PROVE  TypeOK'
<1> USE CooldownAssumption DEF asked, leading, shared, world
<1>1. ASSUME NEW r \in Request, Quits(r) PROVE TypeOK'
    <2>1. pc' \in [Request -> Places]
        BY <1>1 DEF Quits, Ends, Goto, Place, Places, TypeOK
    <2>2. held' \in [Request -> Contents]
        BY <1>1 DEF Quits, Ends, Content, NoEntry, Contents, TypeOK
    <2>3. answer' \in [Request -> [err : ErrorNames, version : Nat, validated : Nat]]
        BY <1>1, QuitsAnswer
    <2>4. UNCHANGED <<asked, flight, stamp, shared, entry, world>>
        BY <1>1 DEF Quits, Ends
    <2> QED
        BY <2>1, <2>2, <2>3, <2>4 DEF Places, TypeOK
<1>2. ASSUME NEW r \in Request, Copies(r) PROVE TypeOK'
    <2>1. pc' \in [Request -> Places]
        BY <1>2 DEF Copies, Ends, Goto, Place, Places, TypeOK
    <2>2. held' \in [Request -> Contents]
        BY <1>2 DEF Copies, Ends, Content, NoEntry, Contents, TypeOK
    <2> QED
        BY <1>2, <2>1, <2>2, CopiesAnswer DEF Copies, Ends, Places, TypeOK
<1>3. ASSUME NEW r \in Request, LookupMiss(r) \/ Join(r) \/ Lead(r) PROVE TypeOK'
    <2>1. key[r] \in Key
        BY <1>3 DEF LookupMiss, Join, Lead, OneFlight
    <2>2. pc' \in [Request -> Places]
        BY <1>3, SMTT(40) DEF LookupMiss, Join, Lead, Goto, Places, TypeOK
    <2>3. flight' = flight \/ \E c \in Request : flight' = [flight EXCEPT ![r] = c]
        BY <1>3, <2>1 DEF LookupMiss, Join, Lead, TypeOK
    <2>4. flight' \in [Request -> Request \cup {NoOne}]
        BY <2>3, SMTT(40) DEF TypeOK
    <2>5. flights' = flights \/ flights' = [flights EXCEPT ![key[r]] = r]
        BY <1>3 DEF LookupMiss, Join, Lead
    <2>6. flights' \in [Key -> Request \cup {NoOne}]
        BY <2>5 DEF TypeOK
    <2> QED
        BY <1>3, <2>2, <2>4, <2>6 DEF LookupMiss, Join, Lead, Places, TypeOK
<1>4. ASSUME NEW r \in Request, RecheckMiss(r) \/ RespondOK(r) PROVE TypeOK'
    <2>1. key[r] \in Key
        BY <1>4 DEF RecheckMiss, RespondOK, OneFlight
    <2>2. entry[key[r]] \in Entries /\ upstream[key[r]] \in Nat
        BY <2>1 DEF TypeOK
    <2>3. \E c \in Contents : held' = [held EXCEPT ![r] = c]
        <3>1. CASE RecheckMiss(r)
            BY <3>1, <2>2 DEF RecheckMiss, Content, Contents, Entries
        <3>2. CASE RespondOK(r)
            <4>1. PICK tag \in {0, upstream[key[r]]} :
                        held' = [held EXCEPT ![r] = NewContent(r, upstream[key[r]], tag)]
                BY <3>2 DEF RespondOK
            <4>2. NewContent(r, upstream[key[r]], tag) \in Contents
                BY <2>2, <4>1 DEF NewContent, Contents
            <4> QED
                BY <4>1, <4>2
        <3> QED
            BY <1>4, <3>1, <3>2
    <2>4. held' \in [Request -> Contents]
        BY <2>3 DEF TypeOK
    <2> QED
        BY <1>4, <2>4 DEF RecheckMiss, RespondOK, Goto, TypeOK
<1>5. ASSUME NEW r \in Request, RespondNotModified(r) \/ Received(r) PROVE TypeOK'
    <2>1. pc' = [pc EXCEPT ![r] = "store"] /\ stamp' = [stamp EXCEPT ![r] = now]
        BY <1>5 DEF RespondNotModified, Received, Goto
    <2>2. pc' \in [Request -> Places]
        BY <2>1 DEF Places, TypeOK
    <2>3. stamp' \in [Request -> Nat]
        BY <2>1 DEF TypeOK
    <2> QED
        BY <1>5, <2>2, <2>3 DEF RespondNotModified, Received, Places, TypeOK
<1>6. ASSUME NEW r \in Request, Store(r) PROVE TypeOK'
    <2>1. held[r] \in Contents /\ stamp[r] \in Nat
        BY DEF TypeOK
    <2>2. entry' \in [Key -> Entries]
        BY <1>6, <2>1 DEF Store, Contents, Entries, TypeOK
    <2> QED
        BY <1>6, <2>2 DEF Store, Goto, TypeOK
<1>7. ASSUME NEW r \in Request, EndFlight(r) PROVE TypeOK'
    <2>1. key[r] \in Key /\ answer[r].err \in ErrorNames
        BY <1>7 DEF EndFlight, OneFlight, TypeOK
    <2>2. failures' \in [Key -> 0..(now + Cooldown)]
        BY <1>7, <2>1, RecordedType DEF EndFlight
    <2>3. last' \in [Key -> [class : ErrorNames \cup {"none"}, until : Nat]]
        BY <1>7, <2>1 DEF EndFlight, ErrorNames, TypeOK
    <2> QED
        BY <1>7, <2>2, <2>3 DEF EndFlight, Goto, TypeOK
<1>8. ASSUME NEW r \in Request, NEW k \in Key, NEW forced \in BOOLEAN, Arrive(r, k, forced) PROVE TypeOK'
    <2>1. Answers(k) \subseteq Nat
        BY DEF Answers, TypeOK
    <2> QED
        BY <1>8, <2>1 DEF Arrive, Goto, TypeOK
<1>9. ASSUME NEW k \in Key, Expire(k) \/ Drop(k) PROVE TypeOK'
    <2>1. entry[k] \in Entries
        BY DEF TypeOK
    <2>2. [entry[k] EXCEPT !.state = "retained"] \in Entries /\ NoEntry \in Entries
        BY <2>1 DEF NoEntry, Entries
    <2>3. entry' \in [Key -> Entries]
        BY <1>9, <2>2 DEF Expire, Drop, TypeOK
    <2> QED
        BY <1>9, <2>3 DEF Expire, Drop, TypeOK
<1>10. ASSUME NEW k \in Key, Change(k) PROVE TypeOK'
    BY <1>10 DEF Change, TypeOK
<1>11. CASE Tick
    BY <1>11 DEF Tick, TypeOK
<1>12. CASE UNCHANGED vars
    BY <1>12 DEF vars, TypeOK
<1> QED
    BY <1>1, <1>2, <1>3, <1>4, <1>5, <1>6, <1>7, <1>8, <1>9, <1>10, <1>11, <1>12, Ways DEF Next, GoesOn

-----------------------------------------------------------------------------
(* One flight for each key.                                                 *)

\* Whoever returns goes from a flight to the end of it, or to the end.
LEMMA ReturnsFlight ==
  ASSUME TypeOK, OneFlight, NEW r \in Request, pc' = [pc EXCEPT ![r] = Place(r)],
         pc[r] \in {"lookup", "lock", "wait"} \/ Leading(r),
         UNCHANGED <<key, flight, flights, closed>>
  PROVE  OneFlight'
<1>1. Flying(r) => pc'[r] = "leave"
    BY DEF Flying, Leading, Place, OneFlight, TypeOK
<1>2. ~Flying(r) => pc'[r] = "done"
    BY DEF Flying, Place, TypeOK
<1>3. \A q \in Request : Flying(q)' <=> Flying(q)
    BY <1>1, <1>2 DEF Flying, Leading, TypeOK
<1>4. \A q \in Request : /\ (pc[q] = "idle" <=> pc'[q] = "idle")
                         /\ (pc'[q] \in {"lookup", "lock", "wait"} => pc'[q] = pc[q])
                         /\ (pc[q] = "done" => pc'[q] = "done")
    BY DEF Leading, Place, TypeOK
<1>5. \A k \in Key : flights[k] # NoOne => flights[k] \in Request
    BY DEF TypeOK
<1>6. \A q \in Request : flight[q] # NoOne => flight[q] \in Request
    BY DEF TypeOK
<1> QED
    BY <1>3, <1>4, <1>5, <1>6 DEF OneFlight, TypeOK

LEMMA OneFlightStep ==
  ASSUME TypeOK, OneFlight, [Next]_vars
  PROVE  OneFlight'
<1> USE DEF asked, leading, shared, world
<1>1. ASSUME NEW r \in Request, Quits(r) \/ Copies(r) PROVE OneFlight'
    BY <1>1, ReturnsFlight DEF Quits, Copies, Ends, Goto, Leading
<1>2. ASSUME NEW r \in Request, LookupMiss(r) PROVE OneFlight'
    BY <1>2 DEF LookupMiss, Goto, OneFlight, Flying, Leading, TypeOK
<1>3. ASSUME NEW r \in Request, Join(r) PROVE OneFlight'
    BY <1>3, KeyAssumption DEF Join, Goto, OneFlight, Flying, Leading, TypeOK
<1>4. ASSUME NEW r \in Request, Lead(r) PROVE OneFlight'
    BY <1>4, KeyAssumption DEF Lead, Goto, OneFlight, Flying, Leading, TypeOK
<1>5. ASSUME NEW r \in Request, RecheckMiss(r) \/ RespondOK(r) \/ RespondNotModified(r) \/ Received(r) \/ Store(r)
      PROVE OneFlight'
    <2>1. /\ Leading(r) /\ UNCHANGED <<key, flight, flights, closed>>
          /\ \E p \in {"download", "receive", "store", "reread"} : pc' = [pc EXCEPT ![r] = p]
        BY <1>5 DEF RecheckMiss, RespondOK, RespondNotModified, Received, Store, Goto, Leading
    <2>2. \A q \in Request : Flying(q)' <=> Flying(q)
        BY <2>1 DEF Flying, Leading, TypeOK
    <2>3. \A q \in Request : /\ (pc[q] = "idle" <=> pc'[q] = "idle")
                             /\ (pc'[q] \in {"lookup", "lock", "wait"} => pc'[q] = pc[q])
                             /\ (pc[q] = "done" => pc'[q] = "done")
        BY <2>1 DEF Leading, TypeOK
    <2>4. \A k \in Key : flights[k] # NoOne => flights[k] \in Request
        BY DEF TypeOK
    <2>5. \A q \in Request : flight[q] # NoOne => flight[q] \in Request
        BY DEF TypeOK
    <2> QED
        BY <2>1, <2>2, <2>3, <2>4, <2>5 DEF OneFlight, TypeOK
<1>6. ASSUME NEW r \in Request, EndFlight(r) PROVE OneFlight'
    BY <1>6, KeyAssumption DEF EndFlight, Goto, OneFlight, Flying, Leading, TypeOK
<1>7. ASSUME NEW r \in Request, NEW k \in Key, NEW forced \in BOOLEAN, Arrive(r, k, forced) PROVE OneFlight'
    BY <1>7, KeyAssumption DEF Arrive, Goto, OneFlight, Flying, Leading, TypeOK
<1>8. ASSUME NEW k \in Key, Expire(k) \/ Drop(k) \/ Change(k) PROVE OneFlight'
    BY <1>8 DEF Expire, Drop, Change, OneFlight, Flying, Leading
<1>9. CASE Tick \/ UNCHANGED vars
    BY <1>9 DEF Tick, vars, OneFlight, Flying, Leading
<1> QED
    BY <1>1, <1>2, <1>3, <1>4, <1>5, <1>6, <1>7, <1>8, <1>9, Ways DEF Next, GoesOn

-----------------------------------------------------------------------------
(* The cooldown of failures.                                                *)

\* The table never has to give a failure up for another.
RoomForAll == IsFiniteSet(Key) /\ Cardinality(Key) < MaxFailures

LEMMA NoneForgotten ==
  ASSUME RoomForAll, TypeOK
  PROVE  WithRoom(Live) = {Live}
<1>1. Listed(Live) \subseteq Key
    BY DEF Listed
<1>2. Cardinality(Listed(Live)) <= Cardinality(Key)
    BY <1>1, FS_Subset DEF RoomForAll
<1>3. Cardinality(Listed(Live)) \in Nat /\ Cardinality(Key) \in Nat
    BY <1>1, FS_Subset, FS_CardinalityType DEF RoomForAll
<1> QED
    BY <1>2, <1>3, TableAssumption DEF WithRoom, RoomForAll

\* The end of a flight records its failure and forgets no other.
LEMMA CoolEnd ==
  ASSUME RoomForAll, TypeOK, OneFlight, Cool, NEW r \in Request, EndFlight(r)
  PROVE  Cool'
<1> DEFINE k == key[r]
<1>1. k \in Key /\ answer[r].err \in ErrorNames
    BY DEF EndFlight, OneFlight, TypeOK
<1>2. \A q \in Request : pc'[q] \in {"recheck", "download", "receive"} =>
          pc'[q] = pc[q] /\ key[q] # k /\ key[q] \in Key
    BY DEF EndFlight, Goto, OneFlight, Flying, Leading, TypeOK
<1>3. now' = now /\ key' = key /\ force' = force
    BY DEF EndFlight, asked, world
<1>4. \A j \in Key \ {k} : last'[j] = last[j]
    BY <1>1 DEF EndFlight, TypeOK
<1>5. \A j \in Key \ {k} : now < last[j].until => failures'[j] = failures[j]
    <2>1. CASE answer[r].err = "nil"
        BY <1>1, <2>1 DEF EndFlight, Recorded, TypeOK
    <2>2. CASE answer[r].err \in {"cancelled", "capacity"}
        BY <1>1, <2>2 DEF EndFlight, Recorded, TypeOK
    <2>3. CASE answer[r].err \notin {"nil", "cancelled", "capacity"}
        <3>1. failures' = [Live EXCEPT ![k] = now + Cooldown]
            BY <2>3, NoneForgotten DEF EndFlight, Recorded
        <3>2. ASSUME NEW j \in Key \ {k}, now < last[j].until PROVE now < failures[j]
            BY <3>2 DEF Cool, TypeOK
        <3> QED
            BY <1>1, <3>1, <3>2 DEF Live
    <2> QED
        BY <2>1, <2>2, <2>3
<1>6. now < last'[k].until => failures'[k] >= last'[k].until
    <2>1. CASE answer[r].err = "nil"
        <3>1. last'[k].until = 0
            BY <1>1, <2>1 DEF EndFlight, TypeOK
        <3> QED
            BY <3>1 DEF TypeOK
    <2>2. CASE answer[r].err \in {"cancelled", "capacity"}
        <3>1. last' = last /\ failures' = failures
            BY <1>1, <2>2 DEF EndFlight, Recorded, TypeOK
        <3> QED
            BY <1>1, <3>1 DEF Cool
    <2>3. CASE answer[r].err \notin {"nil", "cancelled", "capacity"}
        <3>1. failures' = [Live EXCEPT ![k] = now + Cooldown]
            BY <2>3, NoneForgotten DEF EndFlight, Recorded
        <3>2. last' = [last EXCEPT ![k] = [class |-> answer[r].err, until |-> now + Cooldown]]
            BY <2>3 DEF EndFlight
        <3>3. failures'[k] = now + Cooldown /\ last'[k].until = now + Cooldown
            BY <1>1, <3>1, <3>2 DEF Live, TypeOK
        <3> QED
            BY <3>3, CooldownAssumption DEF TypeOK
    <2> QED
        BY <2>1, <2>2, <2>3
<1>7. \A j \in Key : now' < last'[j].until => failures'[j] >= last'[j].until
    BY <1>3, <1>4, <1>5, <1>6 DEF Cool
<1>8. CooldownKept'
    BY <1>2, <1>3, <1>4 DEF CooldownKept, Cool
<1> QED
    BY <1>7, <1>8 DEF Cool

LEMMA CoolStep ==
  ASSUME RoomForAll, TypeOK, OneFlight, Cool, [Next]_vars
  PROVE  Cool'
<1> USE DEF asked, leading, shared, world
<1>1. ASSUME NEW r \in Request, Quits(r) \/ Copies(r) PROVE Cool'
    BY <1>1 DEF Quits, Copies, Ends, Goto, Place, Cool, CooldownKept, TypeOK
<1>2. ASSUME NEW r \in Request, LookupMiss(r) \/ Join(r) PROVE Cool'
    BY <1>2 DEF LookupMiss, Join, Goto, Cool, CooldownKept, TypeOK
<1>3. ASSUME NEW r \in Request, Lead(r) PROVE Cool'
    <2>1. key[r] \in Key /\ now \in Nat /\ failures[key[r]] \in Nat /\ last[key[r]].until \in Nat
        BY <1>3, CooldownAssumption DEF Lead, OneFlight, TypeOK
    <2>2. force[r] = 0 => now >= last[key[r]].until
        BY <1>3, <2>1 DEF Lead, Cooling, Cool
    <2>3. \A q \in Request : q # r => pc'[q] = pc[q]
        BY <1>3 DEF Lead, Goto, TypeOK
    <2>4. CooldownKept'
        BY <1>3, <2>2, <2>3 DEF Lead, Cool, CooldownKept
    <2> QED
        BY <1>3, <2>4 DEF Lead, Cool
<1>4. ASSUME NEW r \in Request, RecheckMiss(r) \/ RespondOK(r) \/ RespondNotModified(r) \/ Received(r) \/ Store(r)
      PROVE Cool'
    <2>1. pc'[r] \in {"recheck", "download", "receive"} => pc[r] \in {"recheck", "download", "receive"}
        BY <1>4 DEF RecheckMiss, RespondOK, RespondNotModified, Received, Store, Goto, TypeOK
    <2>2. \A q \in Request : q # r => pc'[q] = pc[q]
        BY <1>4 DEF RecheckMiss, RespondOK, RespondNotModified, Received, Store, Goto, TypeOK
    <2>3. UNCHANGED <<key, force, now, last, failures>>
        BY <1>4 DEF RecheckMiss, RespondOK, RespondNotModified, Received, Store
    <2>4. CooldownKept'
        BY <2>1, <2>2, <2>3 DEF Cool, CooldownKept
    <2> QED
        BY <2>3, <2>4 DEF Cool
<1>5. ASSUME NEW r \in Request, NEW k \in Key, NEW forced \in BOOLEAN, Arrive(r, k, forced) PROVE Cool'
    BY <1>5 DEF Arrive, Goto, Cool, CooldownKept, TypeOK
<1>6. ASSUME NEW k \in Key, Expire(k) \/ Drop(k) \/ Change(k) PROVE Cool'
    BY <1>6 DEF Expire, Drop, Change, Cool, CooldownKept
<1>7. CASE Tick
    <2>1. now' = now + 1 /\ now \in Nat /\ UNCHANGED <<pc, key, force, last, failures>>
        BY <1>7 DEF Tick, TypeOK
    <2>2. \A k \in Key : last[k].until \in Nat
        BY DEF TypeOK
    <2>3. \A k \in Key : now' < last[k].until => failures[k] >= last[k].until
        BY <2>1, <2>2 DEF Cool
    <2>4. CooldownKept'
        <3> SUFFICES ASSUME NEW q \in Request, pc[q] \in {"recheck", "download", "receive"}, force[q] = 0
                     PROVE  now' >= last[key[q]].until
            BY <2>1 DEF CooldownKept
        <3>1. key[q] \in Key /\ now >= last[key[q]].until
            BY DEF Cool, CooldownKept, OneFlight
        <3> QED
            BY <2>1, <2>2, <3>1
    <2> QED
        BY <2>1, <2>3, <2>4 DEF Cool
<1>8. CASE UNCHANGED vars
    BY <1>8 DEF vars, Cool, CooldownKept
<1> QED
    BY <1>1, <1>2, <1>3, <1>4, <1>5, <1>6, <1>7, <1>8, CoolEnd, Ways DEF Next, GoesOn

-----------------------------------------------------------------------------
(* Contents only go forward.                                                *)

\* Types of the numbers that are compared.
LEMMA Numbers ==
  ASSUME TypeOK
  PROVE  /\ \A k \in Key : entry[k].version \in Nat /\ entry[k].tag \in Nat /\ upstream[k] \in Nat
                            /\ entry[k].validated \in Nat
         /\ \A r \in Request : held[r].version \in Nat /\ held[r].tag \in Nat /\ past[r] \in Nat
         /\ \A r \in Request : answer[r].version \in Nat /\ answer[r].validated \in Nat
         /\ \A r \in Request : force[r] \in Nat /\ stamp[r] \in Nat
  BY DEF TypeOK, Entries, Contents

LEMMA ForwardQuits ==
  ASSUME TypeOK, OneFlight, Forward, NEW r \in Request, Quits(r)
  PROVE  Forward'
<1>1. /\ \A q \in Request \ {r} : answer'[q] = answer[q]
      /\ answer'[r].err # "nil" /\ answer'[r].version = answer[r].version
    BY QuitsAnswer
<1>2. UNCHANGED <<key, entry, upstream, past>>
    BY DEF Quits, Ends, asked, world
<1>3. /\ \A q \in Request \ {r} : pc'[q] = pc[q] /\ held'[q] = held[q]
      /\ pc'[r] \in {"leave", "done"} /\ pc[r] # "idle"
      /\ held'[r] = [version |-> 0, tag |-> 0]
    BY DEF Quits, Ends, Goto, Place, Leading, Content, NoEntry, TypeOK
<1>4. \A q \in Request, k \in Key : Same(q, k)' <=> Same(q, k)
    BY <1>2, <1>3 DEF Same
<1>5. \A q \in Request : answer'[q].version = answer[q].version
    BY <1>1
<1>6. \A q \in Request : pc'[q] \in {"receive", "store"} =>
            q # r /\ pc'[q] = pc[q] /\ held'[q] = held[q] /\ key[q] \in Key
    BY <1>3 DEF OneFlight
<1> QED
    BY <1>1, <1>2, <1>3, <1>4, <1>5, <1>6 DEF Forward

LEMMA ForwardCopies ==
  ASSUME TypeOK, OneFlight, Forward, NEW r \in Request, Copies(r)
  PROVE  Forward'
<1> DEFINE e == entry[key[r]]
<1>1. /\ \A q \in Request \ {r} : answer'[q] = answer[q]
      /\ answer'[r].version = e.version
    BY CopiesAnswer
<1>2. UNCHANGED <<key, entry, upstream, past>>
    BY DEF Copies, Ends, asked, world
<1>3. /\ \A q \in Request \ {r} : pc'[q] = pc[q] /\ held'[q] = held[q]
      /\ pc'[r] \in {"leave", "done"} /\ pc[r] # "idle"
      /\ held'[r] = [version |-> 0, tag |-> 0]
    BY DEF Copies, Ends, Goto, Place, Leading, Content, NoEntry, TypeOK
<1>4. \A q \in Request, k \in Key : Same(q, k)' <=> Same(q, k)
    BY <1>2, <1>3 DEF Same
<1>5. e.state # "none" /\ key[r] \in Key /\ Same(r, key[r])
    BY <1>3 DEF Copies, OneFlight, Same
<1>6. past[r] <= e.version /\ e.version <= upstream[key[r]]
    BY <1>5 DEF Forward
<1>7. \A q \in Request : pc'[q] \in {"receive", "store"} =>
            q # r /\ pc'[q] = pc[q] /\ held'[q] = held[q] /\ key[q] \in Key
    BY <1>3 DEF OneFlight
<1>8. \A q, d \in Request : pc'[d] \in {"receive", "store"} /\ Same(q, key[d])' =>
            answer'[q].version <= held'[d].version /\ past'[q] <= held'[d].version
    <2> SUFFICES ASSUME NEW q \in Request, NEW d \in Request, pc'[d] \in {"receive", "store"}, Same(q, key[d])'
                 PROVE  answer'[q].version <= held'[d].version /\ past'[q] <= held'[d].version
        OBVIOUS
    <2>1. Same(q, key[d]) /\ pc[d] = pc'[d] /\ held'[d] = held[d] /\ key[d] \in Key
        BY <1>2, <1>4, <1>7
    <2>2. CASE q = r
        BY <1>1, <1>2, <2>1, <2>2 DEF Forward, Same
    <2>3. CASE q # r
        BY <1>1, <1>2, <2>1, <2>3 DEF Forward
    <2> QED
        BY <2>2, <2>3
<1>9. \A q \in Request, k \in Key : Same(q, k)' =>
          /\ answer'[q].version <= upstream[k] /\ past[q] <= upstream[k]
          /\ entry[k].state # "none" => answer'[q].version <= entry[k].version /\ past[q] <= entry[k].version
    <2> SUFFICES ASSUME NEW q \in Request, NEW k \in Key, Same(q, k)
                 PROVE  /\ answer'[q].version <= upstream[k] /\ past[q] <= upstream[k]
                        /\ entry[k].state # "none" =>
                              answer'[q].version <= entry[k].version /\ past[q] <= entry[k].version
        BY <1>4
    <2>1. CASE q = r
        BY <1>1, <1>5, <1>6, <2>1, Numbers DEF Forward, Same
    <2>2. CASE q # r
        BY <1>1, <2>2 DEF Forward
    <2> QED
        BY <2>1, <2>2
<1> QED
    BY <1>1, <1>2, <1>3, <1>6, <1>7, <1>8, <1>9 DEF Forward

\* Two requests of one key are not both in a flight.
LEMMA OneLeader ==
  ASSUME OneFlight, NEW r \in Request, NEW q \in Request, Flying(r), Flying(q), key[r] = key[q]
  PROVE  r = q
  BY DEF OneFlight

LEMMA ForwardArrive ==
  ASSUME TypeOK, OneFlight, Forward, NEW r \in Request, NEW k \in Key, NEW forced \in BOOLEAN,
         Arrive(r, k, forced), Blank
  PROVE  Forward'
<1>1. PICK v \in Answers(k) : past' = [past EXCEPT ![r] = v]
    BY DEF Arrive
<1>2. /\ pc[r] = "idle" /\ pc' = [pc EXCEPT ![r] = "lookup"]
      /\ key' = [key EXCEPT ![r] = k] /\ UNCHANGED <<held, answer, entry, upstream>>
    BY DEF Arrive, Goto, leading, world
<1>3. v \in Nat /\ v <= upstream[k] /\ (entry[k].state # "none" => v <= entry[k].version)
    <2>1. CASE v = 0
        BY <2>1, Numbers
    <2>2. ASSUME NEW q \in Request, key[q] = k, pc[q] = "done", v = answer[q].version
          PROVE  v \in Nat /\ v <= upstream[k] /\ (entry[k].state # "none" => v <= entry[k].version)
        BY <2>2, Numbers DEF Forward, Same
    <2> QED
        BY <1>1, <2>1, <2>2 DEF Answers
<1>4. \A d \in Request : pc'[d] \in {"receive", "store"} => d # r /\ pc'[d] = pc[d] /\ key'[d] = key[d]
    BY <1>2 DEF TypeOK
<1>5. \A d \in Request : pc'[d] \in {"receive", "store"} /\ key[d] = k => v <= held[d].version
    <2>1. CASE v = 0
        BY <2>1, Numbers
    <2>2. ASSUME NEW q \in Request, key[q] = k, pc[q] = "done", v = answer[q].version
          PROVE  \A d \in Request : pc'[d] \in {"receive", "store"} /\ key[d] = k => v <= held[d].version
        BY <1>4, <2>2 DEF Forward, Same
    <2> QED
        BY <1>1, <2>1, <2>2 DEF Answers
<1>6. \A q \in Request, j \in Key : q # r => (Same(q, j)' <=> Same(q, j))
    BY <1>2 DEF Same, TypeOK
<1>7. \A j \in Key : Same(r, j)' => j = k
    BY <1>2 DEF Same, TypeOK
<1>8. answer[r].version = 0 /\ past'[r] = v /\ \A q \in Request \ {r} : past'[q] = past[q]
    BY <1>1, <1>2 DEF Blank, TypeOK
<1>9. \A q \in Request, j \in Key : Same(q, j)' =>
          /\ answer[q].version <= upstream[j] /\ past'[q] <= upstream[j]
          /\ entry[j].state # "none" => answer[q].version <= entry[j].version /\ past'[q] <= entry[j].version
    <2> SUFFICES ASSUME NEW q \in Request, NEW j \in Key, Same(q, j)'
                 PROVE  /\ answer[q].version <= upstream[j] /\ past'[q] <= upstream[j]
                        /\ entry[j].state # "none" =>
                              answer[q].version <= entry[j].version /\ past'[q] <= entry[j].version
        OBVIOUS
    <2>1. CASE q = r
        BY <1>3, <1>7, <1>8, <2>1, Numbers
    <2>2. CASE q # r
        BY <1>6, <1>8, <2>2 DEF Forward
    <2> QED
        BY <2>1, <2>2
<1>10. \A q, d \in Request : pc'[d] \in {"receive", "store"} /\ Same(q, key[d])' =>
            answer[q].version <= held[d].version /\ past'[q] <= held[d].version
    <2> SUFFICES ASSUME NEW q \in Request, NEW d \in Request, pc'[d] \in {"receive", "store"}, Same(q, key[d])'
                 PROVE  answer[q].version <= held[d].version /\ past'[q] <= held[d].version
        OBVIOUS
    <2>1. pc[d] = pc'[d] /\ key'[d] = key[d] /\ key[d] \in Key
        BY <1>4 DEF OneFlight
    <2>2. CASE q = r
        BY <1>5, <1>7, <1>8, <2>1, <2>2, Numbers
    <2>3. CASE q # r
        BY <1>6, <1>8, <2>1, <2>3 DEF Forward
    <2> QED
        BY <2>2, <2>3
<1>11. \A q \in Request : pc'[q] \in {"leave", "done"} => q # r /\ pc[q] = pc'[q]
    BY <1>2 DEF TypeOK
<1> QED
    BY <1>2, <1>4, <1>8, <1>9, <1>10, <1>11 DEF Forward

\* A leader takes what it may revalidate, or upstream's newest content.
LEMMA ForwardHeld ==
  ASSUME TypeOK, OneFlight, Forward, NEW r \in Request, RecheckMiss(r) \/ RespondOK(r)
  PROVE  Forward'
<1> DEFINE k == key[r]
<1>1. Flying(r) /\ k \in Key /\ pc[r] # "idle"
    BY DEF RecheckMiss, RespondOK, OneFlight, Flying, Leading
<1>2. UNCHANGED <<key, answer, entry, upstream, past>>
    BY DEF RecheckMiss, RespondOK, asked, world
<1>3. /\ \A q \in Request \ {r} : pc'[q] = pc[q] /\ held'[q] = held[q]
      /\ pc'[r] \in {"download", "receive"}
    BY DEF RecheckMiss, RespondOK, Goto, TypeOK
<1>4. held'[r].tag \in {0, held'[r].version}
    <2>1. CASE RecheckMiss(r)
        BY <1>1, <2>1 DEF RecheckMiss, Content, Forward, TypeOK
    <2>2. CASE RespondOK(r)
        <3>1. PICK tag \in {0, upstream[k]} : held' = [held EXCEPT ![r] = NewContent(r, upstream[k], tag)]
            BY <2>2 DEF RespondOK
        <3>2. held'[r] = [version |-> upstream[k], tag |-> tag]
            BY <3>1 DEF NewContent, TypeOK
        <3> QED
            BY <3>1, <3>2
    <2> QED
        BY <2>1, <2>2
<1>5. pc'[r] = "receive" => held'[r].version = upstream[k]
    <2>1. CASE RecheckMiss(r)
        BY <2>1 DEF RecheckMiss, Goto, TypeOK
    <2>2. CASE RespondOK(r)
        <3>1. PICK tag \in {0, upstream[k]} : held' = [held EXCEPT ![r] = NewContent(r, upstream[k], tag)]
            BY <2>2 DEF RespondOK
        <3> QED
            BY <3>1 DEF NewContent, TypeOK
    <2> QED
        BY <2>1, <2>2
<1>6. \A q \in Request, j \in Key : Same(q, j)' <=> Same(q, j)
    BY <1>1, <1>2, <1>3 DEF Same
<1>7. \A d \in Request : pc'[d] \in {"receive", "store"} =>
          /\ key[d] \in Key
          /\ held'[d].version <= upstream[key[d]] /\ entry[key[d]].version <= held'[d].version
    BY <1>1, <1>3, <1>5, Numbers DEF Forward, OneFlight
<1>8. \A q, d \in Request : pc'[d] \in {"receive", "store"} /\ Same(q, key[d]) =>
            answer[q].version <= held'[d].version /\ past[q] <= held'[d].version
    BY <1>1, <1>3, <1>5 DEF Forward
<1>9. \A q \in Request : pc'[q] \in {"leave", "done"} => pc[q] = pc'[q]
    BY <1>3
<1> QED
    BY <1>2, <1>3, <1>4, <1>6, <1>7, <1>8, <1>9 DEF Forward

\* Nothing is stored that is older than what is known of its source.
LEMMA ForwardStore ==
  ASSUME TypeOK, OneFlight, Forward, NEW r \in Request,
         RespondNotModified(r) \/ Received(r) \/ Store(r)
  PROVE  Forward'
<1> DEFINE k == key[r]
<1>1. Flying(r) /\ k \in Key /\ pc[r] # "idle"
    BY DEF RespondNotModified, Received, Store, OneFlight, Flying, Leading
<1>2. UNCHANGED <<key, answer, held, upstream, past>>
    BY DEF RespondNotModified, Received, Store, asked, world, leading
<1>3. /\ \A q \in Request \ {r} : pc'[q] = pc[q]
      /\ pc'[r] \in {"store", "reread"} /\ (Store(r) => pc[r] = "store" /\ pc'[r] = "reread")
    BY DEF RespondNotModified, Received, Store, Goto, TypeOK
<1>4. \A q \in Request, j \in Key : Same(q, j)' <=> Same(q, j)
    BY <1>1, <1>2, <1>3 DEF Same
<1>5. \A q \in Request : pc'[q] \in {"leave", "done"} => pc[q] = pc'[q]
    BY <1>3
<1>6. CASE RespondNotModified(r) \/ Received(r)
    <2>1. entry' = entry
        BY <1>6 DEF RespondNotModified, Received
    <2>2. held[r].version <= upstream[k] /\ entry[k].version <= held[r].version
        <3>1. CASE RespondNotModified(r)
            BY <1>1, <3>1, Numbers DEF RespondNotModified, Forward
        <3>2. CASE Received(r)
            BY <1>1, <3>2 DEF Received, Forward
        <3> QED
            BY <1>6, <3>1, <3>2
    <2>3. \A q \in Request : Same(q, k) => answer[q].version <= held[r].version /\ past[q] <= held[r].version
        <3>1. CASE RespondNotModified(r)
            <4>1. held[r].version = upstream[k]
                BY <3>1, Numbers DEF RespondNotModified, Forward
            <4> QED
                BY <1>1, <4>1 DEF Forward
        <3>2. CASE Received(r)
            BY <1>1, <3>2 DEF Received, Forward
        <3> QED
            BY <1>6, <3>1, <3>2
    <2>4. \A d \in Request : pc'[d] \in {"receive", "store"} =>
              key[d] \in Key /\ held[d].version <= upstream[key[d]] /\ entry[key[d]].version <= held[d].version
        BY <1>1, <1>3, <2>2 DEF Forward, OneFlight
    <2>5. \A q, d \in Request : pc'[d] \in {"receive", "store"} /\ Same(q, key[d]) =>
              answer[q].version <= held[d].version /\ past[q] <= held[d].version
        BY <1>3, <2>3 DEF Forward
    <2> QED
        BY <1>2, <1>4, <1>5, <2>1, <2>4, <2>5 DEF Forward, OneFlight
<1>7. CASE Store(r)
    <2>1. entry' = [entry EXCEPT ![k] = [state |-> "fresh", version |-> held[r].version,
                                         tag |-> held[r].tag, validated |-> stamp[r]]]
        BY <1>7 DEF Store
    <2>2. /\ entry'[k].version = held[r].version /\ entry'[k].tag = held[r].tag
          /\ \A j \in Key \ {k} : entry'[j] = entry[j]
        BY <1>1, <2>1 DEF TypeOK
    <2>3. \A d \in Request : pc'[d] \in {"receive", "store"} => pc[d] = pc'[d] /\ key[d] \in Key /\ key[d] # k
        BY <1>1, <1>3, <1>7, OneLeader DEF Flying, Leading, OneFlight
    <2>4. \A j \in Key : entry'[j].tag \in {0, entry'[j].version} /\ entry'[j].version <= upstream[j]
        BY <1>3, <1>7, <2>2 DEF Forward
    <2>5. \A q \in Request, j \in Key : Same(q, j) =>
              /\ answer[q].version <= upstream[j] /\ past[q] <= upstream[j]
              /\ entry'[j].state # "none" =>
                    answer[q].version <= entry'[j].version /\ past[q] <= entry'[j].version
        BY <1>3, <1>7, <2>2 DEF Forward
    <2>6. \A d \in Request : pc'[d] \in {"receive", "store"} =>
              held[d].version <= upstream[key[d]] /\ entry'[key[d]].version <= held[d].version
        BY <2>2, <2>3 DEF Forward
    <2>7. \A q, d \in Request : pc'[d] \in {"receive", "store"} /\ Same(q, key[d]) =>
              answer[q].version <= held[d].version /\ past[q] <= held[d].version
        BY <2>3 DEF Forward
    <2> QED
        BY <1>2, <1>4, <1>5, <2>3, <2>4, <2>5, <2>6, <2>7 DEF Forward
<1> QED
    BY <1>6, <1>7

LEMMA BlankStep ==
  ASSUME TypeOK, OneFlight, Blank, [Next]_vars
  PROVE  Blank'
<1> USE DEF asked, leading, shared, world
<1>1. ASSUME NEW r \in Request, Quits(r) \/ Copies(r) PROVE Blank'
    <2>1. \A q \in Request \ {r} : answer'[q] = answer[q]
        BY <1>1, QuitsAnswer, CopiesAnswer
    <2>2. pc'[r] # "idle" /\ \A q \in Request \ {r} : pc'[q] = pc[q]
        BY <1>1 DEF Quits, Copies, Ends, Goto, Place, TypeOK
    <2> QED
        BY <2>1, <2>2 DEF Blank
<1>2. ASSUME NEW r \in Request, GoesOn(r) PROVE Blank'
    <2>1. answer' = answer
        BY <1>2 DEF GoesOn, LookupMiss, Join, Lead, RecheckMiss, RespondOK, RespondNotModified, Received, Store,
                    EndFlight
    <2>2. \A q \in Request : pc'[q] = "idle" => pc[q] = "idle"
        BY <1>2 DEF GoesOn, LookupMiss, Join, Lead, RecheckMiss, RespondOK, RespondNotModified, Received, Store,
                    EndFlight, Goto, TypeOK
    <2> QED
        BY <2>1, <2>2 DEF Blank
<1>3. ASSUME NEW r \in Request, NEW k \in Key, NEW forced \in BOOLEAN, Arrive(r, k, forced) PROVE Blank'
    BY <1>3 DEF Arrive, Goto, Blank, TypeOK
<1>4. ASSUME NEW k \in Key, Expire(k) \/ Drop(k) \/ Change(k) PROVE Blank'
    BY <1>4 DEF Expire, Drop, Change, Blank
<1>5. CASE Tick \/ UNCHANGED vars
    BY <1>5 DEF Tick, vars, Blank
<1> QED
    BY <1>1, <1>2, <1>3, <1>4, <1>5, Ways DEF Next

\* Steps that only move a request on, and none into the places that Forward is about.
LEMMA ForwardMoves ==
  ASSUME TypeOK, OneFlight, Forward, NEW r \in Request,
         LookupMiss(r) \/ Join(r) \/ Lead(r) \/ EndFlight(r)
  PROVE  Forward'
<1>1. UNCHANGED <<key, answer, held, entry, upstream, past>>
    BY DEF LookupMiss, Join, Lead, EndFlight, asked, leading, world
<1>2. \A q \in Request : /\ pc'[q] = "idle" <=> pc[q] = "idle"
                         /\ pc'[q] \in {"receive", "store"} => pc[q] = pc'[q]
                         /\ pc'[q] \in {"leave", "done"} => pc[q] \in {"leave", "done"}
    BY DEF LookupMiss, Join, Lead, EndFlight, Goto, TypeOK
<1>3. \A q \in Request, j \in Key : Same(q, j)' <=> Same(q, j)
    BY <1>1, <1>2 DEF Same
<1>4. \A d \in Request : pc'[d] \in {"receive", "store"} => key[d] \in Key
    BY <1>2 DEF OneFlight
<1> QED
    BY <1>1, <1>2, <1>3, <1>4 DEF Forward

LEMMA ForwardWorld ==
  ASSUME TypeOK, OneFlight, Forward, NEW k \in Key, Expire(k) \/ Drop(k) \/ Change(k)
  PROVE  Forward'
<1>1. UNCHANGED <<pc, key, answer, held, past>>
    BY DEF Expire, Drop, Change, asked, leading
<1>2. \A j \in Key : upstream[j] <= upstream'[j] /\ upstream'[j] \in Nat
    BY Numbers DEF Expire, Drop, Change, world, TypeOK
<1>3. \A j \in Key : /\ entry'[j].version \in {0, entry[j].version}
                     /\ entry'[j].tag \in {0, entry'[j].version}
                     /\ entry'[j].state # "none" =>
                            entry[j].state # "none" /\ entry'[j].version = entry[j].version
    <2>1. CASE Expire(k)
        <3>1. \A j \in Key : entry'[j].version = entry[j].version /\ entry'[j].tag = entry[j].tag
            BY <2>1 DEF Expire, Entries, TypeOK
        <3>2. \A j \in Key : entry'[j].state # "none" => entry[j].state # "none"
            BY <2>1 DEF Expire, Entries, TypeOK
        <3> QED
            BY <3>1, <3>2 DEF Forward
    <2>2. CASE Drop(k)
        BY <2>2 DEF Drop, NoEntry, Forward, TypeOK
    <2>3. CASE Change(k)
        BY <2>3 DEF Change, Forward
    <2> QED
        BY <2>1, <2>2, <2>3
<1>4. \A q \in Request, j \in Key : Same(q, j)' <=> Same(q, j)
    BY <1>1 DEF Same
<1>5. \A r \in Request : pc[r] \in {"receive", "store"} => key[r] \in Key
    BY DEF OneFlight
<1>6. \A j \in Key : entry'[j].tag \in {0, entry'[j].version} /\ entry'[j].version <= upstream'[j]
    BY <1>2, <1>3, Numbers DEF Forward
<1>7. \A r \in Request : pc[r] \in {"receive", "store"} =>
          held[r].version <= upstream'[key[r]] /\ entry'[key[r]].version <= held[r].version
    BY <1>2, <1>3, <1>5, Numbers DEF Forward
<1>8. \A q \in Request, j \in Key : Same(q, j) =>
          /\ answer[q].version <= upstream'[j] /\ past[q] <= upstream'[j]
          /\ entry'[j].state # "none" => answer[q].version <= entry'[j].version /\ past[q] <= entry'[j].version
    BY <1>2, <1>3, Numbers DEF Forward
<1>9. \A q, r \in Request : pc[r] \in {"receive", "store"} /\ Same(q, key[r])' =>
          answer[q].version <= held[r].version /\ past[q] <= held[r].version
    BY <1>1 DEF Forward, Same
<1> QED
    BY <1>1, <1>4, <1>6, <1>7, <1>8, <1>9 DEF Forward

LEMMA ForwardStep ==
  ASSUME TypeOK, OneFlight, Forward, Blank, [Next]_vars
  PROVE  Forward'
<1>1. CASE Tick \/ UNCHANGED vars
    BY <1>1 DEF Tick, vars, asked, leading, Forward, Same
<1> QED
    BY <1>1, Ways, ForwardQuits, ForwardCopies, ForwardMoves, ForwardHeld, ForwardStore, ForwardArrive, ForwardWorld
       DEF Next, GoesOn

-----------------------------------------------------------------------------
(* Forced requests.                                                         *)

\* Who returns takes what was validated since he asked, or since his leader did.
LEMMA FreshReturns ==
  ASSUME TypeOK, OneFlight, Fresh, NEW r \in Request, Quits(r) \/ Copies(r)
  PROVE  Fresh'
<1>1. /\ \A q \in Request \ {r} : answer'[q] = answer[q]
      /\ Quits(r) => answer'[r].err # "nil"
      /\ Copies(r) => answer'[r].validated = entry[key[r]].validated
    BY QuitsAnswer, CopiesAnswer
<1>2. UNCHANGED <<key, force, entry, now, closed, flight, stamp>>
    BY DEF Quits, Copies, Ends, asked, world, shared
<1>3. /\ \A q \in Request \ {r} : pc'[q] = pc[q]
      /\ pc'[r] = Place(r) /\ pc'[r] \in {"leave", "done"}
    BY DEF Quits, Copies, Ends, Goto, Place, TypeOK
<1>4. r \notin closed /\ closed \subseteq Request
    BY DEF Quits, Copies, Leading, OneFlight, TypeOK
<1>5. \A c \in closed : answer'[c] = answer[c]
    BY <1>1, <1>4
<1>6. ASSUME Copies(r) PROVE answer'[r].validated >= Floor(r) /\ (Leading(r) => answer'[r].validated >= force[r])
    <2>1. key[r] \in Key /\ entry[key[r]].state = "fresh"
        BY <1>6 DEF Copies, OneFlight
    <2>2. CASE pc[r] \in {"lookup", "recheck"}
        <3>1. entry[key[r]].validated >= force[r]
            BY <1>6, <2>1, <2>2, Numbers DEF Copies, Usable
        <3>2. flight[r] \in {NoOne, r}
            BY <2>2 DEF OneFlight, Flying, Leading
        <3> QED
            BY <1>1, <1>6, <3>1, <3>2 DEF Floor
    <2>3. CASE pc[r] = "reread"
        <3>1. entry[key[r]].validated >= force[r]
            BY <2>1, <2>3 DEF Fresh
        <3>2. flight[r] = r
            BY <2>3 DEF OneFlight, Flying, Leading
        <3> QED
            BY <1>1, <1>6, <3>1, <3>2 DEF Floor
    <2>4. CASE pc[r] = "wait"
        <3>1. flight[r] \in closed /\ flight[r] \in Request /\ key[flight[r]] = key[r] /\ answer[flight[r]].err = "nil"
            BY <1>6, <2>4 DEF Copies, Ended, OneFlight
        <3>2. entry[key[r]].validated >= force[flight[r]]
            BY <2>1, <3>1 DEF Fresh
        <3>3. ~Leading(r)
            BY <2>4 DEF Leading
        <3>4. Floor(r) <= force[flight[r]]
            <4>1. force[r] \in Nat /\ force[flight[r]] \in Nat /\ flight[r] # NoOne
                BY <3>1, Numbers, KeyAssumption
            <4>2. CASE flight[r] = r
                BY <4>1, <4>2 DEF Floor
            <4>3. CASE flight[r] # r /\ force[r] < force[flight[r]]
                BY <4>1, <4>3 DEF Floor
            <4>4. CASE flight[r] # r /\ ~(force[r] < force[flight[r]])
                BY <4>1, <4>4 DEF Floor
            <4> QED
                BY <4>2, <4>3, <4>4
        <3>5. Floor(r) \in Nat /\ entry[key[r]].validated \in Nat /\ force[flight[r]] \in Nat
            BY <2>1, <3>1, Numbers DEF Floor
        <3> QED
            BY <1>1, <1>6, <3>2, <3>3, <3>4, <3>5
    <2> QED
        BY <1>6, <2>2, <2>3, <2>4 DEF Copies
<1>7. Leading(r) => pc'[r] = "leave"
    BY <1>3 DEF Place
<1>8. ~Leading(r) => pc'[r] = "done"
    BY <1>3 DEF Place
<1>9. ASSUME pc'[r] = "leave", answer'[r].err = "nil", entry[key[r]].state = "fresh"
      PROVE  entry[key[r]].validated >= force[r]
    BY <1>1, <1>6, <1>8, <1>9
<1>10. Revalidated'
    <2> SUFFICES ASSUME NEW q \in Request, Given(q)' PROVE answer'[q].validated >= Floor(q)
        BY <1>2 DEF Revalidated, Floor
    <2>1. CASE q = r
        BY <1>1, <1>6, <2>1 DEF Given
    <2>2. CASE q # r
        BY <1>1, <1>3, <2>2 DEF Given, Fresh, Revalidated
    <2> QED
        BY <2>1, <2>2
<1>11. \A d \in Request :
          /\ pc'[d] = "reread" \/ (pc'[d] = "leave" /\ answer'[d].err = "nil")
          /\ entry[key[d]].state = "fresh"
          => entry[key[d]].validated >= force[d]
    BY <1>1, <1>3, <1>9 DEF Fresh
<1>12. \A q \in Request : pc'[q] = "leave" /\ answer'[q].err = "nil" => answer'[q].validated >= force[q]
    BY <1>1, <1>3, <1>6, <1>8 DEF Fresh
<1> QED
    BY <1>2, <1>3, <1>4, <1>5, <1>10, <1>11, <1>12 DEF Fresh

\* Steps that leave entries, stamps and answers alone.
LEMMA FreshMoves ==
  ASSUME TypeOK, OneFlight, Fresh, NEW r \in Request,
         LookupMiss(r) \/ Join(r) \/ Lead(r) \/ RecheckMiss(r) \/ RespondOK(r)
  PROVE  Fresh'
<1>1. UNCHANGED <<key, force, entry, now, closed, stamp, answer>>
    BY DEF LookupMiss, Join, Lead, RecheckMiss, RespondOK, asked, world, shared, leading
<1>2. \A q \in Request : pc'[q] \in {"store", "reread", "leave", "done"} => pc[q] = pc'[q] /\ flight'[q] = flight[q]
    BY DEF LookupMiss, Join, Lead, RecheckMiss, RespondOK, Goto, TypeOK
<1>3. Revalidated'
    BY <1>1, <1>2 DEF Fresh, Revalidated, Given, Floor
<1> QED
    BY <1>1, <1>2, <1>3 DEF Fresh, TypeOK

\* The stamp is the time now, and nobody has asked later.
LEMMA FreshStamp ==
  ASSUME TypeOK, OneFlight, Fresh, NEW r \in Request, RespondNotModified(r) \/ Received(r)
  PROVE  Fresh'
<1>1. UNCHANGED <<key, force, entry, now, closed, flight, answer>>
    BY DEF RespondNotModified, Received, asked, world, shared
<1>2. /\ \A q \in Request \ {r} : pc'[q] = pc[q] /\ stamp'[q] = stamp[q]
      /\ pc'[r] = "store" /\ stamp'[r] = now
    BY DEF RespondNotModified, Received, Goto, TypeOK
<1>3. Revalidated'
    BY <1>1, <1>2 DEF Fresh, Revalidated, Given, Floor
<1>4. \A d \in Request : pc'[d] = "store" =>
          /\ stamp'[d] >= force[d]
          /\ \A c \in closed : key[c] = key[d] => stamp'[d] >= force[c]
    <2> SUFFICES ASSUME NEW d \in Request, pc'[d] = "store"
                 PROVE  /\ stamp'[d] >= force[d]
                        /\ \A c \in closed : key[c] = key[d] => stamp'[d] >= force[c]
        OBVIOUS
    <2>1. CASE d = r
        BY <1>2, <2>1, Numbers DEF Fresh, TypeOK
    <2>2. CASE d # r
        BY <1>2, <2>2 DEF Fresh
    <2> QED
        BY <2>1, <2>2
<1>5. \A d \in Request : pc'[d] \in {"reread", "leave"} => pc[d] = pc'[d]
    BY <1>2
<1> QED
    BY <1>1, <1>3, <1>4, <1>5 DEF Fresh

LEMMA FreshStore ==
  ASSUME TypeOK, OneFlight, Fresh, NEW r \in Request, Store(r)
  PROVE  Fresh'
<1> DEFINE k == key[r]
<1>1. UNCHANGED <<key, force, now, closed, flight, answer, stamp>>
    BY DEF Store, asked, world, shared, leading
<1>2. /\ \A q \in Request \ {r} : pc'[q] = pc[q]
      /\ pc[r] = "store" /\ pc'[r] = "reread" /\ k \in Key
    BY DEF Store, Goto, OneFlight, TypeOK
<1>3. /\ entry'[k].validated = stamp[r]
      /\ \A j \in Key \ {k} : entry'[j] = entry[j]
    BY <1>2 DEF Store, TypeOK
<1>4. \A d \in Request \ {r} : pc[d] \in {"store", "reread", "leave"} => key[d] \in Key /\ key[d] # k
    BY <1>2, OneLeader DEF Flying, Leading, OneFlight
<1>5. Revalidated'
    BY <1>1, <1>2 DEF Fresh, Revalidated, Given, Floor
<1>6. \A j \in Key, c \in closed :
          entry'[j].state = "fresh" /\ key[c] = j /\ answer[c].err = "nil" => entry'[j].validated >= force[c]
    BY <1>2, <1>3 DEF Fresh
<1>7. \A d \in Request :
          /\ pc'[d] = "reread" \/ (pc'[d] = "leave" /\ answer[d].err = "nil")
          /\ entry'[key[d]].state = "fresh"
          => entry'[key[d]].validated >= force[d]
    BY <1>2, <1>3, <1>4 DEF Fresh
<1> QED
    BY <1>1, <1>2, <1>5, <1>6, <1>7 DEF Fresh

LEMMA FreshEnd ==
  ASSUME TypeOK, OneFlight, Fresh, NEW r \in Request, EndFlight(r)
  PROVE  Fresh'
<1>1. UNCHANGED <<key, force, entry, now, flight, answer, stamp>>
    BY DEF EndFlight, asked, world, leading
<1>2. /\ \A q \in Request \ {r} : pc'[q] = pc[q]
      /\ pc[r] = "leave" /\ pc'[r] = "done" /\ key[r] \in Key /\ flight[r] = r
    BY DEF EndFlight, Goto, OneFlight, Flying, TypeOK
<1>3. closed' = closed \cup {r}
    BY DEF EndFlight
<1>4. Revalidated'
    BY <1>1, <1>2 DEF Fresh, Revalidated, Given, Floor
<1>5. \A d \in Request \ {r} : pc[d] = "store" => key[d] # key[r]
    BY <1>2, OneLeader DEF Flying, Leading
<1>6. \A d \in Request : pc'[d] = "store" =>
          /\ stamp[d] >= force[d]
          /\ \A c \in closed' : key[c] = key[d] => stamp[d] >= force[c]
    BY <1>2, <1>3, <1>5 DEF Fresh
<1>7. \A j \in Key, c \in closed' :
          entry[j].state = "fresh" /\ key[c] = j /\ answer[c].err = "nil" => entry[j].validated >= force[c]
    BY <1>2, <1>3 DEF Fresh
<1>8. \A d \in Request : pc'[d] \in {"reread", "leave"} => pc[d] = pc'[d]
    BY <1>2
<1> QED
    BY <1>1, <1>4, <1>6, <1>7, <1>8 DEF Fresh

LEMMA FreshArrive ==
  ASSUME TypeOK, OneFlight, Fresh, NEW r \in Request, NEW k \in Key, NEW forced \in BOOLEAN, Arrive(r, k, forced)
  PROVE  Fresh'
<1>1. UNCHANGED <<entry, now, closed, flight, answer, stamp>>
    BY DEF Arrive, world, shared, leading
<1>2. /\ \A q \in Request \ {r} : pc'[q] = pc[q] /\ key'[q] = key[q] /\ force'[q] = force[q]
      /\ pc[r] = "idle" /\ pc'[r] = "lookup" /\ force'[r] \in {0, now}
    BY DEF Arrive, Goto, TypeOK
<1>3. r \notin closed /\ closed \subseteq Request /\ flight[r] = NoOne
    BY <1>2 DEF OneFlight, TypeOK
<1>4. \A q \in Request : flight[q] # r /\ flight[q] \in Request \cup {NoOne}
    BY <1>2, KeyAssumption DEF OneFlight, TypeOK
<1>5. Revalidated'
    <2> SUFFICES ASSUME NEW q \in Request, Given(q)' PROVE answer[q].validated >= Floor(q)'
        BY <1>1 DEF Revalidated
    <2>1. q # r /\ Given(q)
        BY <1>1, <1>2 DEF Given
    <2>2. Floor(q)' = Floor(q)
        BY <1>1, <1>2, <1>4, <2>1 DEF Floor
    <2> QED
        BY <2>1, <2>2 DEF Fresh, Revalidated
<1>6. \A q \in Request : force'[q] <= now
    BY <1>2, Numbers, SMTT(40) DEF Fresh, TypeOK
<1>7. \A c \in closed : force'[c] = force[c] /\ key'[c] = key[c]
    BY <1>2, <1>3
<1>8. \A d \in Request : pc'[d] \in {"store", "reread", "leave"} =>
          pc[d] = pc'[d] /\ force'[d] = force[d] /\ key'[d] = key[d]
    BY <1>2
<1> QED
    BY <1>1, <1>5, <1>6, <1>7, <1>8 DEF Fresh

LEMMA FreshWorld ==
  ASSUME TypeOK, OneFlight, Fresh, NEW k \in Key, Expire(k) \/ Drop(k) \/ Change(k)
  PROVE  Fresh'
<1>1. UNCHANGED <<pc, key, force, now, closed, flight, answer, stamp>>
    BY DEF Expire, Drop, Change, asked, world, shared, leading
<1>2. \A j \in Key : entry'[j].state = "fresh" => entry'[j] = entry[j]
    BY DEF Expire, Drop, Change, NoEntry, Entries, TypeOK
<1>3. Revalidated'
    BY <1>1 DEF Fresh, Revalidated, Given, Floor
<1>4. \A d \in Request : pc[d] \in {"reread", "leave"} => key[d] \in Key
    BY DEF OneFlight
<1> QED
    BY <1>1, <1>2, <1>3, <1>4 DEF Fresh

LEMMA FreshStep ==
  ASSUME TypeOK, OneFlight, Fresh, [Next]_vars
  PROVE  Fresh'
<1>1. CASE Tick
    <2>1. now' = now + 1 /\ UNCHANGED <<pc, key, force, closed, flight, answer, stamp, entry>>
        BY <1>1 DEF Tick, asked, shared, leading
    <2>2. \A q \in Request : force[q] <= now'
        BY <2>1, Numbers DEF Fresh, TypeOK
    <2>3. Revalidated'
        BY <2>1 DEF Fresh, Revalidated, Given, Floor
    <2> QED
        BY <2>1, <2>2, <2>3 DEF Fresh
<1>2. CASE UNCHANGED vars
    BY <1>2 DEF vars, Fresh, Revalidated, Given, Floor
<1> QED
    BY <1>1, <1>2, Ways, FreshReturns, FreshMoves, FreshStamp, FreshStore, FreshEnd, FreshArrive, FreshWorld
       DEF Next, GoesOn

-----------------------------------------------------------------------------
(* What every fetch promises.                                               *)

IInv == TypeOK /\ OneFlight /\ Blank /\ Forward /\ Fresh

LEMMA Initially == Init => IInv
<1> SUFFICES ASSUME Init PROVE IInv
    OBVIOUS
<1>1. TypeOK
    BY CooldownAssumption DEF Init, TypeOK, Content, NoEntry, NoAnswer, NoRecord, Contents, Entries, ErrorNames
<1>2. OneFlight /\ Blank
    BY DEF Init, OneFlight, Blank, NoAnswer, Flying, Leading
<1>3. Forward
    BY DEF Init, Forward, Same, Content, NoEntry
<1>4. Fresh
    BY DEF Init, Fresh, NoEntry, Revalidated, Given
<1> QED
    BY <1>1, <1>2, <1>3, <1>4 DEF IInv

LEMMA Inductive == IInv /\ [Next]_vars => IInv'
  BY TypeStep, OneFlightStep, BlankStep, ForwardStep, FreshStep DEF IInv

LEMMA Invariance == Spec => []IInv
  BY Initially, Inductive, PTL DEF Spec

\* Every variable keeps its type.
THEOREM TypeCorrect == Spec => []TypeOK
<1>1. IInv => TypeOK
    BY DEF IInv
<1> QED
    BY <1>1, Invariance, PTL

\* Nobody waits for a flight that is over: the flight he waits for is the one of the key, and
\* its leader is still under way (source.go, fetch).
THEOREM WaitersHaveLeaders == Spec => []WaitersHaveLeader
<1>1. IInv => WaitersHaveLeader
    <2> SUFFICES ASSUME IInv, NEW r \in Request, pc[r] = "wait", flight[r] \notin closed
                 PROVE  flights[key[r]] = flight[r] /\ pc[flight[r]] # "done"
        BY DEF WaitersHaveLeader
    <2>1. key[r] \in Key /\ flights[key[r]] = flight[r] /\ flight[r] \in Request
        BY DEF IInv, OneFlight
    <2>2. Flying(flight[r])
        BY <2>1, KeyAssumption DEF IInv, OneFlight
    <2> QED
        BY <2>1, <2>2 DEF Flying, Leading
<1> QED
    BY <1>1, Invariance, PTL

\* Whatever is downloaded, renewed or dropped meanwhile, nobody is given less than what
\* somebody had when he asked.
THEOREM NeverBack == Spec => []AnswersForward
<1>1. IInv => AnswersForward
    BY DEF IInv, Forward, AnswersForward, Given
<1> QED
    BY <1>1, Invariance, PTL

\* No entry has the validator of another content, so that upstream cannot renew a wrong one.
THEOREM ValidatorsBelong == Spec => []ValidatorsMatch
<1>1. IInv => ValidatorsMatch
    BY DEF IInv, Forward, ValidatorsMatch
<1> QED
    BY <1>1, Invariance, PTL

\* What a forced request is given was validated after it was asked, or after its leader was.
THEOREM ForcedIsFresh == Spec => []Revalidated
<1>1. IInv => Revalidated
    BY DEF IInv, Fresh
<1> QED
    BY <1>1, Invariance, PTL

\* With room for all sources in the table, a failed source is left alone until it has cooled
\* down, whoever was forced or cancelled meanwhile (README.md 446).
THEOREM FailuresCool ==
  ASSUME RoomForAll
  PROVE  Spec => []CooldownKept
<1>1. Init => Cool
    BY DEF Init, Cool, CooldownKept, NoRecord
<1>2. IInv /\ Cool /\ [Next]_vars => Cool'
    BY CoolStep DEF IInv
<1>3. Cool => CooldownKept
    BY DEF Cool
<1> QED
    BY <1>1, <1>2, <1>3, Invariance, PTL DEF Spec

=============================================================================
