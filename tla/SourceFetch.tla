----------------------------- MODULE SourceFetch -----------------------------
(***************************************************************************)
(* Downloads of sources for the management module: fetch and               *)
(* recordSourceResult of internal/manager/source.go.                       *)
(*                                                                         *)
(* A request is one call of fetch.  It is answered from the cache, waits   *)
(* for the flight of its key, or leads one: it looks at the cache again,   *)
(* asks upstream (with the validators of the entry it still has), stamps   *)
(* the time, stores, reads back and copies.  A failure puts the key on a   *)
(* cooldown, which ordinary requests respect and forced ones do not.  A    *)
(* forced request carries the time it was asked for, and takes nothing     *)
(* from the cache that was validated before.                               *)
(*                                                                         *)
(* DiskCache models the cache; here it has one entry for each key, fresh,  *)
(* retained or none.  The content of a source is its version, upstream's   *)
(* change counter, and the ETag of a version is that number.               *)
(*                                                                         *)
(* A request leads at most one flight, which is named after it, and its    *)
(* error is the leader's.  A context may be done at any time, so that      *)
(* wherever the code looks at it, it may be.                               *)
(*                                                                         *)
(* An operator named ...Mutant is the one below it with a plausible bug.   *)
(***************************************************************************)
EXTENDS Integers, FiniteSets

CONSTANTS
    Request, Key,
    Cooldown,     \* SourceRetryCooldown
    MaxFailures,  \* size of the table of failures
    MaxTime, MaxVersion,  \* bounds of the clock and of upstream's changes
    NoKey, NoOne

ASSUME KeyAssumption      == NoKey \notin Key /\ NoOne \notin Request
ASSUME CooldownAssumption == Cooldown \in Nat \ {0}
ASSUME TableAssumption    == MaxFailures \in Nat \ {0}
ASSUME BoundAssumption    == MaxTime \in Nat \ {0} /\ MaxVersion \in Nat \ {0}

VARIABLES
    pc,         \* where each request is in fetch
    key, force, \* what it asks for; force is the time asked, 0 when ordinary
    flight,     \* the flight it leads or waits for
    held,       \* of a leader: the content it may revalidate, then what it stores
    stamp,      \* and the Validated-At of that; 0 when it had no need to ask
    answer,     \* the error of each request, or the content it was given
    flights,    \* sourceFlights
    closed,     \* the flights whose channel is closed
    failures,   \* sourceFailures: cooling down until then; 0 when absent
    entry,      \* the cache
    upstream,   \* version upstream has of each source
    now,
    past,       \* history: newest version answered when a request arrived
    last        \* history: what the last flight recorded, and until when

vars == <<pc, key, force, flight, held, stamp, answer, flights, closed,
          failures, entry, upstream, now, past, last>>

asked    == <<key, force, past>>
leading  == <<held, stamp>>
shared   == <<flights, closed, failures, last>>
world    == <<upstream, now>>

NoEntry  == [state |-> "none", version |-> 0, tag |-> 0, validated |-> 0]
NoAnswer == [err |-> "nil", version |-> 0, validated |-> 0]
NoRecord == [class |-> "none", until |-> 0]

-----------------------------------------------------------------------------
Goto(r, place) == pc' = [pc EXCEPT ![r] = place]

Errors(r, errs) == {[answer EXCEPT ![r].err = err] : err \in errs}

\* What Get returned is copied to the caller, whose own budget or disk may not
\* have the room for it.
Copied(r) ==
    LET e == entry[key[r]]
    IN  Errors(r, {"budget", "capacity"}) \cup
        {[answer EXCEPT ![r].version = e.version, ![r].validated = e.validated]}

Content(e) == [version |-> e.version, tag |-> e.tag]

\* r returns, as a leader with the deferred closes, and has the deferred end of
\* its flight before it.
Ends(r, place, answers) ==
    /\ answer' \in answers
    /\ held' = [held EXCEPT ![r] = Content(NoEntry)]
    /\ Goto(r, place)
    /\ UNCHANGED <<asked, flight, stamp, shared, entry, world>>

\* What Cache.Get returns may be used by r.
Usable(r) ==
    LET e == entry[key[r]]
    IN  e.state = "fresh" /\ (force[r] = 0 \/ e.validated >= force[r])

Answers(k) ==
    {0} \cup {answer[q].version :
                q \in {q \in Request : key[q] = k /\ pc[q] = "done"}}

-----------------------------------------------------------------------------
Init ==
    /\ pc = [r \in Request |-> "idle"]
    /\ key = [r \in Request |-> NoKey]
    /\ force = [r \in Request |-> 0]
    /\ flight = [r \in Request |-> NoOne]
    /\ held = [r \in Request |-> Content(NoEntry)]
    /\ stamp = [r \in Request |-> 0]
    /\ answer = [r \in Request |-> NoAnswer]
    /\ flights = [k \in Key |-> NoOne]
    /\ closed = {}
    /\ failures = [k \in Key |-> 0]
    /\ entry = [k \in Key |-> NoEntry]
    /\ upstream = [k \in Key |-> 1]
    /\ now = 1
    /\ past = [r \in Request |-> 0]
    /\ last = [k \in Key |-> NoRecord]

\* An export needs a source; a forced one since now.
Arrive(r, k, forced) ==
    /\ pc[r] = "idle"
    /\ Goto(r, "lookup")
    /\ key' = [key EXCEPT ![r] = k]
    /\ force' = [force EXCEPT ![r] = IF forced THEN now ELSE 0]
    /\ \E v \in Answers(k) :
        (\A w \in Answers(k) : w <= v) /\ past' = [past EXCEPT ![r] = v]
    /\ UNCHANGED <<flight, leading, answer, shared, entry, world>>

\* CacheTTL passes: Get misses, GetRetained does not.
Expire(k) ==
    /\ entry[k].state = "fresh"
    /\ entry' = [entry EXCEPT ![k].state = "retained"]
    /\ UNCHANGED <<pc, asked, flight, leading, answer, shared, world>>

\* StaleTTL passes too, or the entry is evicted.
Drop(k) ==
    /\ entry[k].state # "none"
    /\ entry' = [entry EXCEPT ![k] = NoEntry]
    /\ UNCHANGED <<pc, asked, flight, leading, answer, shared, world>>

Change(k) ==
    /\ upstream[k] < MaxVersion
    /\ upstream' = [upstream EXCEPT ![k] = @ + 1]
    /\ UNCHANGED <<pc, asked, flight, leading, answer, shared, entry, now>>

Tick ==
    /\ now < MaxTime
    /\ now' = now + 1
    /\ UNCHANGED <<pc, asked, flight, leading, answer, shared, entry, upstream>>

-----------------------------------------------------------------------------
(* The first look at the cache, and what happens under sourceMu.            *)

AlreadyCancelled(r) ==
    /\ pc[r] = "lookup"
    /\ Ends(r, "done", Errors(r, {"cancelled"}))

LookupHit(r) ==
    /\ pc[r] = "lookup" /\ Usable(r)
    /\ Ends(r, "done", Copied(r))

LookupMiss(r) ==
    /\ pc[r] = "lookup" /\ ~Usable(r)
    /\ Goto(r, "lock")
    /\ UNCHANGED <<asked, flight, leading, answer, shared, entry, world>>

Cooling(r) == force[r] = 0 /\ now < failures[key[r]]

CoolingDown(r) ==
    /\ pc[r] = "lock" /\ Cooling(r)
    /\ Ends(r, "done", Errors(r, {"cooling"}))

Join(r) ==
    /\ pc[r] = "lock" /\ ~Cooling(r)
    /\ flights[key[r]] # NoOne
    /\ flight' = [flight EXCEPT ![r] = flights[key[r]]]
    /\ Goto(r, "wait")
    /\ UNCHANGED <<asked, leading, answer, shared, entry, world>>

\* A bug: a forced request does not look for a flight.
ForcedLeadsMutant(r) ==
    /\ pc[r] = "lock" /\ ~Cooling(r)
    /\ flights[key[r]] = NoOne \/ force[r] # 0
    /\ flight' = [flight EXCEPT ![r] = r]
    /\ flights' = [flights EXCEPT ![key[r]] = r]
    /\ Goto(r, "recheck")
    /\ UNCHANGED <<asked, leading, answer, closed, failures, last, entry, world>>

Lead(r) ==
    /\ pc[r] = "lock" /\ ~Cooling(r)
    /\ flights[key[r]] = NoOne
    /\ flight' = [flight EXCEPT ![r] = r]
    /\ flights' = [flights EXCEPT ![key[r]] = r]
    /\ Goto(r, "recheck")
    /\ UNCHANGED <<asked, leading, answer, closed, failures, last, entry, world>>

-----------------------------------------------------------------------------
(* A waiter.                                                                *)

Ended(r) == pc[r] = "wait" /\ flight[r] \in closed

WaitCancelled(r) ==
    /\ pc[r] = "wait"
    /\ Ends(r, "done", Errors(r, {"cancelled"}))

WaitError(r) ==
    /\ Ended(r) /\ answer[flight[r]].err # "nil"
    /\ Ends(r, "done", Errors(r, {answer[flight[r]].err}))

\* It reads whatever the cache has by now.
WaitHit(r) ==
    /\ Ended(r) /\ answer[flight[r]].err = "nil"
    /\ entry[key[r]].state = "fresh"
    /\ Ends(r, "done", Copied(r))

WaitMiss(r) ==
    /\ Ended(r) /\ answer[flight[r]].err = "nil"
    /\ entry[key[r]].state # "fresh"
    /\ Ends(r, "done", Errors(r, {"lost"}))

-----------------------------------------------------------------------------
(* The leader.                                                              *)

\* A bug: the second look forgets when the request was asked.
AnyFreshMutant(r) ==
    /\ pc[r] = "recheck" /\ entry[key[r]].state = "fresh"
    /\ Ends(r, "leave", Copied(r))

RecheckHit(r) ==
    /\ pc[r] = "recheck" /\ Usable(r)
    /\ Ends(r, "leave", Copied(r))

\* The leader holds the entry it may revalidate, and opens a workspace.
RecheckMiss(r) ==
    /\ pc[r] = "recheck" /\ ~Usable(r)
    /\ held' = [held EXCEPT ![r] = Content(entry[key[r]])]
    /\ Goto(r, "download")
    /\ UNCHANGED <<asked, flight, stamp, answer, shared, entry, world>>

\* A bug: this return comes before the deferred end of the flight.
NotDeferredMutant(r) ==
    /\ pc[r] = "recheck" /\ ~Usable(r)
    /\ Ends(r, "done", Errors(r, {"capacity"}))

NoWorkspace(r) ==
    /\ pc[r] = "recheck" /\ ~Usable(r)
    /\ Ends(r, "leave", Errors(r, {"capacity"}))

\* A bug: the validators of the old entry outlive it.
OldTagMutant(r, v, tag) ==
    [version |-> v, tag |-> IF tag # 0 THEN tag ELSE held[r].tag]

\* A new content has the validators of its own response only.
NewContent(r, v, tag) == [version |-> v, tag |-> tag]

\* 200, with an ETag or without.
RespondOK(r) ==
    /\ pc[r] = "download"
    /\ \E tag \in {0, upstream[key[r]]} :
          held' = [held EXCEPT ![r] = NewContent(r, upstream[key[r]], tag)]
    /\ Goto(r, "receive")
    /\ UNCHANGED <<asked, flight, stamp, answer, shared, entry, world>>

\* 304 has no body to wait for: it is the old one, and so are the validators.
RespondNotModified(r) ==
    /\ pc[r] = "download"
    /\ held[r].tag # 0 /\ held[r].tag = upstream[key[r]]
    /\ stamp' = [stamp EXCEPT ![r] = now]
    /\ Goto(r, "store")
    /\ UNCHANGED <<asked, flight, held, answer, shared, entry, world>>

\* No response, one that breaks off, a status that is neither, too large a
\* body, no room in the cache to receive it, or the leader's context is done.
DownloadFails(r) ==
    /\ pc[r] \in {"download", "receive"}
    /\ Ends(r, "leave", Errors(r, {"cancelled", "upstream", "capacity"}))

\* Validated-At is the time the download has ended.
Received(r) ==
    /\ pc[r] = "receive"
    /\ stamp' = [stamp EXCEPT ![r] = now]
    /\ Goto(r, "store")
    /\ UNCHANGED <<asked, flight, held, answer, shared, entry, world>>

Store(r) ==
    /\ pc[r] = "store"
    /\ entry' = [entry EXCEPT ![key[r]] =
          [state |-> "fresh", version |-> held[r].version, tag |-> held[r].tag,
           validated |-> stamp[r]]]
    /\ Goto(r, "reread")
    /\ UNCHANGED <<asked, flight, leading, answer, shared, world>>

\* SetLifetime returns ErrCapacity or ErrUnavailable, or the bare error of
\* the rename.
StoreFails(r) ==
    /\ pc[r] = "store"
    /\ Ends(r, "leave", Errors(r, {"capacity", "disk"}))

RereadHit(r) ==
    /\ pc[r] = "reread" /\ entry[key[r]].state = "fresh"
    /\ Ends(r, "leave", Copied(r))

RereadMiss(r) ==
    /\ pc[r] = "reread" /\ entry[key[r]].state # "fresh"
    /\ Ends(r, "leave", Errors(r, {"capacity"}))

-----------------------------------------------------------------------------
(* recordSourceResult.                                                      *)

\* The purge: the table without the failures that have cooled down.
Live == [k \in Key |-> IF now < failures[k] THEN failures[k] ELSE 0]

Listed(table) == {k \in Key : table[k] # 0}

\* With room for one more: when it is full, one of the oldest goes.
WithRoom(table) ==
    IF Cardinality(Listed(table)) < MaxFailures THEN {table}
    ELSE {[table EXCEPT ![o] = 0] :
            o \in {o \in Listed(table) : \A k \in Listed(table) : table[o] <= table[k]}}

\* A bug: a leader that was cancelled takes the failure before it off the table.
CancelForgetsMutant(k, err) ==
    CASE err \in {"nil", "cancelled"} -> {[failures EXCEPT ![k] = 0]}
      [] err = "capacity" -> {failures}
      [] OTHER -> {[t EXCEPT ![k] = now + Cooldown] : t \in WithRoom(Live)}

\* The tables that a flight for k with that error may leave.
Recorded(k, err) ==
    CASE err = "nil" -> {[failures EXCEPT ![k] = 0]}
      [] err \in {"cancelled", "capacity"} -> {failures}
      [] OTHER -> {[t EXCEPT ![k] = now + Cooldown] : t \in WithRoom(Live)}

\* The deferred end of the flight, under sourceMu.
EndFlight(r) ==
    LET k == key[r]
        err == answer[r].err
    IN  /\ pc[r] = "leave"
        /\ flights' = [flights EXCEPT ![k] = NoOne]
        /\ failures' \in Recorded(k, err)
        /\ closed' = closed \cup {r}
        /\ last' = CASE err = "nil" -> [last EXCEPT ![k] = [class |-> "nil", until |-> 0]]
                     [] err \in {"cancelled", "capacity"} -> last
                     [] OTHER -> [last EXCEPT ![k] = [class |-> err, until |-> now + Cooldown]]
        /\ Goto(r, "done")
        /\ UNCHANGED <<asked, flight, leading, answer, entry, world>>

-----------------------------------------------------------------------------
Begin(r) ==
    AlreadyCancelled(r) \/ LookupHit(r) \/ LookupMiss(r) \/ CoolingDown(r) \/ Join(r) \/ Lead(r)
Wake(r) == WaitError(r) \/ WaitHit(r) \/ WaitMiss(r)
Refresh(r) ==
    \/ RecheckHit(r) \/ RecheckMiss(r) \/ NoWorkspace(r)
    \/ RespondOK(r) \/ RespondNotModified(r) \/ DownloadFails(r) \/ Received(r)
    \/ Store(r) \/ StoreFails(r) \/ RereadHit(r) \/ RereadMiss(r) \/ EndFlight(r)

Step(r) == Begin(r) \/ WaitCancelled(r) \/ Wake(r) \/ Refresh(r)

Next ==
    \/ \E r \in Request, k \in Key, forced \in BOOLEAN : Arrive(r, k, forced)
    \/ \E r \in Request : Step(r)
    \/ \E k \in Key : Expire(k) \/ Drop(k) \/ Change(k)
    \/ Tick

Spec == Init /\ [][Next]_vars

-----------------------------------------------------------------------------
(* Properties.                                                              *)

Entries == [state : {"none", "fresh", "retained"}, version : Nat, tag : Nat, validated : Nat]
Contents == [version : Nat, tag : Nat]
ErrorNames == {"nil", "cancelled", "capacity", "budget", "disk", "upstream", "cooling", "lost"}

TypeOK ==
    /\ pc \in [Request -> {"idle", "lookup", "lock", "wait", "recheck", "download", "receive",
                           "store", "reread", "leave", "done"}]
    /\ key \in [Request -> Key \cup {NoKey}]
    /\ force \in [Request -> Nat]
    /\ flight \in [Request -> Request \cup {NoOne}]
    /\ held \in [Request -> Contents] /\ stamp \in [Request -> Nat]
    /\ answer \in [Request -> [err : ErrorNames, version : Nat, validated : Nat]]
    /\ flights \in [Key -> Request \cup {NoOne}] /\ closed \subseteq Request
    /\ failures \in [Key -> 0..(now + Cooldown)] /\ entry \in [Key -> Entries]
    /\ upstream \in [Key -> Nat] /\ now \in Nat
    /\ past \in [Request -> Nat]
    /\ last \in [Key -> [class : ErrorNames \cup {"none"}, until : Nat]]

Given(r) == pc[r] = "done" /\ answer[r].err = "nil"

\* Nobody is given an older content than somebody already had when he asked,
\* whatever mixture of downloads, revalidations, expiries and waiting there is:
\* the flights keep a slow download from overwriting a newer entry.
AnswersForward ==
    \A r \in Request : Given(r) => answer[r].version >= past[r]

\* An entry never carries the validator of another content.  Otherwise upstream
\* would answer 304 to it, and the wrong content would be renewed for ever.
ValidatorsMatch ==
    \A k \in Key : entry[k].tag \in {0, entry[k].version}

\* When a flight was asked for, as far as those who share it may rely on it: a
\* waiter gets what its leader was content with.
Floor(r) ==
    IF flight[r] \in {NoOne, r} \/ force[r] < force[flight[r]]
    THEN force[r] ELSE force[flight[r]]

\* A forced request is given what was validated after it was asked, or after the
\* leader was that it waited for, also if the entry changes between the looks
\* at the cache and after the flight.  More does not hold: after an ordinary
\* leader that only reused a fresh entry, a forced waiter is given that, although
\* export (handler.go 412) has forced requests revalidate in such a case.
Revalidated ==
    \A r \in Request : Given(r) => answer[r].validated >= Floor(r)

\* No ordinary request goes upstream while the last failure of its source cools
\* down (README.md 446), whoever was forced, or cancelled, or lost his answer on the
\* way meanwhile.  That holds as long as the table has room for all sources.
CooldownKept ==
    \A r \in Request :
        pc[r] \in {"recheck", "download", "receive"} /\ force[r] = 0
            => now >= last[key[r]].until

\* Nobody waits for a flight that is over: whichever way a leader returns, its
\* flight stays the one of the key until it ends, and wakes those who wait.
WaitersHaveLeader ==
    \A r \in Request :
        pc[r] = "wait" /\ flight[r] \notin closed
            => flights[key[r]] = flight[r] /\ pc[flight[r]] # "done"

\* source.go 201: "Only upstream failures cool down; local disk and cancellation
\* do not" (and README.md 446).
UpstreamOnly ==
    \A k \in Key : now < failures[k] => last[k].class = "upstream"

=============================================================================
