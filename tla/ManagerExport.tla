---------------------------- MODULE ManagerExport ----------------------------
(***************************************************************************)
(* Exports of the management module: internal/manager/hotpath.go,          *)
(* preparation.go, the exports of handler.go and refreshResource of        *)
(* scheduler.go, for the one record of a store that changes meanwhile.     *)
(*                                                                         *)
(* A request has a read permit while it answers from the cache and while   *)
(* it sends, and a slot from before it loads the record until it has the   *)
(* permit to send.  Requests for one output share its flight; flights of   *)
(* several outputs share the prepared nodes of one reading, a lease.       *)
(*                                                                         *)
(* A step that nothing of another request can tell from its next one is    *)
(* one with it.  Every request comes once.  The content of the source is its version;    *)
(* SourceFetch shows that versions fetched do not go back.                 *)
(*                                                                         *)
(* An operator named ...Mutant is the one below it with a plausible bug.   *)
(***************************************************************************)
EXTENDS Naturals, FiniteSets

CONSTANTS
    Requests, Targets,
    Modes,          \* "ordinary", "share", "forced" (GET), "refresh" (POST, all targets)
    Kinds,          \* of the record: "subscriptions", "files"
    Slots, ReadSlots,
    AllowStale,     \* ~Spec.Refresh.DisableStale
    MaxRev, MaxSource,      \* bounds: changes of the record and of the source
    MaxEvents,      \* bound: changes, failures, cancellations and expiries together
    None

ASSUME SlotsAssumption  == {Slots, ReadSlots} \subseteq Nat \ {0} /\ {MaxRev, MaxSource, MaxEvents} \subseteq Nat
ASSUME ModesAssumption  == Modes \subseteq {"ordinary", "share", "forced", "refresh"}
ASSUME KindsAssumption  == Kinds \subseteq {"subscriptions", "files"} /\ AllowStale \in BOOLEAN
ASSUME RequestsAssumption == IsFiniteSet(Requests)

Revs     == 0..MaxRev
Versions == 1..MaxSource
Keys     == Revs \X Targets
PrepKeys == Revs \X BOOLEAN
Errors   == {"cancelled", "expired", "failed", "conflict"}
Outputs  == [nodes : Nat \cup {None}, fresh : BOOLEAN]

ASSUME NoneAssumption   == None \notin Targets \cup Nat \cup Errors \cup Outputs \cup [forced : BOOLEAN]

VARIABLES
    kind, record,   \* [present, rev, shared]: shared, the token of "share" requests is valid
    source, fetched,        \* version upstream and in the cache of sources
    events,
    outputs,        \* of each key: [nodes, fresh] or None
    flights,        \* of each key: [forced] or None
    refreshes,      \* revisions that are refreshed as a whole
    preps,          \* of each key: [refs, state, nodes]
    req             \* of each request: see Idle

env    == <<kind, record, source, fetched, events>>
shared == <<outputs, flights, refreshes, preps>>
vars   == <<env, shared, req>>

\* overtaken: while it waited, the record changed or its token was revoked.
Idle == [pc |-> "idle", mode |-> "ordinary", target |-> None, rev |-> 0, ctx |-> "live",
         slot |-> FALSE, permit |-> FALSE, lease |-> FALSE, nodes |-> None, todo |-> {},
         err |-> None, out |-> None, fromForced |-> FALSE, overtaken |-> FALSE]

At(q, p)  == req[q].pc = p
Key(q)    == <<req[q].rev, req[q].target>>
Forced(q) == req[q].mode \in {"forced", "refresh"}
Prep(q)   == <<req[q].rev, Forced(q)>>
Dead(q)   == req[q].ctx # "live"
NoPrep    == [refs |-> 0, state |-> "reading", nodes |-> None]

Set(q, r)   == req' = [req EXCEPT ![q] = r]
Go(q, p)    == Set(q, [req[q] EXCEPT !.pc = p])
Done        == [Idle EXCEPT !.pc = "done"]
End(q)      == Set(q, Done)
Fail(q, p, e) == Set(q, [req[q] EXCEPT !.pc = p, !.err = e])

Event == events < MaxEvents /\ events' = events + 1

Free(field, n) == Cardinality({q \in Requests : req[q][field]}) < n

\* authorizeMeta, and Store.Get with CheckShare.
Authorized(q) == record.present /\ (req[q].mode = "share" => record.shared)
Current(q)    == record.present /\ record.rev = req[q].rev
Fresh(q)      == outputs[Key(q)] # None /\ outputs[Key(q)].fresh

-----------------------------------------------------------------------------
(* handleExport to the conversion.                                           *)

Arrive(q) ==
    /\ At(q, "idle")
    /\ \E m \in Modes, t \in Targets :
        LET r == [req[q] EXCEPT !.mode = m, !.target = IF m = "refresh" THEN None ELSE t,
                                !.todo = IF m = "refresh" THEN Targets ELSE {}] IN
        Set(q, IF ~record.present \/ (m = "share" /\ ~record.shared) THEN Done
               ELSE [r EXCEPT !.pc = IF m \in {"forced", "refresh"} THEN "queue" ELSE "permit"])
    /\ UNCHANGED <<env, shared>>

\* readPermit, authorizeMeta.  When both channels are ready select takes either.
TakePermit(q) ==
    /\ At(q, "permit")
    /\ \/ /\ Free("permit", ReadSlots)
          /\ Set(q, IF Authorized(q) THEN [req[q] EXCEPT !.pc = "lookup", !.permit = TRUE, !.rev = record.rev]
                    ELSE Done)
       \/ Dead(q) /\ End(q)
    /\ UNCHANGED <<env, shared>>

\* A bug: the permit is kept while a slot is waited for.
LookupMutant(q) ==
    /\ At(q, "lookup")
    /\ Set(q, IF Fresh(q) THEN [req[q] EXCEPT !.pc = "stream", !.out = outputs[Key(q)]]
              ELSE [req[q] EXCEPT !.pc = "queue"])
    /\ UNCHANGED <<env, shared>>
Lookup(q) ==
    /\ At(q, "lookup")
    /\ Set(q, IF Fresh(q) THEN [req[q] EXCEPT !.pc = "stream", !.out = outputs[Key(q)]]
              ELSE [req[q] EXCEPT !.pc = "queue", !.permit = FALSE])
    /\ UNCHANGED <<env, shared>>

\* acquire, Store.Get.
TakeSlot(q) ==
    /\ At(q, "queue")
    /\ \/ /\ Free("slot", Slots)
          /\ Set(q, IF ~Authorized(q) THEN Done
                    ELSE [req[q] EXCEPT !.slot = TRUE, !.rev = record.rev,
                            !.pc = CASE req[q].mode = "refresh" -> "refresh"
                                     [] req[q].mode = "forced"  -> "flight"
                                     [] OTHER                   -> "enter"])
       \/ Dead(q) /\ End(q)
    /\ UNCHANGED <<env, shared>>

-----------------------------------------------------------------------------
(* export: an output is converted by the leader of its flight.               *)

Enter(q) ==
    /\ At(q, "enter")
    /\ Set(q, IF Fresh(q) THEN [req[q] EXCEPT !.pc = "send", !.out = outputs[Key(q)]]
              ELSE [req[q] EXCEPT !.pc = "flight"])
    /\ UNCHANGED <<env, shared>>

Join(q) ==
    /\ At(q, "flight") /\ flights[Key(q)] # None
    /\ Go(q, "wait")
    /\ UNCHANGED <<env, shared>>

\* With prepare, for a subscription without prepared nodes.
Lead(q) ==
    /\ At(q, "flight") /\ flights[Key(q)] = None
    /\ flights' = [flights EXCEPT ![Key(q)] = [forced |-> Forced(q)]]
    /\ IF kind = "subscriptions" /\ req[q].mode # "refresh"
       THEN /\ preps' = [preps EXCEPT ![Prep(q)].refs = @ + 1]
            /\ Set(q, [req[q] EXCEPT !.lease = TRUE,
                        !.pc = IF preps[Prep(q)].refs = 0 THEN "reading" ELSE "prepwait"])
       ELSE Go(q, "produce") /\ UNCHANGED preps
    /\ UNCHANGED <<env, outputs, refreshes>>

\* Where refreshResource goes on after an export; errors are joined.
Back(q, e) == [req[q] EXCEPT !.pc = "next", !.out = None,
                             !.err = IF e = None THEN @ ELSE "failed"]

CancelWait(q) ==
    /\ At(q, "wait") \/ At(q, "joined")
    /\ Dead(q)
    /\ Set(q, IF req[q].mode = "refresh" THEN Back(q, req[q].ctx) ELSE Done)
    /\ UNCHANGED <<env, shared>>

\* A bug: a forced request is content with any conversion it finds.
JoinedMutant(q) ==
    /\ At(q, "joined")
    /\ Go(q, IF req[q].err # None THEN "failure" ELSE "result")
    /\ UNCHANGED <<env, shared>>
\* A forced request does not share an ordinary conversion.
Joined(q) ==
    /\ At(q, "joined")
    /\ Set(q, IF Forced(q) /\ ~req[q].fromForced THEN [req[q] EXCEPT !.pc = "flight", !.err = None]
              ELSE [req[q] EXCEPT !.pc = IF req[q].err # None THEN "failure" ELSE "result"])
    /\ UNCHANGED <<env, shared>>

\* A fetch: the version there is now, or for ordinary requests the one in the cache.
Readable(q) == {source} \cup (IF Forced(q) THEN {} ELSE {fetched})
Reads(q, v) == fetched' = IF v > fetched THEN v ELSE fetched

\* A bug: the entry goes when the one who made it has finished.
ReleasedMutant(q, p) == IF At(q, "finish") \/ p.refs = 1 THEN NoPrep ELSE [p EXCEPT !.refs = @ - 1]
\* The last lease clears the entry.
Released(q, p) == IF p.refs = 1 THEN NoPrep ELSE [p EXCEPT !.refs = @ - 1]

\* readNodes of the owner, with the owner's context.
Read(q) ==
    /\ At(q, "reading")
    /\ \/ ~Dead(q) /\ \E v \in Readable(q) :
            /\ Reads(q, v)
            /\ preps' = [preps EXCEPT ![Prep(q)].state = "ok", ![Prep(q)].nodes = v]
            /\ Set(q, [req[q] EXCEPT !.pc = "produce", !.nodes = v])
            /\ UNCHANGED events
       \/ LET e == IF Dead(q) THEN req[q].ctx ELSE "failed" IN
          /\ IF Dead(q) THEN UNCHANGED events ELSE Event
          /\ preps' = [preps EXCEPT ![Prep(q)] = Released(q, [@ EXCEPT !.state = e])]
          /\ Set(q, [req[q] EXCEPT !.pc = "finish", !.lease = FALSE, !.err = e])
          /\ UNCHANGED fetched
    /\ UNCHANGED <<kind, record, source, outputs, flights, refreshes>>

PrepareWait(q) ==
    /\ At(q, "prepwait")
    /\ LET p == preps[Prep(q)]
           GiveUp(e) == /\ preps' = [preps EXCEPT ![Prep(q)] = Released(q, p)]
                        /\ Set(q, [req[q] EXCEPT !.pc = "finish", !.lease = FALSE, !.err = e]) IN
       \/ p.state = "ok" /\ Set(q, [req[q] EXCEPT !.pc = "produce", !.nodes = p.nodes])
                         /\ UNCHANGED preps
       \/ p.state \in Errors /\ GiveUp(p.state)
       \/ Dead(q) /\ GiveUp(req[q].ctx)
    /\ UNCHANGED <<env, outputs, flights, refreshes>>

\* produce until the output may be stored: a file is fetched, nodes are exported, and the
\* record is compared, which may have changed meanwhile.
Produce(q) ==
    /\ At(q, "produce")
    /\ IF Dead(q) THEN Fail(q, "finish", req[q].ctx) /\ UNCHANGED <<fetched, events>>
       ELSE \/ Event /\ Fail(q, "finish", "failed") /\ UNCHANGED fetched
            \/ \E v \in IF kind = "files" THEN Readable(q) ELSE {req[q].nodes} :
                /\ Reads(q, v)
                /\ Set(q, IF Current(q) THEN [req[q] EXCEPT !.pc = "store", !.nodes = v]
                          ELSE [req[q] EXCEPT !.pc = "finish", !.err = "conflict"])
                /\ UNCHANGED events
    /\ UNCHANGED <<kind, record, source, shared>>

\* Cache.SetLifetime.
StoreOutput(q) ==
    /\ At(q, "store")
    /\ \/ /\ outputs' = [outputs EXCEPT ![Key(q)] =
                            [nodes |-> req[q].nodes, fresh |-> TRUE]]
          /\ Go(q, "finish") /\ UNCHANGED events
       \/ Event /\ Fail(q, "finish", "failed") /\ UNCHANGED outputs
    /\ UNCHANGED <<kind, record, source, fetched, flights, refreshes, preps>>

\* A bug: only a result wakes the waiters.
WokenMutant(q, k) ==
    [w \in Requests |->
        IF w = q THEN [req[q] EXCEPT !.pc = IF req[q].err = None THEN "result" ELSE "failure",
                                     !.lease = FALSE]
        ELSE IF At(w, "wait") /\ Key(w) = k /\ req[q].err = None
             THEN [req[w] EXCEPT !.pc = "joined", !.fromForced = Forced(q)]
             ELSE req[w]]
\* Waiters learn of the error and whether the leader was forced; nodes is what it has read.
Woken(q, k) ==
    [w \in Requests |->
        IF w = q THEN [req[q] EXCEPT !.pc = IF req[q].err = None THEN "result" ELSE "failure",
                                     !.lease = FALSE]
        ELSE IF At(w, "wait") /\ Key(w) = k
             THEN [req[w] EXCEPT !.pc = "joined", !.err = req[q].err, !.fromForced = Forced(q),
                                 !.nodes = IF Forced(q) /\ req[w].mode = "forced" THEN req[q].nodes ELSE @]
             ELSE req[w]]

\* The lease is released, the flight ends.
Finish(q) ==
    /\ At(q, "finish")
    /\ preps' = IF req[q].lease THEN [preps EXCEPT ![Prep(q)] = Released(q, @)] ELSE preps
    /\ flights' = [flights EXCEPT ![Key(q)] = None]
    /\ req' = Woken(q, Key(q))
    /\ UNCHANGED <<env, outputs, refreshes>>

\* result.
Result(q) ==
    /\ At(q, "result")
    /\ IF req[q].mode = "refresh" THEN Set(q, Back(q, IF Fresh(q) THEN None ELSE "failed"))
       ELSE IF Fresh(q) THEN Set(q, [req[q] EXCEPT !.pc = "send", !.out = outputs[Key(q)]])
       ELSE End(q)
    /\ UNCHANGED <<env, shared>>

\* exportFailure: an ordinary request may be answered with a retained output.
Failure(q) ==
    /\ At(q, "failure")
    /\ IF req[q].mode = "refresh" THEN Set(q, Back(q, req[q].err))
       ELSE IF /\ ~Forced(q) /\ AllowStale /\ req[q].err \notin {"cancelled", "conflict"}
               /\ Current(q) /\ outputs[Key(q)] # None
            THEN Set(q, [req[q] EXCEPT !.pc = "send", !.out = outputs[Key(q)]])
            ELSE End(q)
    /\ UNCHANGED <<env, shared>>

-----------------------------------------------------------------------------
(* handleExport after the conversion.                                        *)

\* A bug: only the share is checked again.
StillAllowedMutant(q) == Authorized(q)
StillAllowed(q) == Authorized(q) /\ Current(q)

\* The slot is kept while the permit is waited for; then all is checked again.
TakeSendPermit(q) ==
    /\ At(q, "send")
    /\ \/ /\ Free("permit", ReadSlots)
          /\ Set(q, IF StillAllowed(q)
                    THEN [req[q] EXCEPT !.pc = "stream", !.permit = TRUE, !.slot = FALSE] ELSE Done)
       \/ Dead(q) /\ End(q)
    /\ UNCHANGED <<env, shared>>

\* writeExport ends, by its deadline at the latest.
Stream(q) == At(q, "stream") /\ End(q) /\ UNCHANGED <<env, shared>>

-----------------------------------------------------------------------------
(* refreshResource.                                                          *)

StartRefresh(q) ==
    /\ At(q, "refresh")
    /\ IF req[q].rev \in refreshes THEN Go(q, "refreshing") /\ UNCHANGED refreshes
       ELSE /\ refreshes' = refreshes \cup {req[q].rev}
            /\ Go(q, IF kind = "subscriptions" THEN "readall" ELSE "next")
    /\ UNCHANGED <<env, outputs, flights, preps>>

RefreshRead(q) ==
    /\ At(q, "readall")
    /\ \/ ~Dead(q) /\ \E v \in Readable(q) :
            Reads(q, v) /\ Set(q, [req[q] EXCEPT !.pc = "next", !.nodes = v]) /\ UNCHANGED events
       \/ Dead(q) /\ Fail(q, "refreshed", req[q].ctx) /\ UNCHANGED <<fetched, events>>
       \/ ~Dead(q) /\ Event /\ Fail(q, "refreshed", "failed") /\ UNCHANGED fetched
    /\ UNCHANGED <<kind, record, source, shared>>

RefreshNext(q) ==
    /\ At(q, "next")
    /\ IF req[q].todo = {} \/ Dead(q) THEN Go(q, "refreshed")
       ELSE \E t \in req[q].todo :
                Set(q, [req[q] EXCEPT !.pc = "flight", !.target = t, !.todo = @ \ {t},
                                      !.err = None])
    /\ UNCHANGED <<env, shared>>

RefreshDone(q) ==
    /\ At(q, "refreshed")
    /\ refreshes' = refreshes \ {req[q].rev}
    /\ req' = [w \in Requests |->
                IF w = q \/ (At(w, "refreshing") /\ req[w].rev = req[q].rev) THEN Done
                ELSE req[w]]
    /\ UNCHANGED <<env, outputs, flights, preps>>

CancelRefresh(q) ==
    /\ At(q, "refreshing") /\ Dead(q)
    /\ End(q)
    /\ UNCHANGED <<env, shared>>

-----------------------------------------------------------------------------
(* What happens meanwhile.                                                   *)

\* The client goes away, or the time is over: where the context is looked at next.
Cancel(q) ==
    /\ req[q].pc \in {"permit", "queue", "wait", "joined", "reading", "prepwait", "produce", "send",
                      "refreshing", "readall", "next"}
    /\ ~Dead(q) /\ Event
    /\ \E e \in {"cancelled", "expired"} : Set(q, [req[q] EXCEPT !.ctx = e])
    /\ UNCHANGED <<kind, record, source, fetched, shared>>

Decided == {"idle", "lookup", "stream", "done"}
Loaded  == {"enter", "flight", "wait", "joined", "prepwait", "reading", "produce", "store", "finish",
            "result", "failure", "send"}
Overtake(S) == req' = [q \in Requests |-> IF q \in S THEN [req[q] EXCEPT !.overtaken = TRUE] ELSE req[q]]

\* An edit or a restore: a new revision.
Change ==
    /\ record.present /\ record.rev < MaxRev /\ Event
    /\ record' = [record EXCEPT !.rev = @ + 1]
    /\ Overtake({q \in Requests : req[q].pc \in Loaded})
    /\ UNCHANGED <<kind, source, fetched, shared>>

Delete ==
    /\ record.present /\ Event
    /\ record' = [record EXCEPT !.present = FALSE]
    /\ Overtake({q \in Requests : req[q].pc \notin Decided})
    /\ UNCHANGED <<kind, source, fetched, shared>>

Revoke ==
    /\ record.shared /\ Event
    /\ record' = [record EXCEPT !.shared = FALSE]
    /\ Overtake({q \in Requests : req[q].mode = "share" /\ req[q].pc \notin Decided})
    /\ UNCHANGED <<kind, source, fetched, shared>>

\* Time passes for a fresh output, or it is evicted.
Age(k) ==
    /\ outputs[k] # None /\ Event
    /\ outputs' = [outputs EXCEPT ![k] = IF @.fresh THEN [@ EXCEPT !.fresh = FALSE] ELSE None]
    /\ UNCHANGED <<kind, record, source, fetched, flights, refreshes, preps, req>>

NewSource ==
    /\ source < MaxSource /\ Event
    /\ source' = source + 1
    /\ UNCHANGED <<kind, record, fetched, shared, req>>

Init ==
    /\ kind \in Kinds
    /\ record = [present |-> TRUE, rev |-> 0, shared |-> TRUE]
    /\ source = 1 /\ fetched = 1 /\ events = 0
    /\ \E o \in {None, [nodes |-> 1, fresh |-> FALSE]} :
        outputs = [k \in Keys |-> IF k[1] = 0 THEN o ELSE None]
    /\ flights = [k \in Keys |-> None]
    /\ refreshes = {}
    /\ preps = [k \in PrepKeys |-> NoPrep]
    /\ req = [q \in Requests |-> Idle]

Step(q) ==
    \/ TakePermit(q) \/ Lookup(q) \/ TakeSlot(q)
    \/ Enter(q) \/ Join(q) \/ Lead(q) \/ CancelWait(q) \/ Joined(q)
    \/ Read(q) \/ PrepareWait(q) \/ Produce(q) \/ StoreOutput(q) \/ Finish(q)
    \/ Result(q) \/ Failure(q) \/ TakeSendPermit(q) \/ Stream(q)
    \/ StartRefresh(q) \/ RefreshRead(q) \/ RefreshNext(q) \/ RefreshDone(q) \/ CancelRefresh(q)

Next ==
    \/ \E q \in Requests : Arrive(q) \/ Step(q) \/ Cancel(q)
    \/ Change \/ Delete \/ Revoke \/ NewSource
    \/ \E k \in Keys : Age(k)

Spec == Init /\ [][Next]_vars

-----------------------------------------------------------------------------
(* Properties.                                                               *)

Working == {"prepwait", "reading", "produce", "store", "finish"}

\* Prepared nodes are there as long as somebody has a lease on them, who has a slot, and no
\* longer (prepare: "Queued requests do not retain nodes").
LeasesExact ==
    \A k \in PrepKeys :
        LET holders == {q \in Requests : req[q].lease /\ Prep(q) = k} IN
        /\ preps[k].refs = Cardinality(holders)
        /\ \A q \in holders : req[q].slot /\ req[q].pc \in Working
        /\ \A q \in holders : At(q, "prepwait") /\ preps[k].state = "reading" =>
            \E o \in holders : At(o, "reading")

\* An output has one leader at work while it has a flight, and nobody waits without one (export).
OneLeader ==
    /\ \A k \in Keys :
        Cardinality({q \in Requests : req[q].pc \in Working /\ Key(q) = k})
            = IF flights[k] = None THEN 0 ELSE 1
    /\ \A q \in Requests : At(q, "wait") => flights[Key(q)] # None
    /\ \A v \in refreshes : Cardinality({q \in Requests : req[q].mode = "refresh" /\ req[q].slot
            /\ req[q].rev = v /\ req[q].pc \notin {"refresh", "refreshing"}}) = 1
    /\ \A q \in Requests : At(q, "refreshing") => req[q].rev \in refreshes

\* Nobody is answered whose record changed, or whose share was revoked, while it waited for
\* a slot, a conversion or a permit (handleExport, README "等待发送期间会重新检查").
NoneOvertaken == \A q \in Requests : At(q, "stream") => ~req[q].overtaken

\* A forced request takes no result before a forced request has read the source for it,
\* whatever conversions it finds under way (export). Which output it then finds in the cache is
\* not said (result).
ForcedRevalidated ==
    \A q \in Requests :
        req[q].mode = "forced" /\ req[q].pc \in {"result", "send", "stream"} => req[q].nodes # None

\* Where a request waits for another one and does not give up.
Blocked(q) ==
    /\ ~Dead(q)
    /\ \/ req[q].pc \in {"permit", "send"} /\ ~Free("permit", ReadSlots)
       \/ At(q, "queue") /\ ~Free("slot", Slots)
       \/ At(q, "prepwait") /\ preps[Prep(q)].state = "reading"
       \/ req[q].pc \in {"wait", "refreshing"}
Ready(q) == req[q].pc \notin {"idle", "done"} /\ ~Blocked(q)

\* Unless all are answered somebody is ready: slots, permits, flights, leases and refreshes are
\* never all waited for (export and prepare, which queue for them one after the other).
SomebodyReady == (\E q \in Requests : req[q].pc \notin {"idle", "done"}) => \E q \in Requests : Ready(q)

\* So somebody can go on, even when nobody gives up: who is ready has a step.
NoneStuck == SomebodyReady /\ \A q \in Requests : Ready(q) => ENABLED Step(q)
=============================================================================
