---------------------------- MODULE ConvertFlight ----------------------------
(***************************************************************************)
(* Conversions that share work: singleflight of internal/server/flight.go, *)
(* the cached conversion convertWithCacheContext of internal/server/       *)
(* handler.go, and the references to file bodies that pass between them    *)
(* (internal/types/file.go).                                               *)
(*                                                                         *)
(* A request that misses the cache joins the call in flight for its key,   *)
(* or leads a new one: it looks at the cache again, parses (rule keys only *)
(* with a conversion slot), stores, and publishes the result to everybody  *)
(* who waits.  A request ends with a body it sends and closes, or with an  *)
(* error.  Its context may be cancelled at any time.                       *)
(*                                                                         *)
(* The cache is abstract here: DiskCache models it.  What matters is which *)
(* conversion an answer comes from, so results carry a serial number.      *)
(*                                                                         *)
(* A request leads at most one call (a forced leader never rereads the     *)
(* cache, so only waiters go round the loop again) and opens at most one   *)
(* body, so that both are named after it.                                  *)
(*                                                                         *)
(* An operator named ...Mutant is the one below it with a plausible bug.   *)
(***************************************************************************)
EXTENDS Integers, FiniteSets

CONSTANTS
    Request, Key,
    RuleKey,   \* the keys whose parser runs under a conversion slot
    Slots,     \* capacity of Server.conversions
    NoKey, NoOne

ASSUME KeyAssumption  == RuleKey \subseteq Key /\ NoKey \notin Key
ASSUME IdAssumption   == IsFiniteSet(Request) /\ NoOne \notin Request
ASSUME SlotAssumption == Slots \in Nat \ {0}

VARIABLES
    pc,         \* where each request is in convertWithCacheContext
    key, force, \* what it asks for
    cancelled,  \* its context is done
    call,       \* the call it leads or waits for, named after the leader
    inflight,   \* singleflight.inflight
    calls,      \* the call values: waiters, and val and err once published
    refs,       \* FileBody.refs of the body it opened; 0 when that is closed
    serial,     \* the conversion a body holds the result of
    cache,      \* serial of the entry of each key; 0 when there is none
    parses,     \* number of conversions finished so far
    answer,     \* how each request ended, or the body it is about to send
    newest,     \* of each key, the last conversion published and the last one
                \* answered with: history, read by the properties only
    past        \* newest[k] when a request for k arrived

vars == <<pc, key, force, cancelled, call, inflight, calls, refs, serial,
          cache, parses, answer, newest, past>>

asked  == <<key, force, past>>
flight == <<call, inflight, calls>>
bodies == <<refs, serial>>
cached == <<cache, parses>>
ends   == <<answer, newest>>

\* What fn returns.
Got(b, fromCache, stored) ==
    [body |-> b, err |-> "nil", fromCache |-> fromCache, stored |-> stored]
Error(e) == [body |-> NoOne, err |-> e, fromCache |-> FALSE, stored |-> FALSE]

NoAnswer == [body |-> NoOne, err |-> "nil", serial |-> 0]
Nothing   == [published |-> 0, answered |-> 0]
FreshCall == [waiters |-> 0, done |-> FALSE, result |-> Error("nil")]

-----------------------------------------------------------------------------
\* The requests that hold a slot of Server.conversions.
Parsing == {r \in Request : pc[r] = "parsing" /\ key[r] \in RuleKey}

\* r opens the body of conversion n.
Open(r, n) == refs' = [refs EXCEPT ![r] = 1] /\ serial' = [serial EXCEPT ![r] = n]

Close(b) ==
    /\ refs' = IF b = NoOne THEN refs ELSE [refs EXCEPT ![b] = @ - 1]
    /\ UNCHANGED serial

Returns(r, res) == calls' = [calls EXCEPT ![r].result = res]

Fail(r, err) ==
    /\ pc' = [pc EXCEPT ![r] = "done"]
    /\ answer' = [answer EXCEPT ![r].err = err]
    /\ call' = [call EXCEPT ![r] = NoOne]

AtLeast(m, n) == IF m > n THEN m ELSE n

Send(r, b, n) ==
    /\ pc' = [pc EXCEPT ![r] = "send"]
    /\ answer' = [answer EXCEPT ![r] = [body |-> b, err |-> "nil", serial |-> n]]
    /\ call' = [call EXCEPT ![r] = NoOne]
    /\ newest' = [newest EXCEPT ![key[r]].answered = AtLeast(@, n)]

Shared(r) == calls[call[r]].result

Returned(r) == pc[r] = "led" \/ (pc[r] = "wait" /\ calls[call[r]].done)

-----------------------------------------------------------------------------
Init ==
    /\ pc = [r \in Request |-> "idle"]
    /\ key = [r \in Request |-> NoKey]
    /\ force = [r \in Request |-> FALSE]
    /\ cancelled = [r \in Request |-> FALSE]
    /\ call = [r \in Request |-> NoOne]
    /\ inflight = [k \in Key |-> NoOne]
    /\ calls = [c \in Request |-> FreshCall]
    /\ refs = [b \in Request |-> 0]
    /\ serial = [b \in Request |-> 0]
    /\ cache = [k \in Key |-> 0]
    /\ parses = 0
    /\ answer = [r \in Request |-> NoAnswer]
    /\ newest = [k \in Key |-> Nothing]
    /\ past = [r \in Request |-> Nothing]

\* The request reaches convertWithCacheContext with a cacheable key.
Arrive(r, k, f) ==
    /\ pc[r] = "idle"
    /\ pc' = [pc EXCEPT ![r] = IF f THEN "join" ELSE "read"]
    /\ key' = [key EXCEPT ![r] = k]
    /\ force' = [force EXCEPT ![r] = f]
    /\ past' = [past EXCEPT ![r] = newest[k]]
    /\ UNCHANGED <<cancelled, flight, bodies, cached, ends>>

\* The client goes away, or the request timeout passes.  While the response is
\* sent that ends the sending, which closes the body all the same.
Cancel(r) ==
    /\ pc[r] \notin {"idle", "send", "done"} /\ ~cancelled[r]
    /\ cancelled' = [cancelled EXCEPT ![r] = TRUE]
    /\ UNCHANGED <<asked, flight, pc, bodies, cached, ends>>

\* An entry expires or is evicted.
Expire(k) ==
    /\ cache[k] # 0
    /\ cache' = [cache EXCEPT ![k] = 0]
    /\ UNCHANGED <<asked, cancelled, flight, pc, parses, bodies, ends>>

\* An ordinary request reads the cache before it goes to the flight.
ReadHit(r) ==
    /\ pc[r] = "read" /\ cache[key[r]] # 0
    /\ Open(r, cache[key[r]])
    /\ Send(r, r, cache[key[r]])
    /\ UNCHANGED <<asked, cancelled, inflight, calls, cached>>

ReadMiss(r) ==
    /\ pc[r] = "read" /\ cache[key[r]] = 0
    /\ pc' = [pc EXCEPT ![r] = "join"]
    /\ UNCHANGED <<asked, cancelled, flight, bodies, cached, ends>>

-----------------------------------------------------------------------------
(* singleflight.doContext.                                                  *)

JoinCancelled(r) ==
    /\ pc[r] = "join" /\ cancelled[r]
    /\ Fail(r, "cancelled")
    /\ UNCHANGED <<asked, cancelled, inflight, calls, newest, bodies, cached>>

Join(r) ==
    /\ pc[r] = "join" /\ ~cancelled[r]
    /\ LET c == inflight[key[r]] IN
       /\ c # NoOne
       /\ pc' = [pc EXCEPT ![r] = "wait"]
       /\ call' = [call EXCEPT ![r] = c]
       /\ calls' = [calls EXCEPT ![c].waiters = @ + 1]
    /\ UNCHANGED <<asked, cancelled, inflight, bodies, cached, ends>>

\* A bug: a forced request does not look for a call in flight.
ForcedLeadsMutant(r) ==
    /\ pc[r] = "join" /\ ~cancelled[r]
    /\ inflight[key[r]] = NoOne \/ force[r]
    /\ pc' = [pc EXCEPT ![r] = IF force[r] THEN "parse" ELSE "check"]
    /\ call' = [call EXCEPT ![r] = r]
    /\ inflight' = [inflight EXCEPT ![key[r]] = r]
    /\ calls' = [calls EXCEPT ![r] = FreshCall]
    /\ UNCHANGED <<asked, cancelled, bodies, cached, ends>>

Lead(r) ==
    /\ pc[r] = "join" /\ ~cancelled[r]
    /\ inflight[key[r]] = NoOne
    /\ pc' = [pc EXCEPT ![r] = IF force[r] THEN "parse" ELSE "check"]
    /\ call' = [call EXCEPT ![r] = r]
    /\ inflight' = [inflight EXCEPT ![key[r]] = r]
    /\ calls' = [calls EXCEPT ![r] = FreshCall]
    /\ UNCHANGED <<asked, cancelled, bodies, cached, ends>>

\* The leader's fn: the second look at the cache ...
CheckHit(r) ==
    /\ pc[r] = "check" /\ cache[key[r]] # 0
    /\ Open(r, cache[key[r]])
    /\ Returns(r, Got(r, TRUE, FALSE))
    /\ pc' = [pc EXCEPT ![r] = "publish"]
    /\ UNCHANGED <<asked, cancelled, call, inflight, cached, ends>>

CheckMiss(r) ==
    /\ pc[r] = "check" /\ cache[key[r]] = 0
    /\ pc' = [pc EXCEPT ![r] = "parse"]
    /\ UNCHANGED <<asked, cancelled, flight, bodies, cached, ends>>

\* ... the conversion slot of parseRules, or the leader's own cancellation ...
Acquire(r) ==
    /\ pc[r] = "parse"
    /\ key[r] \in RuleKey => Cardinality(Parsing) < Slots
    /\ pc' = [pc EXCEPT ![r] = "parsing"]
    /\ UNCHANGED <<asked, cancelled, flight, bodies, cached, ends>>

AcquireCancelled(r) ==
    /\ pc[r] = "parse" /\ cancelled[r] /\ key[r] \in RuleKey
    /\ Returns(r, Error("cancelled"))
    /\ pc' = [pc EXCEPT ![r] = "publish"]
    /\ UNCHANGED <<asked, cancelled, call, inflight, bodies, cached, ends>>

\* ... the parser, which fails, returns a partial result when a download
\* failed, or a complete one.  It runs under the leader's context.
ParseFails(r) ==
    /\ pc[r] = "parsing"
    /\ Returns(r, Error(IF cancelled[r] THEN "cancelled" ELSE "parse"))
    /\ pc' = [pc EXCEPT ![r] = "publish"]
    /\ UNCHANGED <<asked, cancelled, call, inflight, bodies, cached, ends>>

ParseIncomplete(r) ==
    /\ pc[r] = "parsing"
    /\ parses' = parses + 1
    /\ IF force[r]
       THEN /\ Returns(r, Error("incomplete"))
            /\ UNCHANGED bodies
       ELSE /\ Open(r, parses + 1)
            /\ Returns(r, Got(r, FALSE, FALSE))
    /\ pc' = [pc EXCEPT ![r] = "publish"]
    /\ UNCHANGED <<asked, cancelled, call, inflight, cache, ends>>

ParseComplete(r) ==
    /\ pc[r] = "parsing"
    /\ parses' = parses + 1
    /\ Open(r, parses + 1)
    /\ Returns(r, Got(r, FALSE, FALSE))
    /\ pc' = [pc EXCEPT ![r] = "store"]
    /\ UNCHANGED <<asked, cancelled, call, inflight, cache, ends>>

\* ... and Cache.Set.  A forced leader fails with it, an ordinary one keeps
\* the result it could not store.
StoreSucceeds(r) ==
    /\ pc[r] = "store"
    /\ cache' = [cache EXCEPT ![key[r]] = serial[r]]
    /\ Returns(r, Got(r, FALSE, TRUE))
    /\ pc' = [pc EXCEPT ![r] = "publish"]
    /\ UNCHANGED <<asked, cancelled, call, inflight, parses, bodies, ends>>

StoreFails(r) ==
    /\ pc[r] = "store"
    /\ IF force[r]
       THEN /\ Close(r)
            /\ Returns(r, Error("write"))
       ELSE UNCHANGED <<bodies, calls>>
    /\ pc' = [pc EXCEPT ![r] = "publish"]
    /\ UNCHANGED <<asked, cancelled, call, inflight, cached, ends>>

\* Retain: one reference for each waiter.
Share(r) ==
    LET b == Shared(r).body
    IN  refs' = IF b = NoOne THEN refs ELSE [refs EXCEPT ![b] = @ + calls[r].waiters]

\* A bug: done is closed for a value only, not for an error.
OnlyValuesMutant(r) ==
    calls' = [calls EXCEPT ![r].done = calls[r].result.err = "nil"]

Wake(r) == calls' = [calls EXCEPT ![r].done = TRUE]

\* The end of doContext, under the lock.
Publish(r) ==
    /\ pc[r] = "publish"
    /\ Share(r)
    /\ Wake(r)
    /\ inflight' = [inflight EXCEPT ![key[r]] = NoOne]
    /\ newest' = IF Shared(r).body = NoOne THEN newest ELSE
          [newest EXCEPT ![key[r]].published = AtLeast(@, serial[Shared(r).body])]
    /\ pc' = [pc EXCEPT ![r] = "led"]
    /\ UNCHANGED <<asked, cancelled, call, serial, answer, cached>>

-----------------------------------------------------------------------------
(* What a request does with the result, its own or another's.               *)

\* A waiter whose context is done takes itself off the call in flight ...
LeaveCall(r) ==
    /\ pc[r] = "wait" /\ cancelled[r] /\ inflight[key[r]] = call[r]
    /\ calls' = [calls EXCEPT ![call[r]].waiters = @ - 1]
    /\ Fail(r, "cancelled")
    /\ UNCHANGED <<asked, cancelled, inflight, newest, bodies, cached>>

\* A bug: it forgets that the leader has counted it.
NotReleasedMutant(r) ==
    /\ pc[r] = "wait" /\ cancelled[r] /\ inflight[key[r]] # call[r]
    /\ Fail(r, "cancelled")
    /\ UNCHANGED <<asked, cancelled, inflight, calls, newest, bodies, cached>>

\* ... or, too late for that, gives back the reference added for it.
ReleaseLate(r) ==
    /\ pc[r] = "wait" /\ cancelled[r] /\ inflight[key[r]] # call[r]
    /\ Close(Shared(r).body)
    /\ Fail(r, "cancelled")
    /\ UNCHANGED <<asked, cancelled, inflight, calls, newest, cached>>

TakeError(r) ==
    /\ Returned(r) /\ Shared(r).err # "nil"
    /\ Fail(r, Shared(r).err)
    /\ UNCHANGED <<asked, cancelled, inflight, calls, newest, bodies, cached>>

\* A forced request that only got what an ordinary leader found in the cache.
TryAgain(r) ==
    /\ Returned(r) /\ Shared(r).err = "nil"
    /\ force[r] /\ Shared(r).fromCache
    /\ Close(Shared(r).body)
    /\ pc' = [pc EXCEPT ![r] = "join"]
    /\ call' = [call EXCEPT ![r] = NoOne]
    /\ UNCHANGED <<asked, cancelled, inflight, calls, cached, ends>>

TakeUnstored(r) ==
    /\ Returned(r) /\ Shared(r).err = "nil"
    /\ force[r] /\ ~Shared(r).fromCache /\ ~Shared(r).stored
    /\ Close(Shared(r).body)
    /\ Fail(r, "unstored")
    /\ UNCHANGED <<asked, cancelled, inflight, calls, newest, cached>>

\* A bug: the second look at the cache is good enough for a forced request.
RereadMutant(r) ==
    /\ Returned(r) /\ Shared(r).err = "nil"
    /\ force[r] => Shared(r).stored \/ Shared(r).fromCache
    /\ Send(r, Shared(r).body, serial[Shared(r).body])
    /\ UNCHANGED <<asked, cancelled, inflight, calls, bodies, cached>>

TakeResult(r) ==
    /\ Returned(r) /\ Shared(r).err = "nil"
    /\ force[r] => Shared(r).stored
    /\ Send(r, Shared(r).body, serial[Shared(r).body])
    /\ UNCHANGED <<asked, cancelled, inflight, calls, bodies, cached>>

\* sendResponse, and its deferred Close.
Sent(r) ==
    /\ pc[r] = "send"
    /\ Close(answer[r].body)
    /\ pc' = [pc EXCEPT ![r] = "done"]
    /\ answer' = [answer EXCEPT ![r].body = NoOne]
    /\ UNCHANGED <<asked, cancelled, flight, newest, cached>>

-----------------------------------------------------------------------------
Lookup(r) == ReadMiss(r) \/ ReadHit(r)
DoContext(r) == JoinCancelled(r) \/ Join(r) \/ Lead(r)
Fn(r) ==
    \/ CheckHit(r) \/ CheckMiss(r) \/ Acquire(r) \/ AcquireCancelled(r)
    \/ ParseFails(r) \/ ParseIncomplete(r) \/ ParseComplete(r)
    \/ StoreSucceeds(r) \/ StoreFails(r) \/ Publish(r)
Finish(r) ==
    LeaveCall(r) \/ ReleaseLate(r) \/ TakeError(r) \/ TryAgain(r) \/ TakeUnstored(r) \/ TakeResult(r)
        \/ Sent(r)

Step(r) == Lookup(r) \/ DoContext(r) \/ Fn(r) \/ Finish(r)

Next ==
    \/ \E r \in Request, k \in Key, f \in BOOLEAN : Arrive(r, k, f)
    \/ \E r \in Request : Cancel(r) \/ Step(r)
    \/ \E k \in Key : Expire(k)

Spec == Init /\ [][Next]_vars

\* Every goroutine runs on, and a parser returns (its downloads have timeouts).
\* A slot needs no more: each request takes one once at most, so a free slot is
\* in the end free for those who still wait.
Fairness == \A r \in Request : WF_vars(Step(r))

-----------------------------------------------------------------------------
(* Properties.                                                              *)

Results == [body : Request \cup {NoOne}, fromCache : BOOLEAN, stored : BOOLEAN,
            err : {"nil", "cancelled", "parse", "incomplete", "write"}]

TypeOK ==
    /\ pc \in [Request -> {"idle", "read", "join", "wait", "check", "parse", "parsing",
                           "store", "publish", "led", "send", "done"}]
    /\ key \in [Request -> Key \cup {NoKey}]
    /\ force \in [Request -> BOOLEAN] /\ cancelled \in [Request -> BOOLEAN]
    /\ call \in [Request -> Request \cup {NoOne}]
    /\ inflight \in [Key -> Request \cup {NoOne}]
    /\ calls \in [Request -> [waiters : Nat, done : BOOLEAN, result : Results]]
    /\ refs \in [Request -> Nat] /\ serial \in [Request -> Nat]
    /\ cache \in [Key -> Nat] /\ parses \in Nat
    /\ answer \in [Request ->
          [body : Request \cup {NoOne}, serial : Nat,
           err : {"nil", "cancelled", "parse", "incomplete", "write", "unstored"}]]
    /\ newest \in [Key -> [published : Nat, answered : Nat]]
    /\ past \in [Request -> [published : Nat, answered : Nat]]

\* The requests that must each close the body some time: who sends it, the
\* leader of the call that returned it, and once it is published the waiters
\* that have not woken up yet.
Holders(b) ==
    {r \in Request :
        \/ pc[r] = "send" /\ answer[r].body = b
        \/ pc[r] \in {"check", "parse", "parsing", "store", "publish", "led"}
              /\ Shared(r).body = b
        \/ pc[r] = "wait" /\ calls[call[r]].done /\ Shared(r).body = b}

\* References are exact: a body is open as long as somebody is to read or close
\* it, and not a moment longer, whoever is cancelled before, at or after the
\* publication (doContext's Retain(waiters) against its cancelled branch).
RefsExact == \A b \in Request : refs[b] = Cardinality(Holders(b))

\* The waiters counter, which Retain relies on, is the number of requests that
\* wait for a call in flight.
WaitersExact ==
    \A k \in Key : inflight[k] # NoOne =>
        calls[inflight[k]].waiters =
            Cardinality({r \in Request : pc[r] = "wait" /\ call[r] = inflight[k]})

\* A forced request is answered with a conversion that was published after it
\* arrived, never with one that a call had returned before, also when it joined
\* an ordinary leader that only reread the cache.  It may be one whose leader
\* had stored it already, and which a reader of the cache was answered with
\* between that and the publication.
RefreshIsNew ==
    \A r \in Request :
        force[r] /\ pc[r] \in {"send", "done"} /\ answer[r].err = "nil"
            => answer[r].serial > past[r].published

\* For one key time does not run backwards: nobody gets an older conversion
\* than one that was already answered with when he asked.
AnswersMonotone ==
    \A r \in Request :
        pc[r] \in {"send", "done"} /\ answer[r].err = "nil"
            => answer[r].serial >= past[r].answered

\* A key is converted by one request at a time: from the call's entry in
\* inflight to the end of fn there is no second leader (flight.go 3 to 6).
OneConversion ==
    \A r, q \in Request :
        /\ pc[r] \in {"check", "parse", "parsing", "store", "publish"}
        /\ pc[q] \in {"check", "parse", "parsing", "store", "publish"}
        /\ key[r] = key[q]
        => r = q

\* What a call promises to those who share it: exact references, exact counts of waiters, and
\* one conversion of a key at a time.
FlightsExact == RefsExact /\ WaitersExact /\ OneConversion

\* Whoever asks is answered: leaders, waiters on any leader, a forced request
\* that has to try again, and those who queue for a slot.
Answered == \A r \in Request : pc[r] # "idle" ~> pc[r] = "done"

=============================================================================
