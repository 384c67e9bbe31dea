-------------------------- MODULE ConversionProofs --------------------------
(***************************************************************************)
(* Proofs about the conversions.                                           *)
(*                                                                         *)
(* ConvertFlight, for any number of requests, keys and slots: references   *)
(* and waiters are counted exactly, a key is converted by one request at a *)
(* time, and answers never go back.                                        *)
(*                                                                         *)
(* ReplaceStream, for every text, every pair of patterns that fit, and     *)
(* every way the reads may cut the text: the addresses are replaced in     *)
(* order.  RuleStream, for all lines, sources and targets: what is         *)
(* streamed is what is parsed in memory.  What the recursive functions of  *)
(* these two compute is proved from the least position where it would be   *)
(* wrong.                                                                  *)
(*                                                                         *)
(* NodeFormats, for all nodes and links of all types: a link that is       *)
(* written is read back, no export drops a field, and no parameter of a    *)
(* link is ignored.  Each document is a table, and a lemma called ...At    *)
(* gives its rows; one called ...Sense or ...Says goes through the fields. *)
(***************************************************************************)
EXTENDS ConvertFlight, Conversions, FiniteSetTheorems, SequenceTheorems, WellFoundedInduction, TLAPS

Leading(r) == pc[r] \in {"check", "parse", "parsing", "store", "publish"}
After(r)   == pc[r] \in {"led", "send", "done"}
Waiting(c) == {r \in Request : pc[r] = "wait" /\ call[r] = c}

\* A call is in flight as long as its leader is under way; who waits, waits for such a
\* call or for one that is over.
Calls ==
    /\ \A r \in Request : pc[r] # "idle" => key[r] \in Key
    /\ \A r \in Request : Leading(r) =>
          /\ call[r] = r /\ inflight[key[r]] = r /\ ~calls[r].done
          /\ calls[r].waiters = Cardinality(Waiting(r))
    /\ \A k \in Key : inflight[k] # NoOne => Leading(inflight[k]) /\ key[inflight[k]] = k
    /\ \A r \in Request : pc[r] = "led" => call[r] = r /\ calls[r].done
    /\ \A r \in Request : pc[r] = "wait" =>
          /\ call[r] \in Request /\ key[call[r]] = key[r]
          /\ Leading(call[r]) \/ (After(call[r]) /\ calls[call[r]].done)

\* What calls hold: their own body or none.
ValueOf(c) ==
    /\ calls[c].result.body \in {NoOne, c}
    /\ pc[c] \in {"check", "parse", "parsing"} => calls[c].result = Error("nil")
    /\ pc[c] = "store" => calls[c].result = Got(c, FALSE, FALSE)
    /\ calls[c].result.err # "nil" => calls[c].result.body = NoOne
    /\ (pc[c] = "publish" \/ calls[c].done) /\ calls[c].result.err = "nil" =>
          calls[c].result.body = c
    /\ pc[c] = "check" => ~force[c]
    /\ force[c] /\ (Leading(c) \/ pc[c] = "led") => ~calls[c].result.fromCache

Values ==
    /\ \A c \in Request : ValueOf(c)
    /\ \A r \in Request : pc[r] = "send" => answer[r].body \in Request /\ After(answer[r].body)

\* The body r is to close.
Hold(r) ==
    IF pc[r] = "send" THEN answer[r].body
    ELSE IF Leading(r) \/ pc[r] = "led" \/ (pc[r] = "wait" /\ calls[call[r]].done)
         THEN Shared(r).body ELSE NoOne

IInv == TypeOK /\ Calls /\ Values /\ RefsExact

Alone(r) ==
    \A q \in Request \ {r} :
        /\ pc'[q] = pc[q] /\ key'[q] = key[q] /\ force'[q] = force[q] /\ past'[q] = past[q]
        /\ call'[q] = call[q] /\ answer'[q] = answer[q]

\* The requests take their steps one by one.
LEMMA OneMoves ==
  ASSUME TypeOK, NEW r \in Request,
         Step(r) \/ Cancel(r) \/ \E k \in Key, f \in BOOLEAN : Arrive(r, k, f)
  PROVE  Alone(r)
<1>1. CASE \E k \in Key, f \in BOOLEAN : Arrive(r, k, f)
    BY <1>1 DEF Arrive, asked, flight, ends, Alone, TypeOK
<1>2. CASE Cancel(r)
    BY <1>2 DEF Cancel, asked, flight, ends, Alone
<1>3. CASE Lookup(r)
    BY <1>3 DEF Lookup, ReadMiss, ReadHit, Send, asked, flight, ends, Alone, TypeOK
<1>4. CASE DoContext(r)
    BY <1>4 DEF DoContext, JoinCancelled, Join, Lead, Fail, asked, flight, ends, Alone, TypeOK
<1>5. CASE Fn(r)
    BY <1>5 DEF Fn, CheckHit, CheckMiss, Acquire, AcquireCancelled, ParseFails, ParseIncomplete,
        ParseComplete, StoreSucceeds, StoreFails, Publish, asked, flight, ends, Alone, TypeOK
<1>6. CASE Finish(r)
    <2>1. CASE LeaveCall(r) \/ ReleaseLate(r) \/ TakeError(r) \/ TakeUnstored(r)
        BY <2>1 DEF LeaveCall, ReleaseLate, TakeError, TakeUnstored, Fail, asked, Alone, TypeOK
    <2>2. CASE TryAgain(r) \/ TakeResult(r) \/ Sent(r)
        BY <2>2 DEF TryAgain, TakeResult, Sent, Send, asked, flight, ends, Alone, TypeOK
    <2> QED
        BY <1>6, <2>1, <2>2 DEF Finish
<1> QED
    BY <1>1, <1>2, <1>3, <1>4, <1>5, <1>6 DEF Step

-----------------------------------------------------------------------------
(* Calls and those who wait for them.                                        *)

\* Steps that neither start nor end a call, nor join or leave one.
LEMMA CallsQuiet ==
  ASSUME TypeOK, Calls, NEW r \in Request, Alone(r), inflight' = inflight,
         \A c \in Request : calls'[c].done = calls[c].done /\ calls'[c].waiters = calls[c].waiters,
         key'[r] = key[r] \/ pc[r] = "idle", pc'[r] # "idle" => key'[r] \in Key,
         \/ Leading(r) /\ Leading(r)' /\ call'[r] = call[r]
         \/ /\ ~Leading(r) /\ ~Leading(r)' /\ pc'[r] # "led" /\ pc'[r] # "wait"
            /\ After(r) => After(r)'
            /\ pc[r] = "wait" => ~Leading(call[r])
         \/ pc'[r] = pc[r] /\ call'[r] = call[r]
  PROVE  Calls'
<1>1. \A q \in Request : Leading(q)' <=> Leading(q)
    BY DEF Alone, Leading
<1>2. \A q \in Request : After(q) => After(q)'
    BY DEF Alone, After, Leading
<1>3. ASSUME NEW c \in Request, Leading(c) PROVE Waiting(c)' = Waiting(c)
    BY <1>3 DEF Alone, Waiting, Leading
<1>4. \A q \in Request : pc'[q] # "idle" => key'[q] \in Key
    BY DEF Alone, Calls
<1>5. \A q \in Request : Leading(q) => key'[q] = key[q] /\ call'[q] = call[q]
    BY DEF Alone, Leading
<1>6. \A q \in Request : After(q) => key'[q] = key[q]
    BY DEF Alone, After
<1>7. ASSUME NEW q \in Request, pc'[q] = "wait"
      PROVE  /\ call'[q] \in Request /\ key'[call'[q]] = key'[q]
             /\ Leading(call[q])' \/ (After(call[q])' /\ calls'[call'[q]].done)
    <2>1. pc[q] = "wait" /\ call'[q] = call[q] /\ key'[q] = key[q]
        BY <1>7 DEF Alone, Leading
    <2>2. /\ call[q] \in Request /\ key[call[q]] = key[q]
          /\ Leading(call[q]) \/ (After(call[q]) /\ calls[call[q]].done)
        BY <2>1 DEF Calls
    <2>3. Leading(call[q])' <=> Leading(call[q])
        BY <1>1, <2>1, <2>2 DEF Leading
    <2>4. After(call[q]) => After(call[q])'
        BY <1>2, <2>1, <2>2 DEF After
    <2> QED
        BY <1>5, <1>6, <2>1, <2>2, <2>3, <2>4
<1>8. \A q \in Request : pc'[q] = "led" => call'[q] = q /\ calls'[q].done
    BY DEF Alone, Calls, Leading
<1>9. \A k \in Key : inflight'[k] # NoOne => inflight'[k] \in Request /\ inflight'[k] = inflight[k]
    BY DEF TypeOK
<1>10. ASSUME NEW q \in Request, Leading(q)'
       PROVE  /\ call'[q] = q /\ inflight'[key'[q]] = q /\ ~calls'[q].done
              /\ calls'[q].waiters = Cardinality(Waiting(q)')
    BY <1>1, <1>3, <1>5, <1>10 DEF Calls
<1>11. ASSUME NEW k \in Key, inflight'[k] # NoOne
       PROVE  Leading(inflight[k])' /\ key'[inflight'[k]] = k
    BY <1>1, <1>5, <1>9, <1>11 DEF Calls, Leading
<1> QED
    BY <1>4, <1>7, <1>8, <1>10, <1>11 DEF Calls

LEMMA WaitingFinite ==
  ASSUME NEW c \in Request
  PROVE  /\ IsFiniteSet(Waiting(c)) /\ Cardinality(Waiting(c)) \in Nat
<1>1. Waiting(c) \in SUBSET Request
    BY DEF Waiting
<1> QED
    BY <1>1, IdAssumption, FS_Subset, FS_CardinalityType

\* A request joins the call in flight.
LEMMA CallsJoin ==
  ASSUME TypeOK, Calls, NEW r \in Request, Join(r), Alone(r)
  PROVE  Calls'
<1>0. PICK c \in Request : c = inflight[key[r]]
    BY DEF Join, Calls, TypeOK
<1>1. /\ pc[r] = "join" /\ pc'[r] = "wait" /\ call'[r] = c /\ key' = key /\ inflight' = inflight
      /\ c # NoOne /\ c # r /\ Leading(c) /\ key[c] = key[r] /\ key[r] \in Key
    BY <1>0 DEF Join, asked, Calls, TypeOK, Leading
<1>2. /\ calls'[c].waiters = calls[c].waiters + 1 /\ calls'[c].done = calls[c].done
      /\ \A d \in Request \ {c} : calls'[d] = calls[d]
    BY <1>0, <1>1 DEF Join, TypeOK
<1>3. \A q \in Request : (Leading(q)' <=> Leading(q)) /\ (After(q)' <=> After(q))
    BY <1>1 DEF Alone, Leading, After
<1>4. Waiting(c)' = Waiting(c) \cup {r} /\ \A d \in Request \ {c} : Waiting(d)' = Waiting(d)
    BY <1>1 DEF Alone, Waiting
<1>5. Cardinality(Waiting(c)') = Cardinality(Waiting(c)) + 1
    <2>1. r \notin Waiting(c)
        BY <1>1 DEF Waiting
    <2> QED
      <3>1. IsFiniteSet(Waiting(c))
        BY <1>1, WaitingFinite
      <3>2. Cardinality(Waiting(c) \cup {r}) = Cardinality(Waiting(c)) + 1
        BY <2>1, <3>1, FS_AddElement
      <3> QED
        BY <1>4, <3>2
<1>6. ASSUME NEW q \in Request, pc'[q] = "wait"
      PROVE  /\ call'[q] \in Request /\ key[call'[q]] = key[q]
             /\ Leading(call[q])' \/ (After(call[q])' /\ calls'[call'[q]].done)
    <2>1. CASE q = r
        BY <1>1, <1>3, <2>1 DEF Leading
    <2>2. CASE q # r
      <3>1. pc[q] = "wait" /\ call'[q] = call[q]
        BY <1>6, <2>2 DEF Alone
      <3>2. /\ call[q] \in Request /\ key[call[q]] = key[q]
            /\ Leading(call[q]) \/ (After(call[q]) /\ calls[call[q]].done)
        BY <3>1 DEF Calls
      <3>3. (Leading(call[q])' <=> Leading(call[q])) /\ (After(call[q])' <=> After(call[q]))
        BY <1>3, <3>1, <3>2 DEF Leading, After
      <3> QED
        BY <1>2, <3>1, <3>2, <3>3
    <2> QED
        BY <2>1, <2>2
<1>7. ASSUME NEW q \in Request, Leading(q)'
      PROVE  /\ call'[q] = q /\ inflight[key[q]] = q /\ ~calls'[q].done
             /\ calls'[q].waiters = Cardinality(Waiting(q)')
    <2>1. Leading(q) /\ q # r /\ call'[q] = call[q]
        BY <1>1, <1>3, <1>7 DEF Alone, Leading
    <2>2. call[q] = q /\ inflight[key[q]] = q /\ ~calls[q].done /\ calls[q].waiters = Cardinality(Waiting(q))
        BY <2>1 DEF Calls
    <2>3. calls'[q].waiters = Cardinality(Waiting(q)') /\ ~calls'[q].done
      <3>1. CASE q = c
        BY <1>2, <1>4, <1>5, <2>2, <3>1
      <3>2. CASE q # c
        BY <1>2, <1>4, <2>2, <3>2
      <3> QED
        BY <3>1, <3>2
    <2> QED
        BY <2>1, <2>2, <2>3
<1>8. ASSUME NEW k \in Key, inflight[k] # NoOne PROVE Leading(inflight[k])' /\ key[inflight[k]] = k
    <2>1. inflight[k] \in Request /\ Leading(inflight[k]) /\ key[inflight[k]] = k
        BY <1>8 DEF Calls, TypeOK
    <2> QED
        BY <1>1, <1>3, <2>1 DEF Leading
<1>9. \A q \in Request : pc'[q] = "led" => call'[q] = q /\ calls'[q].done
    BY <1>1, <1>2 DEF Calls, Alone
<1>10. \A q \in Request : pc'[q] # "idle" => key[q] \in Key
    BY <1>1 DEF Calls, Alone
<1> QED
    BY <1>1, <1>6, <1>7, <1>8, <1>9, <1>10 DEF Calls

\* It leads a call of its own.
LEMMA CallsLead ==
  ASSUME TypeOK, Calls, NEW r \in Request, Lead(r), Alone(r)
  PROVE  Calls'
<1>1. /\ pc[r] = "join" /\ Leading(r)' /\ call'[r] = r /\ key' = key /\ key[r] \in Key
      /\ inflight[key[r]] = NoOne /\ inflight'[key[r]] = r
      /\ \A k \in Key \ {key[r]} : inflight'[k] = inflight[k]
      /\ calls'[r] = FreshCall /\ \A d \in Request \ {r} : calls'[d] = calls[d]
    BY DEF Lead, asked, Calls, TypeOK, Leading
<1>2. /\ \A q \in Request \ {r} : (Leading(q)' <=> Leading(q)) /\ (After(q)' <=> After(q))
      /\ ~Leading(r) /\ ~After(r)
    BY <1>1 DEF Alone, Leading, After
<1>3. Waiting(r)' = {} /\ \A d \in Request : Waiting(d)' = Waiting(d)
    BY <1>1, <1>2 DEF Alone, Waiting, Calls, Leading
<1>4. Cardinality(Waiting(r)') = 0
    BY <1>3, FS_EmptySet
<1>5. ASSUME NEW q \in Request, pc'[q] = "wait"
      PROVE  /\ call'[q] \in Request /\ key[call'[q]] = key[q]
             /\ Leading(call[q])' \/ (After(call[q])' /\ calls'[call'[q]].done)
    <2>1. q # r /\ pc[q] = "wait" /\ call'[q] = call[q]
        BY <1>1, <1>5 DEF Alone, Leading
    <2>2. /\ call[q] \in Request \ {r} /\ key[call[q]] = key[q]
          /\ Leading(call[q]) \/ (After(call[q]) /\ calls[call[q]].done)
        BY <1>2, <2>1 DEF Calls
    <2>3. (Leading(call[q])' <=> Leading(call[q])) /\ (After(call[q])' <=> After(call[q]))
        BY <1>2, <2>1, <2>2 DEF Leading, After
    <2> QED
        BY <1>1, <2>1, <2>2, <2>3
<1>6. ASSUME NEW q \in Request, Leading(q)'
      PROVE  /\ call'[q] = q /\ inflight'[key[q]] = q /\ ~calls'[q].done
             /\ calls'[q].waiters = Cardinality(Waiting(q)')
    <2>1. CASE q = r
        BY <1>1, <1>4, <2>1 DEF FreshCall
    <2>2. CASE q # r
      <3>1. Leading(q) /\ call'[q] = call[q] /\ key[q] \in Key
        BY <1>2, <1>6, <2>2 DEF Alone, Leading, Calls
      <3>2. key[q] # key[r]
        BY <1>1, <3>1, IdAssumption DEF Calls
      <3> QED
        BY <1>1, <1>3, <2>2, <3>1, <3>2 DEF Calls
    <2> QED
        BY <2>1, <2>2
<1>7. ASSUME NEW k \in Key, inflight'[k] # NoOne
      PROVE  pc'[inflight'[k]] \in {"check", "parse", "parsing", "store", "publish"} /\ key[inflight'[k]] = k
    <2>1. CASE k = key[r]
        BY <1>1, <2>1 DEF Leading
    <2>2. CASE k # key[r]
      <3>1. inflight'[k] = inflight[k] /\ inflight[k] \in Request /\ Leading(inflight[k]) /\ key[inflight[k]] = k
        BY <1>1, <1>7, <2>2 DEF Calls, TypeOK
      <3> QED
        BY <1>1, <2>2, <3>1 DEF Alone, Leading
    <2> QED
        BY <2>1, <2>2
<1>8. \A q \in Request : pc'[q] = "led" => call'[q] = q /\ calls'[q].done
    BY <1>1 DEF Calls, Alone, Leading
<1>9. \A q \in Request : pc'[q] # "idle" => key[q] \in Key
    BY <1>1 DEF Calls, Alone
<1> QED
    BY <1>1, <1>5, <1>6, <1>7, <1>8, <1>9 DEF Calls, Leading

\* A waiter leaves a call in flight.
LEMMA CallsLeave ==
  ASSUME TypeOK, Calls, NEW r \in Request, LeaveCall(r), Alone(r)
  PROVE  Calls' /\ calls' \in [Request -> [waiters : Nat, done : BOOLEAN, result : Results]]
<1>0. PICK c \in Request : c = call[r]
    BY DEF LeaveCall, Calls
<1>1. /\ pc[r] = "wait" /\ pc'[r] = "done" /\ key' = key /\ inflight' = inflight
      /\ c # r /\ Leading(c) /\ key[c] = key[r] /\ key[r] \in Key
    <2>1. /\ pc[r] = "wait" /\ pc'[r] = "done" /\ key' = key /\ inflight' = inflight
          /\ inflight[key[r]] = call[r]
        BY DEF LeaveCall, Fail, asked, TypeOK
    <2>2. key[r] \in Key /\ call[r] \in Request
        BY <2>1 DEF Calls
    <2>3. Leading(call[r]) /\ key[call[r]] = key[r]
        BY <2>1, <2>2, IdAssumption DEF Calls
    <2> QED
        BY <1>0, <2>1, <2>2, <2>3 DEF Leading
<1>2. /\ calls'[c].waiters = calls[c].waiters - 1 /\ calls'[c].done = calls[c].done
      /\ \A d \in Request \ {c} : calls'[d] = calls[d]
      /\ calls' = [calls EXCEPT ![c].waiters = calls[c].waiters - 1]
    BY <1>0, <1>1 DEF LeaveCall, TypeOK
<1>3. /\ \A q \in Request : (Leading(q)' <=> Leading(q)) /\ (After(q) => After(q)')
      /\ \A q \in Request \ {r} : After(q)' <=> After(q)
    BY <1>1 DEF Alone, Leading, After
<1>4. Waiting(c)' = Waiting(c) \ {r} /\ \A d \in Request \ {c} : Waiting(d)' = Waiting(d)
    <2>1. \A q \in Request \ {r} : pc'[q] = pc[q] /\ call'[q] = call[q]
        BY DEF Alone
    <2>2. \A d \in Request : Waiting(d)' = {q \in Request : pc'[q] = "wait" /\ call'[q] = d}
        BY DEF Waiting
    <2>3. pc[r] = "wait" /\ pc'[r] = "done" /\ call[r] = c
        BY <1>0, <1>1
    <2>4. \A d \in Request : Waiting(d)' = Waiting(d) \ {r}
        BY <2>1, <2>2, <2>3 DEF Waiting
    <2>5. \A d \in Request \ {c} : r \notin Waiting(d)
        BY <2>3 DEF Waiting
    <2> QED
        BY <1>1, <2>4, <2>5
<1>5. Cardinality(Waiting(c)') = Cardinality(Waiting(c)) - 1 /\ Cardinality(Waiting(c)') \in Nat
    <2>1. r \in Waiting(c) /\ IsFiniteSet(Waiting(c))
        BY <1>0, <1>1, WaitingFinite DEF Waiting
    <2>2. IsFiniteSet(Waiting(c) \ {r}) /\ Cardinality(Waiting(c) \ {r}) = Cardinality(Waiting(c)) - 1
        BY <2>1, FS_RemoveElement
    <2> QED
        BY <1>4, <2>2, FS_CardinalityType
<1>6. calls[c].waiters = Cardinality(Waiting(c))
    BY <1>1 DEF Calls
<1>7. calls' \in [Request -> [waiters : Nat, done : BOOLEAN, result : Results]]
    <2> DEFINE w == calls[c].waiters - 1
    <2>1. w \in Nat
        BY <1>5, <1>6
    <2>2. calls' = [calls EXCEPT ![c].waiters = w]
        BY <1>2
    <2>3. calls \in [Request -> [waiters : Nat, done : BOOLEAN, result : Results]]
        BY DEF TypeOK
    <2> HIDE DEF w
    <2> QED
        BY <1>1, <2>1, <2>2, <2>3
<1>8. ASSUME NEW q \in Request, pc'[q] = "wait"
      PROVE  /\ call'[q] \in Request /\ key[call'[q]] = key[q]
             /\ Leading(call[q])' \/ (After(call[q])' /\ calls'[call'[q]].done)
    <2>1. pc[q] = "wait" /\ call'[q] = call[q]
        BY <1>1, <1>8 DEF Alone
    <2>2. /\ call[q] \in Request /\ key[call[q]] = key[q]
          /\ Leading(call[q]) \/ (After(call[q]) /\ calls[call[q]].done)
        BY <2>1 DEF Calls
    <2>3. (Leading(call[q])' <=> Leading(call[q])) /\ (After(call[q]) => After(call[q])')
        BY <1>3, <2>1, <2>2 DEF Leading, After
    <2> QED
        BY <1>2, <2>1, <2>2, <2>3
<1>9. ASSUME NEW q \in Request, Leading(q)'
      PROVE  /\ call'[q] = q /\ inflight[key[q]] = q /\ ~calls'[q].done
             /\ calls'[q].waiters = Cardinality(Waiting(q)')
    <2>1. Leading(q) /\ q # r /\ call'[q] = call[q]
        BY <1>1, <1>3, <1>9 DEF Alone, Leading
    <2>2. call[q] = q /\ inflight[key[q]] = q /\ ~calls[q].done /\ calls[q].waiters = Cardinality(Waiting(q))
        BY <2>1 DEF Calls
    <2>3. calls'[q].waiters = Cardinality(Waiting(q)') /\ ~calls'[q].done
      <3>1. CASE q = c
        BY <1>2, <1>4, <1>5, <2>2, <3>1
      <3>2. CASE q # c
        BY <1>2, <1>4, <2>2, <3>2
      <3> QED
        BY <3>1, <3>2
    <2> QED
        BY <2>1, <2>2, <2>3
<1>10. ASSUME NEW k \in Key, inflight[k] # NoOne PROVE Leading(inflight[k])' /\ key[inflight[k]] = k
    <2>1. inflight[k] \in Request /\ Leading(inflight[k]) /\ key[inflight[k]] = k
        BY <1>10 DEF Calls, TypeOK
    <2> QED
        BY <1>1, <1>3, <2>1 DEF Leading
<1>11. \A q \in Request : pc'[q] = "led" => call'[q] = q /\ calls'[q].done
    BY <1>1, <1>2 DEF Calls, Alone
<1>12. \A q \in Request : pc'[q] # "idle" => key[q] \in Key
    BY <1>1 DEF Calls, Alone
<1> QED
    BY <1>1, <1>7, <1>8, <1>9, <1>10, <1>11, <1>12 DEF Calls

\* The leader ends the call.
LEMMA CallsPublish ==
  ASSUME TypeOK, Calls, NEW r \in Request, Publish(r), Alone(r)
  PROVE  Calls'
<1>1. /\ pc[r] = "publish" /\ pc'[r] = "led" /\ key' = key /\ call' = call /\ call[r] = r
      /\ key[r] \in Key /\ inflight[key[r]] = r /\ inflight'[key[r]] = NoOne
      /\ \A k \in Key \ {key[r]} : inflight'[k] = inflight[k]
      /\ calls'[r].done = TRUE /\ \A d \in Request \ {r} : calls'[d] = calls[d]
    BY DEF Publish, Wake, asked, Calls, TypeOK, Leading
<1>2. /\ \A q \in Request \ {r} : (Leading(q)' <=> Leading(q)) /\ (After(q)' <=> After(q))
      /\ After(r)'
    BY <1>1 DEF Alone, Leading, After
<1>3. \A d \in Request : Waiting(d)' = Waiting(d)
    BY <1>1 DEF Alone, Waiting
<1>4. ASSUME NEW q \in Request, pc'[q] = "wait"
      PROVE  /\ call[q] \in Request /\ key[call[q]] = key[q]
             /\ Leading(call[q])' \/ (After(call[q])' /\ calls'[call[q]].done)
    <2>1. q # r /\ pc[q] = "wait"
        BY <1>1, <1>4 DEF Alone
    <2>2. /\ call[q] \in Request /\ key[call[q]] = key[q]
          /\ Leading(call[q]) \/ (After(call[q]) /\ calls[call[q]].done)
        BY <2>1 DEF Calls
    <2>3. CASE call[q] = r
        BY <1>1, <1>2, <2>2, <2>3 DEF After
    <2>4. CASE call[q] # r
      <3>1. (Leading(call[q])' <=> Leading(call[q])) /\ (After(call[q])' <=> After(call[q]))
        BY <1>1, <1>2, <2>2, <2>4 DEF Leading, After
      <3> QED
        BY <1>1, <2>2, <2>4, <3>1
    <2> QED
        BY <2>3, <2>4
<1>5. ASSUME NEW q \in Request, Leading(q)'
      PROVE  /\ call[q] = q /\ inflight'[key[q]] = q /\ ~calls'[q].done
             /\ calls'[q].waiters = Cardinality(Waiting(q)')
    <2>1. q # r /\ Leading(q) /\ key[q] \in Key
        BY <1>1, <1>2, <1>5 DEF Leading, Calls
    <2>2. key[q] # key[r]
        BY <1>1, <2>1 DEF Calls
    <2> QED
        BY <1>1, <1>3, <2>1, <2>2 DEF Calls
<1>6. ASSUME NEW k \in Key, inflight'[k] # NoOne
      PROVE  pc'[inflight'[k]] \in {"check", "parse", "parsing", "store", "publish"} /\ key[inflight'[k]] = k
    <2>1. k # key[r] /\ inflight'[k] = inflight[k]
        BY <1>1, <1>6
    <2>2. inflight[k] \in Request /\ Leading(inflight[k]) /\ key[inflight[k]] = k /\ inflight[k] # r
        BY <1>1, <1>6, <2>1 DEF Calls, TypeOK
    <2> QED
        BY <2>1, <2>2 DEF Alone, Leading
<1>7. \A q \in Request : pc'[q] = "led" => call[q] = q /\ calls'[q].done
    BY <1>1 DEF Calls, Alone
<1>8. \A q \in Request : pc'[q] # "idle" => key[q] \in Key
    BY <1>1 DEF Calls, Alone
<1> QED
    BY <1>1, <1>4, <1>5, <1>6, <1>7, <1>8 DEF Calls, Leading

-----------------------------------------------------------------------------
(* Types.                                                                    *)

\* What a request finds in the call that returned.
LEMMA SharedFacts ==
  ASSUME TypeOK, Calls, Values, NEW r \in Request, Returned(r)
  PROVE  /\ call[r] \in Request /\ After(call[r]) /\ calls[call[r]].done /\ key[call[r]] = key[r]
         /\ Shared(r).err = "nil" => Shared(r).body = call[r]
         /\ Shared(r).err # "nil" => Shared(r).body = NoOne
         /\ pc[r] = "led" => call[r] = r
<1>1. call[r] \in Request /\ calls[call[r]].done /\ (pc[r] = "led" => call[r] = r)
    BY DEF Returned, Calls
<1>2. After(call[r]) /\ key[call[r]] = key[r]
    BY <1>1 DEF Returned, Calls, After
<1> QED
    BY <1>1, <1>2 DEF Values, ValueOf, Shared

LEMMA ResultTypes ==
  ASSUME NEW r \in Request
  PROVE  /\ \A f \in BOOLEAN, t \in BOOLEAN : Got(r, f, t) \in Results
         /\ \A e \in {"nil", "cancelled", "parse", "incomplete", "write"} : Error(e) \in Results
         /\ \A f \in BOOLEAN, t \in BOOLEAN : Got(r, f, t).body = r /\ Got(r, f, t).err = "nil"
                                              /\ Got(r, f, t).fromCache = f /\ Got(r, f, t).stored = t
         /\ \A e : /\ Error(e).body = NoOne /\ Error(e).err = e
                   /\ Error(e).fromCache = FALSE /\ Error(e).stored = FALSE
BY DEF Got, Error, Results

\* The leader's fn changes what its own call holds.
LEMMA FnMoves ==
  ASSUME TypeOK, Values, NEW r \in Request, Fn(r), ~Publish(r)
  PROVE  /\ Leading(r) /\ Leading(r)'
         /\ UNCHANGED <<asked, cancelled, call, inflight, ends>>
         /\ \E res \in Results :
              /\ calls' = [calls EXCEPT ![r].result = res]
              /\ \/ /\ pc[r] \in {"check", "parse"} /\ pc'[r] \in {"parse", "parsing"}
                    /\ res = Error("nil") /\ UNCHANGED <<refs, serial, cached>>
                 \/ /\ pc[r] = "check" /\ pc'[r] = "publish" /\ res = Got(r, TRUE, FALSE)
                    /\ cache[key[r]] # 0 /\ Open(r, cache[key[r]]) /\ UNCHANGED cached
                 \/ /\ pc[r] \in {"parse", "parsing"} /\ pc'[r] = "publish"
                    /\ \E e \in {"cancelled", "parse", "incomplete"} : res = Error(e)
                    /\ UNCHANGED <<refs, serial, cache>> /\ parses' \in {parses, parses + 1}
                 \/ /\ pc[r] = "parsing" /\ pc'[r] \in {"publish", "store"} /\ res = Got(r, FALSE, FALSE)
                    /\ (pc'[r] = "publish" => ~force[r])
                    /\ Open(r, parses + 1) /\ parses' = parses + 1 /\ UNCHANGED cache
                 \/ /\ pc[r] = "store" /\ pc'[r] = "publish" /\ res = Got(r, FALSE, TRUE)
                    /\ cache' = [cache EXCEPT ![key[r]] = serial[r]] /\ UNCHANGED <<refs, serial, parses>>
                 \/ /\ pc[r] = "store" /\ pc'[r] = "publish" /\ force[r] /\ res = Error("write")
                    /\ Close(r) /\ UNCHANGED cached
                 \/ /\ pc[r] = "store" /\ pc'[r] = "publish" /\ ~force[r] /\ res = Got(r, FALSE, FALSE)
                    /\ UNCHANGED <<refs, serial, cached>>
<1> USE DEF asked, ends, cached, bodies, flight
<1>1. \A res \in Results : calls[r].result = res => calls = [calls EXCEPT ![r].result = res]
    BY DEF TypeOK
<1>2. Error("nil") \in Results
    BY ResultTypes
<1>3. CASE CheckHit(r)
    BY ZenonT(100), <1>3, ResultTypes DEF CheckHit, Returns, Leading, TypeOK
<1>4. CASE CheckMiss(r)
    BY <1>1, <1>2, <1>4 DEF CheckMiss, Leading, Values, ValueOf, TypeOK
<1>5. CASE Acquire(r)
    BY <1>1, <1>2, <1>5 DEF Acquire, Leading, Values, ValueOf, TypeOK
<1>6. CASE AcquireCancelled(r)
    <2>1. Error("cancelled") \in Results
        BY ResultTypes
    <2>2. calls' = [calls EXCEPT ![r].result = Error("cancelled")]
        BY <1>6 DEF AcquireCancelled, Returns
    <2>3. pc[r] = "parse" /\ pc'[r] = "publish"
          /\ UNCHANGED <<refs, serial, cached, asked, cancelled, call, inflight, ends>>
        BY <1>6 DEF AcquireCancelled, TypeOK
    <2> QED
        BY <2>1, <2>2, <2>3 DEF Leading
<1>7. CASE ParseFails(r)
    <2> DEFINE e == IF cancelled[r] THEN "cancelled" ELSE "parse"
    <2>1. e \in {"cancelled", "parse", "incomplete"} /\ Error(e) \in Results
        BY ResultTypes
    <2>2. calls' = [calls EXCEPT ![r].result = Error(e)]
        BY <1>7 DEF ParseFails, Returns
    <2> HIDE DEF e
    <2> QED
        BY <1>7, <2>1, <2>2 DEF ParseFails, Leading, TypeOK
<1>8. CASE ParseIncomplete(r)
    <2>1. CASE force[r]
        BY ZenonT(100), <1>8, <2>1, ResultTypes DEF ParseIncomplete, Returns, Leading, TypeOK
    <2>2. CASE ~force[r]
        BY ZenonT(100), <1>8, <2>2, ResultTypes DEF ParseIncomplete, Returns, Leading, TypeOK
    <2> QED
        BY <2>1, <2>2
<1>9. CASE ParseComplete(r)
    BY ZenonT(100), <1>9, ResultTypes DEF ParseComplete, Returns, Leading, TypeOK
<1>10. CASE StoreSucceeds(r)
    BY <1>10, ResultTypes DEF StoreSucceeds, Returns, Leading, TypeOK
<1>11. CASE StoreFails(r)
    <2>1. CASE force[r]
      <3>1. Error("write") \in Results
        BY ResultTypes
      <3>2. calls' = [calls EXCEPT ![r].result = Error("write")]
        BY <1>11, <2>1 DEF StoreFails, Returns
      <3>3. pc[r] = "store" /\ pc'[r] = "publish" /\ Close(r)
            /\ UNCHANGED <<cached, asked, cancelled, call, inflight, ends>>
        BY <1>11, <2>1 DEF StoreFails, TypeOK
      <3> QED
        BY <2>1, <3>1, <3>2, <3>3 DEF Leading
    <2>2. CASE ~force[r]
      <3>1. /\ calls' = calls /\ pc[r] = "store" /\ pc'[r] = "publish"
            /\ UNCHANGED <<refs, serial, cached, asked, cancelled, call, inflight, ends>>
        BY <1>11, <2>2 DEF StoreFails, TypeOK
      <3>2. Got(r, FALSE, FALSE) \in Results /\ calls[r].result = Got(r, FALSE, FALSE)
        BY <3>1, ResultTypes DEF Values, ValueOf
      <3> QED
        BY <1>1, <2>2, <3>1, <3>2 DEF Leading
    <2> QED
        BY <2>1, <2>2
<1> QED
    BY <1>3, <1>4, <1>5, <1>6, <1>7, <1>8, <1>9, <1>10, <1>11 DEF Fn

-----------------------------------------------------------------------------
(* References.                                                               *)

\* A body is held by those who are to close it.
LEMMA HoldersAre ==
  ASSUME NEW b \in Request
  PROVE  /\ Holders(b) = {q \in Request : Hold(q) = b}
         /\ Holders(b)' = {q \in Request : Hold(q)' = b}
         /\ IsFiniteSet(Holders(b)) /\ Cardinality(Holders(b)) \in Nat
         /\ IsFiniteSet(Holders(b)') /\ Cardinality(Holders(b)') \in Nat
<1>1. b # NoOne
    BY IdAssumption
<1>2. Holders(b) = {q \in Request : Hold(q) = b}
    BY <1>1 DEF Holders, Hold, Leading
<1>3. Holders(b)' = {q \in Request : Hold(q)' = b}
    BY <1>1 DEF Holders, Hold, Leading
<1>4. IsFiniteSet(Holders(b)) /\ IsFiniteSet(Holders(b)')
    BY <1>2, <1>3, IdAssumption, FS_Subset
<1> QED
    BY <1>2, <1>3, <1>4, FS_CardinalityType

\* The call of r may change what it holds before it is over.
CallsFrame(r) ==
    /\ \A c \in Request \ {r} : calls'[c].done = calls[c].done /\ calls'[c].result = calls[c].result
    /\ \/ pc[r] = "join"
       \/ calls'[r].done = calls[r].done /\ (calls[r].done => calls'[r].result = calls[r].result)

LEMMA HoldFrame ==
  ASSUME Calls, NEW r \in Request, Alone(r), CallsFrame(r), NEW q \in Request \ {r}
  PROVE  Hold(q)' = Hold(q)
<1>1. pc'[q] = pc[q] /\ call'[q] = call[q] /\ answer'[q] = answer[q]
    BY DEF Alone
<1>2. CASE Leading(q) \/ pc[q] = "led"
    <2>1. call[q] = q /\ calls'[q].result = calls[q].result
        BY <1>2 DEF Calls, CallsFrame
    <2> QED
        BY <1>1, <1>2, <2>1 DEF Hold, Leading, Shared
<1>3. CASE pc[q] = "wait"
    <2>1. call[q] \in Request /\ (call[q] = r => pc[r] # "join")
        BY <1>3 DEF Calls, Leading, After
    <2>2. calls'[call[q]].done = calls[call[q]].done
          /\ (calls[call[q]].done => calls'[call[q]].result = calls[call[q]].result)
        BY <2>1 DEF CallsFrame
    <2> QED
        BY <1>1, <1>3, <2>2 DEF Hold, Leading, Shared
<1>4. CASE ~Leading(q) /\ pc[q] \notin {"led", "wait"}
    BY <1>1, <1>4 DEF Hold, Leading
<1> QED
    BY <1>2, <1>3, <1>4

\* The three ways in which a step of one request changes who holds what.
LEMMA RefsMove ==
  ASSUME TypeOK, Calls, RefsExact, NEW r \in Request, Alone(r), CallsFrame(r),
         \/ Hold(r)' = Hold(r) /\ refs' = refs
         \/ /\ Hold(r) = NoOne /\ Hold(r)' = r /\ \A q \in Request : Hold(q) # r
            /\ refs' = [refs EXCEPT ![r] = 1]
         \/ /\ Hold(r) \in Request /\ Hold(r)' = NoOne
            /\ refs' = [refs EXCEPT ![Hold(r)] = @ - 1]
  PROVE  RefsExact' /\ refs' \in [Request -> Nat]
<1> SUFFICES ASSUME NEW b \in Request PROVE refs'[b] = Cardinality(Holders(b)')
    BY HoldersAre DEF RefsExact, TypeOK
<1>1. \A q \in Request \ {r} : Hold(q)' = Hold(q)
    BY HoldFrame
<1>2. refs[b] = Cardinality(Holders(b)) /\ refs[b] \in Nat
    BY DEF RefsExact, TypeOK
<1>3. NoOne \notin Request
    BY IdAssumption
<1>4. ASSUME Hold(r)' = b <=> Hold(r) = b PROVE Holders(b)' = Holders(b)
    BY ZenonT(100), <1>1, <1>4, HoldersAre
<1>5. CASE Hold(r)' = Hold(r) /\ refs' = refs
    BY <1>2, <1>4, <1>5
<1>6. CASE /\ Hold(r) = NoOne /\ Hold(r)' = r /\ \A q \in Request : Hold(q) # r
           /\ refs' = [refs EXCEPT ![r] = 1]
    <2>1. CASE b # r
      <3>1. Hold(r)' # b /\ Hold(r) # b /\ refs'[b] = refs[b]
        BY <1>3, <1>6, <2>1 DEF TypeOK
      <3> QED
        BY <1>2, <1>4, <3>1
    <2>2. CASE b = r
      <3>1. Holders(b)' = {r}
        BY <1>1, <1>6, <2>2, HoldersAre
      <3>2. Cardinality({r}) = 1
        BY FS_Singleton
      <3> QED
        BY <1>6, <2>2, <3>1, <3>2 DEF TypeOK
    <2> QED
        BY <2>1, <2>2
<1>7. CASE /\ Hold(r) \in Request /\ Hold(r)' = NoOne
           /\ refs' = [refs EXCEPT ![Hold(r)] = @ - 1]
    <2>1. CASE b # Hold(r)
      <3>1. Hold(r)' # b /\ Hold(r) # b /\ refs'[b] = refs[b]
        BY <1>3, <1>7, <2>1 DEF TypeOK
      <3> QED
        BY <1>2, <1>4, <3>1
    <2>2. CASE b = Hold(r)
      <3>1. Holders(b)' = Holders(b) \ {r} /\ r \in Holders(b)
        BY <1>1, <1>3, <1>7, <2>2, HoldersAre
      <3>2. Cardinality(Holders(b)') = Cardinality(Holders(b)) - 1
        BY <3>1, HoldersAre, FS_RemoveElement
      <3>3. refs'[b] = refs[b] - 1
        BY <1>7, <2>2 DEF TypeOK
      <3> QED
        BY <1>2, <3>2, <3>3
    <2> QED
        BY <2>1, <2>2
<1> QED
    BY <1>5, <1>6, <1>7

\* Nobody holds the body of a request that has opened none.
LEMMA NobodyHolds ==
  ASSUME TypeOK, Calls, Values, NEW r \in Request,
         pc[r] \in {"idle", "read", "join", "wait", "check", "parse", "parsing"}
  PROVE  \A q \in Request : Hold(q) # r
<1> SUFFICES ASSUME NEW q \in Request, Hold(q) = r PROVE FALSE
    OBVIOUS
<1>1. r # NoOne /\ ~After(r)
    BY IdAssumption DEF After
<1>2. CASE pc[q] = "send"
    BY <1>1, <1>2 DEF Hold, Values, ValueOf
<1>3. CASE Leading(q) \/ pc[q] = "led"
    <2>1. call[q] = q /\ calls[q].result.body = r
        BY <1>3 DEF Hold, Shared, Calls, Leading
    <2>2. q = r
        BY <1>1, <2>1 DEF Values, ValueOf
    <2>3. calls[r].result = Error("nil")
        BY <1>3, <2>2 DEF Values, ValueOf, Leading
    <2> QED
        BY <1>1, <2>1, <2>2, <2>3 DEF Error
<1>4. CASE pc[q] = "wait" /\ calls[call[q]].done
    <2>1. call[q] \in Request /\ calls[call[q]].result.body = r
        BY <1>4 DEF Hold, Shared, Calls, Leading
    <2>2. call[q] = r
        BY <1>1, <2>1 DEF Values, ValueOf
    <2> QED
        BY <1>1, <1>4, <2>2 DEF Calls, Leading, After
<1> QED
    BY <1>1, <1>2, <1>3, <1>4 DEF Hold

\* The leader's fn opens a body or not, and closes it if a forced one cannot store it.
LEMMA RefsFn ==
  ASSUME TypeOK, Calls, Values, RefsExact, NEW r \in Request, Fn(r), ~Publish(r), Alone(r)
  PROVE  RefsExact' /\ refs' \in [Request -> Nat]
<1>1. PICK res \in Results :
        /\ calls' = [calls EXCEPT ![r].result = res]
        /\ \/ /\ pc[r] \in {"check", "parse"} /\ pc'[r] \in {"parse", "parsing"}
              /\ res = Error("nil") /\ UNCHANGED <<refs, serial, cached>>
           \/ /\ pc[r] = "check" /\ pc'[r] = "publish" /\ res = Got(r, TRUE, FALSE)
              /\ cache[key[r]] # 0 /\ Open(r, cache[key[r]]) /\ UNCHANGED cached
           \/ /\ pc[r] \in {"parse", "parsing"} /\ pc'[r] = "publish"
              /\ \E e \in {"cancelled", "parse", "incomplete"} : res = Error(e)
              /\ UNCHANGED <<refs, serial, cache>> /\ parses' \in {parses, parses + 1}
           \/ /\ pc[r] = "parsing" /\ pc'[r] \in {"publish", "store"} /\ res = Got(r, FALSE, FALSE)
              /\ (pc'[r] = "publish" => ~force[r])
              /\ Open(r, parses + 1) /\ parses' = parses + 1 /\ UNCHANGED cache
           \/ /\ pc[r] = "store" /\ pc'[r] = "publish" /\ res = Got(r, FALSE, TRUE)
              /\ cache' = [cache EXCEPT ![key[r]] = serial[r]] /\ UNCHANGED <<refs, serial, parses>>
           \/ /\ pc[r] = "store" /\ pc'[r] = "publish" /\ force[r] /\ res = Error("write")
              /\ Close(r) /\ UNCHANGED cached
           \/ /\ pc[r] = "store" /\ pc'[r] = "publish" /\ ~force[r] /\ res = Got(r, FALSE, FALSE)
              /\ UNCHANGED <<refs, serial, cached>>
    BY FnMoves
<1>2. Leading(r) /\ Leading(r)' /\ call' = call /\ call[r] = r /\ ~calls[r].done
    BY FnMoves DEF Calls
<1>3. /\ calls'[r].result = res /\ calls'[r].done = calls[r].done
      /\ \A c \in Request \ {r} : calls'[c] = calls[c]
    BY <1>1 DEF TypeOK
<1>4. CallsFrame(r)
    BY <1>2, <1>3 DEF CallsFrame
<1>5. Hold(r) = calls[r].result.body /\ Hold(r)' = res.body
    BY <1>2, <1>3 DEF Hold, Shared, Leading
<1>6. pc[r] \in {"check", "parse", "parsing"} => Hold(r) = NoOne /\ \A q \in Request : Hold(q) # r
    BY <1>5, NobodyHolds DEF Values, ValueOf, Error
<1>7. ASSUME pc[r] = "store" PROVE Hold(r) = r
    <2>1. calls[r].result = Got(r, FALSE, FALSE)
        BY <1>7 DEF Values, ValueOf
    <2>2. Got(r, FALSE, FALSE).body = r
        BY ResultTypes
    <2> QED
        BY <1>5, <2>1, <2>2
<1>8. CASE res.body = NoOne /\ refs' = refs /\ pc[r] \in {"check", "parse", "parsing"}
    BY <1>4, <1>5, <1>6, <1>8, RefsMove
<1>9. CASE res.body = r /\ refs' = [refs EXCEPT ![r] = 1] /\ pc[r] \in {"check", "parse", "parsing"}
    BY <1>4, <1>5, <1>6, <1>9, RefsMove
<1>10. CASE res.body = r /\ refs' = refs /\ pc[r] = "store"
    BY <1>4, <1>5, <1>7, <1>10, RefsMove
<1>11. CASE res.body = NoOne /\ refs' = [refs EXCEPT ![r] = @ - 1] /\ pc[r] = "store"
    BY <1>4, <1>5, <1>7, <1>11, RefsMove
<1> QED
    BY <1>1, <1>8, <1>9, <1>10, <1>11, IdAssumption DEF Got, Error, Open, Close

\* At the end of fn the leader gives each waiter a reference.
LEMMA RefsPublish ==
  ASSUME TypeOK, Calls, Values, RefsExact, NEW r \in Request, Publish(r), Alone(r)
  PROVE  RefsExact' /\ refs' \in [Request -> Nat]
<1>1. /\ pc[r] = "publish" /\ pc'[r] = "led" /\ call' = call /\ call[r] = r /\ ~calls[r].done
      /\ calls'[r].done = TRUE /\ calls'[r].result = calls[r].result
      /\ calls[r].waiters = Cardinality(Waiting(r))
      /\ \A d \in Request \ {r} : calls'[d] = calls[d]
    BY DEF Publish, Wake, Calls, TypeOK, Leading
<1>0. PICK body \in {NoOne, r} : body = calls[r].result.body
    BY DEF Values, ValueOf
<1>2. NoOne \notin Request
    BY IdAssumption
<1>3. \A q \in Waiting(r) : Hold(q) = NoOne /\ Hold(q)' = body
    BY <1>0, <1>1 DEF Waiting, Alone, Hold, Shared, Leading
<1>4. \A q \in Request \ Waiting(r) : Hold(q)' = Hold(q)
    <2>1. Hold(r)' = Hold(r) /\ r \notin Waiting(r)
        BY <1>1 DEF Hold, Shared, Leading, Waiting
    <2>2. ASSUME NEW q \in Request \ Waiting(r), q # r PROVE Hold(q)' = Hold(q)
      <3>1. pc'[q] = pc[q] /\ answer'[q] = answer[q] /\ call'[q] = call[q]
        BY <2>2 DEF Alone
      <3>2. pc[q] = "wait" => call[q] \in Request \ {r} /\ calls'[call[q]] = calls[call[q]]
        BY <1>1, <2>2 DEF Waiting, Calls
      <3>3. Leading(q) \/ pc[q] = "led" => call[q] = q /\ calls'[q] = calls[q]
        BY <1>1, <2>2 DEF Calls
      <3> QED
        BY <3>1, <3>2, <3>3 DEF Hold, Shared, Leading
    <2> QED
        BY <2>1, <2>2
<1> SUFFICES ASSUME NEW b \in Request PROVE refs'[b] = Cardinality(Holders(b)')
    <2>1. refs' = IF body = NoOne THEN refs ELSE [refs EXCEPT ![body] = @ + calls[r].waiters]
        BY <1>0, <1>1 DEF Publish, Share, Shared
    <2>2. refs' = [b \in Request |-> refs'[b]]
        BY <2>1 DEF TypeOK
    <2> QED
        BY <2>2, HoldersAre DEF RefsExact
<1>5. refs[b] = Cardinality(Holders(b))
    BY DEF RefsExact
<1>6. CASE b # body
    <2>1. \A q \in Request : Hold(q)' = b <=> Hold(q) = b
        BY <1>2, <1>3, <1>4, <1>6
    <2>3. Holders(b)' = Holders(b)
        BY <2>1, HoldersAre
    <2>2. refs'[b] = refs[b]
        BY <1>0, <1>1, <1>2, <1>6 DEF Publish, Share, Shared, TypeOK
    <2> QED
        BY <1>5, <2>2, <2>3
<1>7. CASE b = body
    <2>1. b = r /\ refs'[b] = refs[b] + Cardinality(Waiting(r))
        BY <1>0, <1>1, <1>2, <1>7 DEF Publish, Share, Shared, TypeOK
    <2>2. Holders(b)' = Holders(b) \cup Waiting(r) /\ Holders(b) \cap Waiting(r) = {}
        BY <1>2, <1>3, <1>4, <1>7, HoldersAre DEF Waiting
    <2>3. IsFiniteSet(Holders(b)) /\ IsFiniteSet(Waiting(r)) /\ Cardinality(Holders(b) \cap Waiting(r)) = 0
        BY <2>2, HoldersAre, WaitingFinite, FS_EmptySet
    <2>4. Cardinality(Holders(b)') = Cardinality(Holders(b)) + Cardinality(Waiting(r))
              - Cardinality(Holders(b) \cap Waiting(r))
        BY <2>2, <2>3, FS_Union
    <2> QED
        BY <1>5, <2>1, <2>3, <2>4, HoldersAre, WaitingFinite
<1> QED
    BY <1>6, <1>7
\* Who is cancelled too late has been given a reference.
LEMMA LateReturned ==
  ASSUME Calls, NEW r \in Request, ReleaseLate(r)
  PROVE  Returned(r)
<1>1. pc[r] = "wait" /\ inflight[key[r]] # call[r]
    BY DEF ReleaseLate
<1>2. /\ call[r] \in Request /\ key[call[r]] = key[r]
      /\ Leading(call[r]) \/ (After(call[r]) /\ calls[call[r]].done)
    BY <1>1 DEF Calls
<1>3. ~Leading(call[r])
    BY <1>1, <1>2 DEF Calls
<1> QED
    BY <1>1, <1>2, <1>3 DEF Returned

\* A request comes, is cancelled, or looks at the cache.
LEMMA RefsLookup ==
  ASSUME TypeOK, Calls, Values, RefsExact, NEW r \in Request, Alone(r),
         Lookup(r) \/ Cancel(r) \/ \E k \in Key, f \in BOOLEAN : Arrive(r, k, f)
  PROVE  RefsExact' /\ refs' \in [Request -> Nat]
<1>1. calls' = calls /\ CallsFrame(r)
    BY DEF Lookup, ReadMiss, ReadHit, Send, Cancel, Arrive, asked, flight, ends, CallsFrame
<1>2. CASE \E k \in Key, f \in BOOLEAN : Arrive(r, k, f)
    <2>1. pc[r] = "idle" /\ pc'[r] \in {"join", "read"} /\ refs' = refs
        BY <1>2 DEF Arrive, bodies, TypeOK
    <2>2. Hold(r) = NoOne /\ Hold(r)' = NoOne
        BY <2>1 DEF Hold, Leading
    <2> QED
        BY <1>1, <2>1, <2>2, RefsMove
<1>3. CASE Cancel(r)
    <2>1. pc' = pc /\ call' = call /\ answer' = answer /\ refs' = refs
        BY <1>3 DEF Cancel, flight, bodies, ends
    <2>2. Hold(r)' = Hold(r)
        BY <1>1, <2>1 DEF Hold, Leading, Shared
    <2> QED
        BY <1>1, <2>1, <2>2, RefsMove
<1>4. CASE ReadMiss(r)
    <2>1. pc[r] = "read" /\ pc'[r] = "join" /\ refs' = refs
        BY <1>4 DEF ReadMiss, bodies, TypeOK
    <2>2. Hold(r) = NoOne /\ Hold(r)' = NoOne
        BY <2>1 DEF Hold, Leading
    <2> QED
        BY <1>1, <2>1, <2>2, RefsMove
<1>5. CASE ReadHit(r)
    <2>1. pc[r] = "read" /\ pc'[r] = "send" /\ answer'[r].body = r /\ refs' = [refs EXCEPT ![r] = 1]
        BY <1>5 DEF ReadHit, Send, Open, TypeOK
    <2>2. Hold(r) = NoOne /\ Hold(r)' = r
        BY <2>1 DEF Hold, Leading
    <2>3. \A q \in Request : Hold(q) # r
        BY <2>1, NobodyHolds
    <2> QED
        BY <1>1, <2>1, <2>2, <2>3, RefsMove
<1> QED
    BY <1>2, <1>3, <1>4, <1>5 DEF Lookup

\* It joins a call or leads one.
LEMMA RefsJoin ==
  ASSUME TypeOK, Calls, RefsExact, NEW r \in Request, Alone(r), DoContext(r)
  PROVE  RefsExact' /\ refs' \in [Request -> Nat]
<1>1. pc[r] = "join" /\ refs' = refs /\ Hold(r) = NoOne
    BY DEF DoContext, JoinCancelled, Join, Lead, bodies, Hold, Leading
<1>2. CASE JoinCancelled(r)
    <2>1. pc'[r] = "done" /\ calls' = calls
        BY <1>2 DEF JoinCancelled, Fail, TypeOK
    <2>2. Hold(r)' = NoOne /\ CallsFrame(r)
        BY <2>1 DEF Hold, Leading, CallsFrame
    <2> QED
        BY <1>1, <2>2, RefsMove
<1>3. CASE Join(r)
    <2>1. PICK c \in Request : c = inflight[key[r]] /\ Leading(c)
        BY <1>3 DEF Join, Calls, TypeOK, Leading
    <2>2. pc'[r] = "wait" /\ call'[r] = c
        BY <1>3, <2>1 DEF Join, TypeOK
    <2>3. \A d \in Request : calls'[d].done = calls[d].done /\ calls'[d].result = calls[d].result
        BY <1>3, <2>1 DEF Join, TypeOK
    <2>4. ~calls'[c].done
        BY <2>1, <2>3 DEF Calls
    <2>5. Hold(r)' = NoOne /\ CallsFrame(r)
        BY <2>2, <2>3, <2>4 DEF Hold, Leading, CallsFrame
    <2> QED
        BY <1>1, <2>5, RefsMove
<1>4. CASE Lead(r)
    <2>1. /\ Leading(r)' /\ pc'[r] # "send" /\ call'[r] = r /\ calls'[r] = FreshCall
          /\ \A d \in Request \ {r} : calls'[d] = calls[d]
        BY <1>4 DEF Lead, TypeOK, Leading
    <2>2. Hold(r)' = NoOne /\ CallsFrame(r)
        BY <1>1, <2>1 DEF Hold, Shared, CallsFrame, FreshCall, Error
    <2> QED
        BY <1>1, <2>2, RefsMove
<1> QED
    BY <1>2, <1>3, <1>4 DEF DoContext

\* It is done with a result.
LEMMA RefsFinish ==
  ASSUME TypeOK, Calls, Values, RefsExact, NEW r \in Request, Alone(r), Finish(r)
  PROVE  RefsExact' /\ refs' \in [Request -> Nat]
<1>0. NoOne \notin Request
    BY IdAssumption
<1>1. CASE LeaveCall(r)
    <2>1. /\ pc[r] = "wait" /\ pc'[r] = "done" /\ refs' = refs /\ key[r] \in Key
          /\ call[r] \in Request /\ inflight[key[r]] = call[r]
        BY <1>1 DEF LeaveCall, Fail, bodies, Calls, TypeOK
    <2>2. ~calls[call[r]].done
        BY <1>0, <2>1 DEF Calls
    <2>3. \A d \in Request : calls'[d].done = calls[d].done /\ calls'[d].result = calls[d].result
        BY <1>1, <2>1 DEF LeaveCall, TypeOK
    <2>4. Hold(r) = NoOne /\ Hold(r)' = NoOne /\ CallsFrame(r)
        BY <2>1, <2>2, <2>3 DEF Hold, Leading, CallsFrame
    <2> QED
        BY <2>1, <2>4, RefsMove
<1>2. ASSUME NEW b \in Request \cup {NoOne}, Hold(r) = b, calls' = calls, Close(b), Hold(r)' = NoOne
      PROVE  RefsExact' /\ refs' \in [Request -> Nat]
    <2>1. CallsFrame(r)
        BY <1>2 DEF CallsFrame
    <2>2. CASE b = NoOne
        BY <1>2, <2>1, <2>2, RefsMove DEF Close
    <2>3. CASE b # NoOne
      <3>1. Hold(r) \in Request /\ refs' = [refs EXCEPT ![Hold(r)] = @ - 1]
        BY <1>2, <2>3 DEF Close
      <3> QED
        BY <1>2, <2>1, <3>1, RefsMove
    <2> QED
        BY <2>2, <2>3
<1>3. ASSUME Returned(r) PROVE Hold(r) = Shared(r).body /\ Hold(r) \in Request \cup {NoOne}
    <2>1. Hold(r) = Shared(r).body
        BY <1>3 DEF Hold, Returned, Leading
    <2> QED
        BY <1>3, <2>1, SharedFacts
<1>4. ASSUME pc'[r] \in {"done", "join"} PROVE Hold(r)' = NoOne
    BY <1>4 DEF Hold, Leading
<1>5. CASE ReleaseLate(r)
    <2>1. Returned(r) /\ pc'[r] = "done" /\ calls' = calls /\ Close(Shared(r).body)
        BY <1>5, LateReturned DEF ReleaseLate, Fail, TypeOK
    <2> QED
        BY <1>2, <1>3, <1>4, <2>1
<1>6. CASE TakeUnstored(r)
    <2>1. Returned(r) /\ pc'[r] = "done" /\ calls' = calls /\ Close(Shared(r).body)
        BY <1>6 DEF TakeUnstored, Fail, TypeOK
    <2> QED
        BY <1>2, <1>3, <1>4, <2>1
<1>7. CASE TryAgain(r)
    <2>1. Returned(r) /\ pc'[r] = "join" /\ calls' = calls /\ Close(Shared(r).body)
        BY <1>7 DEF TryAgain, TypeOK
    <2> QED
        BY <1>2, <1>3, <1>4, <2>1
<1>8. CASE Sent(r)
    <2>1. /\ pc[r] = "send" /\ pc'[r] = "done" /\ calls' = calls /\ Close(answer[r].body)
        BY <1>8 DEF Sent, flight, TypeOK
    <2>2. Hold(r) = answer[r].body /\ answer[r].body \in Request
        BY <2>1 DEF Hold, Values, ValueOf
    <2> QED
        BY <1>2, <1>4, <2>1, <2>2
<1>9. CASE TakeError(r)
    <2>1. Returned(r) /\ Shared(r).err # "nil" /\ pc'[r] = "done" /\ calls' = calls /\ refs' = refs
        BY <1>9 DEF TakeError, Fail, bodies, TypeOK
    <2>2. Hold(r) = NoOne
        BY <1>3, <2>1, SharedFacts
    <2>3. CallsFrame(r)
        BY <2>1 DEF CallsFrame
    <2> QED
        BY <1>4, <2>1, <2>2, <2>3, RefsMove
<1>10. CASE TakeResult(r)
    <2>1. /\ Returned(r) /\ pc'[r] = "send" /\ answer'[r].body = Shared(r).body
          /\ calls' = calls /\ refs' = refs
        BY <1>10 DEF TakeResult, Send, bodies, TypeOK
    <2>2. Hold(r)' = Hold(r)
        BY <1>3, <2>1 DEF Hold
    <2>3. CallsFrame(r)
        BY <2>1 DEF CallsFrame
    <2> QED
        BY <2>1, <2>2, <2>3, RefsMove
<1> QED
    BY <1>1, <1>5, <1>6, <1>7, <1>8, <1>9, <1>10 DEF Finish

-----------------------------------------------------------------------------
(* Every step of a request.                                                  *)

\* A leader is not sent back to join.
LEMMA AgainWaited ==
  ASSUME TypeOK, Calls, Values, NEW r \in Request, TryAgain(r)
  PROVE  pc[r] = "wait"
<1> SUFFICES ASSUME pc[r] = "led" PROVE FALSE
    BY DEF TryAgain, Returned
<1>1. call[r] = r /\ force[r] /\ calls[r].result.fromCache
    BY DEF Calls, TryAgain, Shared
<1> QED
    BY <1>1 DEF Values, ValueOf

\* The steps that leave the calls and those who wait for them alone.
LEMMA CallsLookup ==
  ASSUME TypeOK, Calls, NEW r \in Request, Alone(r),
         Lookup(r) \/ Cancel(r) \/ JoinCancelled(r) \/ \E k \in Key, f \in BOOLEAN : Arrive(r, k, f)
  PROVE  Calls'
<1>1. calls' = calls /\ inflight' = inflight
    BY DEF Lookup, ReadMiss, ReadHit, Send, JoinCancelled, Cancel, Arrive, asked, flight, ends
<1>2. CASE \E k \in Key, f \in BOOLEAN : Arrive(r, k, f)
    <2>1. pc[r] = "idle" /\ pc'[r] \in {"join", "read"} /\ key'[r] \in Key
        BY <1>2 DEF Arrive, TypeOK
    <2> QED
        BY <1>1, <2>1, CallsQuiet DEF Leading, After
<1>3. CASE Cancel(r)
    <2>1. pc' = pc /\ call' = call /\ key' = key
        BY <1>3 DEF Cancel, flight, asked
    <2> QED
        BY <1>1, <2>1, CallsQuiet DEF Calls
<1>4. CASE Lookup(r) \/ JoinCancelled(r)
    <2>1. pc[r] \in {"read", "join"} /\ pc'[r] \in {"join", "send", "done"} /\ key' = key
        BY <1>4 DEF Lookup, ReadMiss, ReadHit, Send, JoinCancelled, Fail, asked, TypeOK
    <2>2. key[r] \in Key
        BY <2>1 DEF Calls
    <2> QED
        BY <1>1, <2>1, <2>2, CallsQuiet DEF Leading, After
<1> QED
    BY <1>2, <1>3, <1>4

LEMMA CallsFn ==
  ASSUME TypeOK, Calls, Values, NEW r \in Request, Alone(r), Fn(r), ~Publish(r)
  PROVE  Calls' /\ calls' \in [Request -> [waiters : Nat, done : BOOLEAN, result : Results]]
<1>1. PICK res \in Results : calls' = [calls EXCEPT ![r].result = res]
    BY FnMoves
<1>2. /\ Leading(r) /\ Leading(r)' /\ call' = call /\ inflight' = inflight /\ key' = key
    BY FnMoves DEF asked
<1>3. \A c \in Request : calls'[c].done = calls[c].done /\ calls'[c].waiters = calls[c].waiters
    BY <1>1 DEF TypeOK
<1>4. key[r] \in Key
    BY <1>2 DEF Calls, Leading
<1>5. Calls'
    BY <1>2, <1>3, <1>4, CallsQuiet
<1>6. calls' \in [Request -> [waiters : Nat, done : BOOLEAN, result : Results]]
    <2>1. calls \in [Request -> [waiters : Nat, done : BOOLEAN, result : Results]]
        BY DEF TypeOK
    <2> QED
        BY <1>1, <2>1
<1> QED
    BY <1>5, <1>6

LEMMA CallsFinish ==
  ASSUME TypeOK, Calls, Values, NEW r \in Request, Alone(r), Finish(r), ~LeaveCall(r)
  PROVE  Calls'
<1>1. calls' = calls /\ inflight' = inflight /\ key' = key
    BY DEF Finish, ReleaseLate, TakeError, TryAgain, TakeUnstored, TakeResult, Sent, asked, flight
<1>2. CASE Sent(r)
    <2>1. pc[r] = "send" /\ pc'[r] = "done"
        BY <1>2 DEF Sent, TypeOK
    <2>2. key[r] \in Key
        BY <2>1 DEF Calls
    <2> QED
        BY <1>1, <2>1, <2>2, CallsQuiet DEF Leading, After
<1>3. CASE ~Sent(r)
    <2>1. Returned(r)
        BY <1>3, LateReturned DEF Finish, TakeError, TryAgain, TakeUnstored, TakeResult
    <2>2. pc[r] \in {"led", "wait"} /\ ~Leading(call[r]) /\ key[r] \in Key
        BY <2>1, SharedFacts DEF Returned, Calls, After, Leading
    <2>3. pc'[r] \in {"done", "join", "send"} /\ (pc'[r] = "join" => pc[r] = "wait")
        BY <1>3, AgainWaited DEF Finish, ReleaseLate, TakeError, TryAgain, TakeUnstored, TakeResult,
            Send, Fail, TypeOK
    <2> QED
        BY <1>1, <2>2, <2>3, CallsQuiet DEF Leading, After
<1> QED
    BY <1>2, <1>3

\* What a step may do to the calls, as far as their results go.
LEMMA ValuesQuiet ==
  ASSUME Values, NEW r \in Request, Alone(r),
         \A c \in Request : calls'[c].done = calls[c].done /\ calls'[c].result = calls[c].result,
         pc'[r] = pc[r] \/ pc'[r] \notin {"check", "parse", "parsing", "store", "publish"},
         force'[r] = force[r] \/ pc'[r] \in {"read", "join"}, pc'[r] = "led" => pc[r] = "led",
         After(r) => After(r)',
         pc'[r] = "send" => answer'[r].body \in Request /\ After(answer[r].body)'
  PROVE  Values'
<1>1. \A c \in Request : After(c) => After(c)'
    BY DEF Alone, After
<1>2. ASSUME NEW q \in Request, pc'[q] = "send"
      PROVE  answer'[q].body \in Request /\ After(answer[q].body)'
    <2>1. CASE q = r
        BY <1>2, <2>1
    <2>2. CASE q # r
      <3>1. pc[q] = "send" /\ answer'[q] = answer[q]
        BY <1>2, <2>2 DEF Alone
      <3>2. answer[q].body \in Request /\ After(answer[q].body)
        BY <3>1 DEF Values, ValueOf
      <3> QED
        BY <1>1, <3>1, <3>2 DEF After
    <2> QED
        BY <2>1, <2>2
<1>3. ASSUME NEW c \in Request
      PROVE  /\ pc'[c] \in {"check", "parse", "parsing", "store", "publish", "led"} =>
                   pc'[c] = pc[c] /\ force'[c] = force[c]
             /\ calls'[c].done = calls[c].done /\ calls'[c].result = calls[c].result
    BY DEF Alone
<1>4. ASSUME NEW c \in Request PROVE ValueOf(c)'
    <2>1. ValueOf(c)
        BY DEF Values, ValueOf
    <2> QED
        BY <1>3, <2>1 DEF ValueOf, Leading
<1> QED
    BY <1>2, <1>4 DEF Values, ValueOf

LEMMA ValuesLookup ==
  ASSUME TypeOK, Calls, Values, NEW r \in Request, Alone(r),
         \/ Lookup(r) \/ Cancel(r) \/ JoinCancelled(r) \/ Join(r)
         \/ \E k \in Key, f \in BOOLEAN : Arrive(r, k, f)
  PROVE  Values'
<1>1. \A c \in Request : calls'[c].done = calls[c].done /\ calls'[c].result = calls[c].result
    <2>1. CASE ~Join(r)
        BY <2>1 DEF Lookup, ReadMiss, ReadHit, Send, JoinCancelled, Cancel, Arrive, asked, flight, ends
    <2>2. CASE Join(r)
      <3>1. PICK c \in Request : c = inflight[key[r]]
        BY <2>2 DEF Join, Calls, TypeOK
      <3>2. calls' = [calls EXCEPT ![c].waiters = @ + 1]
        BY <2>2, <3>1 DEF Join
      <3> QED
        BY <3>2 DEF TypeOK
    <2> QED
        BY <2>1, <2>2
<1>2. CASE \E k \in Key, f \in BOOLEAN : Arrive(r, k, f)
    <2>1. pc[r] = "idle" /\ pc'[r] \in {"join", "read"}
        BY <1>2 DEF Arrive, TypeOK
    <2> QED
        BY <1>1, <2>1, ValuesQuiet DEF After
<1>3. CASE Cancel(r)
    <2>1. pc' = pc /\ answer' = answer /\ force' = force /\ pc[r] # "send"
        BY <1>3 DEF Cancel, ends, asked
    <2> QED
        BY <1>1, <2>1, ValuesQuiet DEF After
<1>4. CASE ReadMiss(r) \/ JoinCancelled(r) \/ Join(r)
    <2>1. pc[r] \in {"read", "join"} /\ pc'[r] \in {"join", "done", "wait"} /\ force' = force
        BY <1>4 DEF ReadMiss, JoinCancelled, Join, Fail, asked, TypeOK
    <2> QED
        BY <1>1, <2>1, ValuesQuiet DEF After
<1>5. CASE ReadHit(r)
    <2>1. pc[r] = "read" /\ pc'[r] = "send" /\ force' = force /\ answer'[r].body = r
        BY <1>5 DEF ReadHit, Send, asked, TypeOK
    <2> QED
        BY <1>1, <2>1, ValuesQuiet DEF After
<1> QED
    BY <1>2, <1>3, <1>4, <1>5 DEF Lookup

LEMMA ValuesFinish ==
  ASSUME TypeOK, Calls, Values, NEW r \in Request, Alone(r), Finish(r)
  PROVE  Values'
<1>1. \A c \in Request : calls'[c].done = calls[c].done /\ calls'[c].result = calls[c].result
    <2>1. CASE ~LeaveCall(r)
        BY <2>1 DEF Finish, ReleaseLate, TakeError, TryAgain, TakeUnstored, TakeResult, Sent, flight
    <2>2. CASE LeaveCall(r)
      <3>1. PICK c \in Request : calls' = [calls EXCEPT ![c].waiters = @ - 1]
        BY <2>2 DEF LeaveCall, Calls
      <3> QED
        BY <3>1 DEF TypeOK
    <2> QED
        BY <2>1, <2>2
<1>2. CASE Sent(r) \/ LeaveCall(r) \/ ReleaseLate(r) \/ TakeError(r) \/ TakeUnstored(r)
    <2>1. pc'[r] = "done" /\ force' = force
        BY <1>2 DEF Sent, LeaveCall, ReleaseLate, TakeError, TakeUnstored, Fail, asked, TypeOK
    <2> QED
        BY <1>1, <2>1, ValuesQuiet DEF After
<1>3. CASE TryAgain(r)
    <2>1. pc[r] = "wait" /\ pc'[r] = "join" /\ force' = force
        BY <1>3, AgainWaited DEF TryAgain, asked, TypeOK
    <2> QED
        BY <1>1, <2>1, ValuesQuiet DEF After
<1>4. CASE TakeResult(r)
    <2>1. /\ Returned(r) /\ Shared(r).err = "nil" /\ pc'[r] = "send" /\ force' = force
          /\ answer'[r].body = Shared(r).body
        BY <1>4 DEF TakeResult, Send, asked, TypeOK
    <2>2. Shared(r).body = call[r] /\ call[r] \in Request /\ After(call[r])
        BY <2>1, SharedFacts
    <2>3. After(answer[r].body)'
        BY <2>1, <2>2 DEF Alone, After
    <2> QED
        BY <1>1, <2>1, <2>2, <2>3, ValuesQuiet DEF After
<1> QED
    BY <1>2, <1>3, <1>4 DEF Finish

\* A new call holds nothing; one that is over holds what its leader left in it.
LEMMA ValuesLead ==
  ASSUME TypeOK, Calls, Values, NEW r \in Request, Alone(r), Lead(r)
  PROVE  Values'
<1>1. /\ pc[r] = "join" /\ pc'[r] = (IF force[r] THEN "parse" ELSE "check") /\ force' = force
      /\ calls'[r] = FreshCall /\ \A c \in Request \ {r} : calls'[c] = calls[c]
    BY DEF Lead, asked, TypeOK
<1>2. \A c \in Request : After(c) => After(c)'
    BY <1>1 DEF Alone, After
<1>3. ASSUME NEW q \in Request, pc'[q] = "send"
      PROVE  answer'[q].body \in Request /\ After(answer[q].body)'
    <2>1. q # r /\ pc[q] = "send" /\ answer'[q] = answer[q]
        BY <1>1, <1>3 DEF Alone
    <2>2. answer[q].body \in Request /\ After(answer[q].body)
        BY <2>1 DEF Values, ValueOf
    <2> QED
        BY <1>2, <2>1, <2>2 DEF After
<1>4. /\ FreshCall.done = FALSE /\ FreshCall.result = Error("nil")
      /\ Error("nil").body = NoOne /\ Error("nil").err = "nil" /\ ~Error("nil").fromCache
    BY DEF FreshCall, Error
<1>5. ASSUME NEW c \in Request PROVE ValueOf(c)'
    <2>1. CASE c = r
        BY <1>1, <1>4, <2>1 DEF ValueOf, Leading
    <2>2. CASE c # r
      <3>1. ValueOf(c)
        BY DEF Values
      <3> QED
        BY <1>1, <2>2, <3>1 DEF ValueOf, Alone, Leading
    <2> QED
        BY <2>1, <2>2
<1> QED
    BY <1>3, <1>5 DEF Values

\* What the leader's fn leaves in its call.
LEMMA FnValue ==
  ASSUME TypeOK, Calls, Values, NEW r \in Request, Fn(r), ~Publish(r)
  PROVE  /\ calls'[r].result.body \in {NoOne, r} /\ ~calls'[r].done
         /\ pc'[r] \in {"check", "parse", "parsing"} => calls'[r].result = Error("nil")
         /\ pc'[r] = "store" => calls'[r].result = Got(r, FALSE, FALSE)
         /\ calls'[r].result.err # "nil" => calls'[r].result.body = NoOne
         /\ pc'[r] = "publish" => (calls'[r].result.err = "nil" => calls'[r].result.body = r)
         /\ pc'[r] # "check" /\ pc'[r] # "led"
         /\ force[r] => ~calls'[r].result.fromCache
<1>1. PICK res \in Results :
        /\ calls' = [calls EXCEPT ![r].result = res]
        /\ \/ pc[r] \in {"check", "parse"} /\ pc'[r] \in {"parse", "parsing"} /\ res = Error("nil")
           \/ pc[r] = "check" /\ pc'[r] = "publish" /\ res = Got(r, TRUE, FALSE)
           \/ /\ pc[r] \in {"parse", "parsing"} /\ pc'[r] = "publish"
              /\ \E e \in {"cancelled", "parse", "incomplete"} : res = Error(e)
           \/ pc[r] = "parsing" /\ pc'[r] \in {"publish", "store"} /\ res = Got(r, FALSE, FALSE)
           \/ pc[r] = "store" /\ pc'[r] = "publish" /\ res = Got(r, FALSE, TRUE)
           \/ pc[r] = "store" /\ pc'[r] = "publish" /\ res = Error("write")
           \/ pc[r] = "store" /\ pc'[r] = "publish" /\ res = Got(r, FALSE, FALSE)
    BY FnMoves
<1>2. calls'[r].result = res /\ calls'[r].done = calls[r].done
    BY <1>1 DEF TypeOK
<1>3. ~calls[r].done
    BY FnMoves DEF Calls
<1>4. pc[r] = "check" => ~force[r]
    BY DEF Values, ValueOf
<1>5. CASE pc'[r] \in {"parse", "parsing"} /\ res = Error("nil")
    <2>1. calls'[r].result = Error("nil") /\ ~calls'[r].done
        BY <1>2, <1>3, <1>5
    <2>2. Error("nil").body = NoOne /\ Error("nil").err = "nil" /\ ~Error("nil").fromCache
        BY DEF Error
    <2> QED
        BY <1>5, <2>1, <2>2
<1>6. CASE pc'[r] = "publish" /\ \E e \in {"cancelled", "parse", "incomplete", "write"} : res = Error(e)
    BY <1>2, <1>3, <1>6 DEF Error
<1>7. CASE pc'[r] = "publish" /\ ~force[r] /\ res = Got(r, TRUE, FALSE)
    BY <1>2, <1>3, <1>7 DEF Got
<1>8. CASE pc'[r] \in {"publish", "store"} /\ res = Got(r, FALSE, FALSE)
    BY <1>2, <1>3, <1>8 DEF Got
<1>9. CASE pc'[r] = "publish" /\ res = Got(r, FALSE, TRUE)
    BY <1>2, <1>3, <1>9 DEF Got
<1> QED
    BY <1>1, <1>4, <1>5, <1>6, <1>7, <1>8, <1>9

LEMMA ValuesFn ==
  ASSUME TypeOK, Calls, Values, NEW r \in Request, Alone(r), Fn(r)
  PROVE  Values'
<1>1. Leading(r) /\ (Leading(r)' \/ pc'[r] = "led") /\ force' = force /\ answer' = answer
    <2>1. CASE Publish(r)
        BY <2>1 DEF Publish, Leading, asked, TypeOK
    <2>2. CASE ~Publish(r)
        BY <2>2, FnMoves DEF asked, ends
    <2> QED
        BY <2>1, <2>2
<1>2. \A c \in Request : After(c) => After(c)'
    BY <1>1 DEF Alone, After, Leading
<1>3. ASSUME NEW q \in Request, pc'[q] = "send"
      PROVE  answer'[q].body \in Request /\ After(answer[q].body)'
    <2>1. q # r /\ pc[q] = "send"
        BY <1>1, <1>3 DEF Alone, Leading
    <2>2. answer[q].body \in Request /\ After(answer[q].body)
        BY <2>1 DEF Values, ValueOf
    <2> QED
        BY <1>1, <1>2, <2>1, <2>2 DEF After
<1>4. \A c \in Request \ {r} : calls'[c] = calls[c] /\ pc'[c] = pc[c]
    <2>1. CASE Publish(r)
        BY <2>1 DEF Publish, Wake, Alone
    <2>2. CASE ~Publish(r)
      <3>1. PICK res \in Results : calls' = [calls EXCEPT ![r].result = res]
        BY <2>2, FnMoves
      <3> QED
        BY <3>1 DEF Alone
    <2> QED
        BY <2>1, <2>2
<1>5. /\ calls'[r].result.body \in {NoOne, r}
      /\ pc'[r] \in {"check", "parse", "parsing"} => calls'[r].result = Error("nil")
      /\ pc'[r] = "store" => calls'[r].result = Got(r, FALSE, FALSE)
      /\ calls'[r].result.err # "nil" => calls'[r].result.body = NoOne
      /\ (pc'[r] = "publish" \/ calls'[r].done) /\ calls'[r].result.err = "nil" =>
            calls'[r].result.body = r
      /\ pc'[r] = "check" => ~force[r]
      /\ force[r] => ~calls'[r].result.fromCache
    <2>1. CASE Publish(r)
      <3>1. pc[r] = "publish" /\ pc'[r] = "led" /\ calls'[r].result = calls[r].result
        BY <2>1 DEF Publish, Wake, TypeOK
      <3> QED
        BY <3>1 DEF Values, ValueOf, Leading
    <2>2. CASE ~Publish(r)
        BY <2>2, FnValue
    <2> QED
        BY <2>1, <2>2
<1>6. ASSUME NEW c \in Request PROVE ValueOf(c)'
    <2>1. CASE c = r
        BY <1>1, <1>5, <2>1 DEF ValueOf, Leading
    <2>2. CASE c # r
      <3>1. ValueOf(c)
        BY DEF Values
      <3> QED
        BY <1>1, <1>4, <2>2, <3>1 DEF ValueOf, Leading
    <2> QED
        BY <2>1, <2>2
<1> QED
    BY <1>3, <1>6 DEF Values
-----------------------------------------------------------------------------
LEMMA FailTypes ==
  ASSUME TypeOK, NEW r \in Request,
         NEW e \in {"cancelled", "parse", "incomplete", "write", "unstored"}, Fail(r, e)
  PROVE  /\ pc' \in [Request -> {"idle", "read", "join", "wait", "check", "parse", "parsing",
                                 "store", "publish", "led", "send", "done"}]
         /\ answer' \in [Request -> [body : Request \cup {NoOne}, serial : Nat,
              err : {"nil", "cancelled", "parse", "incomplete", "write", "unstored"}]]
         /\ call' \in [Request -> Request \cup {NoOne}]
<1>1. answer' = [answer EXCEPT ![r].err = e]
    BY DEF Fail
<1>2. answer \in [Request -> [body : Request \cup {NoOne}, serial : Nat,
              err : {"nil", "cancelled", "parse", "incomplete", "write", "unstored"}]]
    BY DEF TypeOK
<1>3. answer' \in [Request -> [body : Request \cup {NoOne}, serial : Nat,
              err : {"nil", "cancelled", "parse", "incomplete", "write", "unstored"}]]
    BY <1>1, <1>2
<1> QED
    BY <1>3 DEF Fail, TypeOK

LEMMA SendTypes ==
  ASSUME TypeOK, NEW r \in Request, NEW b \in Request, NEW n \in Nat, Send(r, b, n)
  PROVE  /\ pc' \in [Request -> {"idle", "read", "join", "wait", "check", "parse", "parsing",
                                 "store", "publish", "led", "send", "done"}]
         /\ answer' \in [Request -> [body : Request \cup {NoOne}, serial : Nat,
              err : {"nil", "cancelled", "parse", "incomplete", "write", "unstored"}]]
         /\ call' \in [Request -> Request \cup {NoOne}]
         /\ newest' \in [Key -> [published : Nat, answered : Nat]]
<1>1. newest' = [newest EXCEPT ![key[r]].answered = AtLeast(@, n)]
      /\ newest \in [Key -> [published : Nat, answered : Nat]]
    BY DEF Send, TypeOK
<1>2. newest' \in [Key -> [published : Nat, answered : Nat]]
    BY <1>1 DEF AtLeast
<1>3. answer' \in [Request -> [body : Request \cup {NoOne}, serial : Nat,
              err : {"nil", "cancelled", "parse", "incomplete", "write", "unstored"}]]
    BY DEF Send, TypeOK
<1> QED
    BY <1>2, <1>3 DEF Send, TypeOK

\* The leader's fn, as far as it touches the cache and the serials.
LEMMA FnTypes ==
  ASSUME TypeOK, Calls, Values, NEW r \in Request, Fn(r), ~Publish(r)
  PROVE  /\ serial' \in [Request -> Nat] /\ cache' \in [Key -> Nat] /\ parses' \in Nat
         /\ pc' \in [Request -> {"idle", "read", "join", "wait", "check", "parse", "parsing",
                                 "store", "publish", "led", "send", "done"}]
<1>1. key[r] \in Key
    BY FnMoves DEF Calls, Leading
<1>2. /\ serial' = serial \/ \E n \in Nat : Open(r, n)
      /\ cache' = cache \/ \E n \in Nat : cache' = [cache EXCEPT ![key[r]] = n]
      /\ parses' \in {parses, parses + 1}
    <2>1. PICK res \in Results : 
              \/ UNCHANGED <<refs, serial, cached>>
              \/ Open(r, cache[key[r]]) /\ UNCHANGED cached
              \/ UNCHANGED <<refs, serial, cache>> /\ parses' \in {parses, parses + 1}
              \/ Open(r, parses + 1) /\ parses' = parses + 1 /\ UNCHANGED cache
              \/ cache' = [cache EXCEPT ![key[r]] = serial[r]] /\ UNCHANGED <<refs, serial, parses>>
              \/ Close(r) /\ UNCHANGED cached
        BY FnMoves
    <2>2. cache[key[r]] \in Nat /\ parses + 1 \in Nat /\ serial[r] \in Nat
        BY <1>1 DEF TypeOK
    <2> QED
        BY <2>1, <2>2 DEF cached, Close
<1>3. serial' \in [Request -> Nat] /\ cache' \in [Key -> Nat] /\ parses' \in Nat
    BY <1>2 DEF Open, TypeOK
<1>4. pc' \in [Request -> {"idle", "read", "join", "wait", "check", "parse", "parsing",
                           "store", "publish", "led", "send", "done"}]
    BY ZenonT(100) DEF Fn, CheckHit, CheckMiss, Acquire, AcquireCancelled, ParseFails, ParseIncomplete,
        ParseComplete, StoreSucceeds, StoreFails, TypeOK
<1> QED
    BY <1>3, <1>4

LEMMA TypeFrame ==
  ASSUME TypeOK, Calls, Values, NEW r \in Request, refs' \in [Request -> Nat],
         Step(r) \/ Cancel(r) \/ \E k \in Key, f \in BOOLEAN : Arrive(r, k, f)
  PROVE  TypeOK'
<1>1. CASE \E k \in Key, f \in BOOLEAN : Arrive(r, k, f)
    <2>1. PICK k \in Key, f \in BOOLEAN : Arrive(r, k, f)
        BY <1>1
    <2> QED
        BY <2>1 DEF Arrive, flight, bodies, cached, ends, TypeOK
<1>2. CASE Cancel(r)
    BY <1>2 DEF Cancel, asked, flight, bodies, cached, ends, TypeOK
<1>3. CASE ReadMiss(r)
    BY <1>3 DEF ReadMiss, asked, flight, bodies, cached, ends, TypeOK
<1>4. CASE ReadHit(r)
    <2>1. PICK n \in Nat : n = cache[key[r]] /\ key[r] \in Key
        BY <1>4 DEF ReadHit, Calls, TypeOK
    <2>2. Send(r, r, n) /\ Open(r, n) /\ UNCHANGED <<asked, cancelled, inflight, calls, cached>>
        BY <1>4, <2>1 DEF ReadHit
    <2> QED
        BY <2>1, <2>2, SendTypes DEF Open, asked, cached, TypeOK
<1>5. CASE JoinCancelled(r)
    BY <1>5, FailTypes DEF JoinCancelled, asked, bodies, cached, TypeOK
<1>6. CASE Join(r)
    <2>1. PICK c \in Request : c = inflight[key[r]]
        BY <1>6 DEF Join, Calls, TypeOK
    <2>2. calls' = [calls EXCEPT ![c].waiters = @ + 1] /\ call' = [call EXCEPT ![r] = c]
          /\ pc' = [pc EXCEPT ![r] = "wait"]
          /\ UNCHANGED <<asked, cancelled, inflight, bodies, cached, ends>>
        BY <1>6, <2>1 DEF Join
    <2>3. calls' \in [Request -> [waiters : Nat, done : BOOLEAN, result : Results]]
      <3>1. calls \in [Request -> [waiters : Nat, done : BOOLEAN, result : Results]]
        BY DEF TypeOK
      <3> QED
        BY <2>2, <3>1
    <2> QED
        BY <2>1, <2>2, <2>3 DEF asked, bodies, cached, ends, TypeOK
<1>7. CASE Lead(r)
    <2>1. key[r] \in Key /\ FreshCall \in [waiters : Nat, done : BOOLEAN, result : Results]
        BY <1>7, ResultTypes DEF Lead, Calls, FreshCall
    <2>2. calls' \in [Request -> [waiters : Nat, done : BOOLEAN, result : Results]]
        BY <1>7, <2>1 DEF Lead, TypeOK
    <2> QED
        BY <1>7, <2>2 DEF Lead, asked, bodies, cached, ends, TypeOK
<1>8. CASE Fn(r) /\ ~Publish(r)
    <2>1. /\ serial' \in [Request -> Nat] /\ cache' \in [Key -> Nat] /\ parses' \in Nat
          /\ pc' \in [Request -> {"idle", "read", "join", "wait", "check", "parse", "parsing",
                           "store", "publish", "led", "send", "done"}]
        BY <1>8, FnTypes
    <2>2. calls' \in [Request -> [waiters : Nat, done : BOOLEAN, result : Results]]
      <3>1. calls \in [Request -> [waiters : Nat, done : BOOLEAN, result : Results]]
        BY DEF TypeOK
      <3>2. PICK res \in Results : calls' = [calls EXCEPT ![r].result = res]
        BY <1>8, FnMoves
      <3> QED
        BY <3>1, <3>2
    <2>3. UNCHANGED <<asked, cancelled, call, inflight, ends>>
        BY <1>8, FnMoves
    <2> QED
        BY <2>1, <2>2, <2>3 DEF asked, ends, TypeOK
<1>9. CASE Publish(r)
    <2>1. calls' \in [Request -> [waiters : Nat, done : BOOLEAN, result : Results]]
      <3>1. calls \in [Request -> [waiters : Nat, done : BOOLEAN, result : Results]]
        BY DEF TypeOK
      <3>2. calls' = [calls EXCEPT ![r].done = TRUE]
        BY <1>9 DEF Publish, Wake
      <3> QED
        BY <3>1, <3>2
    <2>2. newest' \in [Key -> [published : Nat, answered : Nat]]
      <3>1. PICK b \in Request \cup {NoOne} : b = Shared(r).body
        <4>1. call[r] = r
            BY <1>9 DEF Publish, Calls, Leading
        <4>2. calls[r].result.body \in {NoOne, r}
            BY DEF Values, ValueOf
        <4> QED
            BY <4>1, <4>2 DEF Shared
      <3>2. newest' = IF b = NoOne THEN newest ELSE
                [newest EXCEPT ![key[r]].published = AtLeast(@, serial[b])]
        BY <1>9, <3>1 DEF Publish
      <3> QED
        BY ZenonT(100), <3>1, <3>2 DEF TypeOK, AtLeast
    <2> QED
        BY <1>9, <2>1, <2>2 DEF Publish, asked, cached, TypeOK
<1>10. CASE LeaveCall(r)
    <2>1. calls' \in [Request -> [waiters : Nat, done : BOOLEAN, result : Results]]
        BY <1>10, OneMoves, CallsLeave DEF Step, Finish
    <2>2. Fail(r, "cancelled") /\ UNCHANGED <<asked, cancelled, inflight, newest, bodies, cached>>
        BY <1>10 DEF LeaveCall
    <2> QED
        BY <2>1, <2>2, FailTypes DEF asked, bodies, cached, TypeOK
<1>11. CASE ReleaseLate(r) \/ TakeUnstored(r)
    <2>1. Fail(r, "cancelled") \/ Fail(r, "unstored")
        BY <1>11 DEF ReleaseLate, TakeUnstored
    <2>2. UNCHANGED <<asked, cancelled, inflight, calls, newest, cached, serial>>
        BY <1>11 DEF ReleaseLate, TakeUnstored, Close
    <2> QED
        BY <2>1, <2>2, FailTypes DEF asked, cached, TypeOK
<1>12. CASE TakeError(r)
    <2>1. PICK c \in Request : c = call[r]
        BY <1>12, SharedFacts DEF TakeError
    <2>2. calls[c].result \in Results
        BY DEF TypeOK
    <2>3. PICK e \in {"cancelled", "parse", "incomplete", "write", "unstored"} : e = Shared(r).err
        BY <1>12, <2>1, <2>2 DEF TakeError, Shared, Results
    <2>4. Fail(r, e) /\ UNCHANGED <<asked, cancelled, inflight, calls, newest, bodies, cached>>
        BY <1>12, <2>3 DEF TakeError
    <2> QED
        BY <2>4, FailTypes DEF asked, bodies, cached, TypeOK
<1>13. CASE TryAgain(r)
    BY <1>13 DEF TryAgain, Close, asked, cached, ends, TypeOK
<1>14. CASE TakeResult(r)
    <2>1. PICK n \in Nat, b \in Request : n = serial[Shared(r).body] /\ b = Shared(r).body
        BY <1>14, SharedFacts DEF TakeResult, TypeOK
    <2>2. Send(r, b, n) /\ UNCHANGED <<asked, cancelled, inflight, calls, bodies, cached>>
        BY <1>14, <2>1 DEF TakeResult
    <2> QED
        BY <2>2, SendTypes DEF bodies, asked, cached, TypeOK
<1>15. CASE Sent(r)
    <2>1. answer' \in [Request -> [body : Request \cup {NoOne}, serial : Nat,
              err : {"nil", "cancelled", "parse", "incomplete", "write", "unstored"}]]
      <3>1. answer' = [answer EXCEPT ![r].body = NoOne]
        BY <1>15 DEF Sent
      <3>2. answer \in [Request -> [body : Request \cup {NoOne}, serial : Nat,
              err : {"nil", "cancelled", "parse", "incomplete", "write", "unstored"}]]
        BY DEF TypeOK
      <3> QED
        BY <3>1, <3>2
    <2> QED
        BY <1>15, <2>1 DEF Sent, Close, asked, flight, cached, TypeOK
<1> QED
    BY <1>1, <1>2, <1>3, <1>4, <1>5, <1>6, <1>7, <1>8, <1>9, <1>10, <1>11, <1>12, <1>13, <1>14, <1>15
    DEF Step, Lookup, DoContext, Fn, Finish

-----------------------------------------------------------------------------
LEMMA FlightInit == Init => IInv
<1> SUFFICES ASSUME Init PROVE IInv
    OBVIOUS
<1>1. FreshCall \in [waiters : Nat, done : BOOLEAN, result : Results]
      /\ (\A c \in Request : calls[c] = FreshCall) /\ FreshCall.result = Error("nil")
      /\ FreshCall.done = FALSE
    BY DEF Init, FreshCall, Error, Results
<1>2. calls \in [Request -> [waiters : Nat, done : BOOLEAN, result : Results]]
    BY <1>1 DEF Init
<1>3. TypeOK
    BY <1>2 DEF Init, TypeOK, NoAnswer, Nothing
<1>4. Calls
    BY DEF Init, Calls, Leading
<1>5. Values
  <2>1. ASSUME NEW c \in Request PROVE ValueOf(c)
    <3>1. pc[c] = "idle" /\ calls[c].result = Error("nil") /\ ~calls[c].done
        BY <1>1 DEF Init
    <3>2. Error("nil").body = NoOne /\ Error("nil").err = "nil"
        BY DEF Error
    <3> QED
        BY <3>1, <3>2 DEF ValueOf, Leading
  <2> QED
    BY <2>1 DEF Values, Init
<1>6. RefsExact
  <2> SUFFICES ASSUME NEW b \in Request PROVE refs[b] = Cardinality(Holders(b))
    BY DEF RefsExact
  <2>1. \A q \in Request : Hold(q) = NoOne
    BY DEF Init, Hold, Leading
  <2>2. Holders(b) = {}
    BY <2>1, HoldersAre, IdAssumption
  <2> QED
    BY <2>2, FS_EmptySet DEF Init
<1> QED
    BY <1>3, <1>4, <1>5, <1>6 DEF IInv

LEMMA FlightStep ==
  ASSUME IInv, NEW r \in Request,
         Step(r) \/ Cancel(r) \/ \E k \in Key, f \in BOOLEAN : Arrive(r, k, f)
  PROVE  IInv'
<1> USE DEF IInv
<1>0. Alone(r)
    BY OneMoves
<1>1. CASE Lookup(r) \/ Cancel(r) \/ \E k \in Key, f \in BOOLEAN : Arrive(r, k, f)
    BY <1>0, <1>1, RefsLookup, CallsLookup, ValuesLookup, TypeFrame DEF Step
<1>2. CASE JoinCancelled(r)
    BY <1>0, <1>2, RefsJoin, CallsLookup, ValuesLookup, TypeFrame DEF Step, DoContext
<1>3. CASE Join(r)
    BY <1>0, <1>3, RefsJoin, CallsJoin, ValuesLookup, TypeFrame DEF Step, DoContext
<1>4. CASE Lead(r)
    BY <1>0, <1>4, RefsJoin, CallsLead, ValuesLead, TypeFrame DEF Step, DoContext
<1>5. CASE Fn(r) /\ ~Publish(r)
    BY <1>0, <1>5, RefsFn, CallsFn, ValuesFn, TypeFrame DEF Step
<1>6. CASE Publish(r)
    BY <1>0, <1>6, RefsPublish, CallsPublish, ValuesFn, TypeFrame DEF Step, Fn
<1>7. CASE LeaveCall(r)
    BY <1>0, <1>7, RefsFinish, CallsLeave, ValuesFinish, TypeFrame DEF Step, Finish
<1>8. CASE Finish(r) /\ ~LeaveCall(r)
    BY <1>0, <1>8, RefsFinish, CallsFinish, ValuesFinish, TypeFrame DEF Step
<1> QED
    BY <1>1, <1>2, <1>3, <1>4, <1>5, <1>6, <1>7, <1>8 DEF Step, DoContext

LEMMA FlightExpire ==
  ASSUME IInv, NEW k \in Key, Expire(k)
  PROVE  IInv'
<1>1. /\ UNCHANGED <<asked, cancelled, flight, pc, parses, bodies, ends>>
      /\ cache' \in [Key -> Nat]
    BY DEF Expire, IInv, TypeOK
<1>2. TypeOK'
    BY <1>1 DEF IInv, TypeOK, asked, flight, bodies, ends
<1>3. Calls'
    BY <1>1 DEF IInv, Calls, asked, flight, Leading, After, Waiting
<1>4. Values'
    BY <1>1 DEF IInv, Values, ValueOf, asked, flight, ends, Leading, After
<1>5. RefsExact'
    BY <1>1 DEF IInv, RefsExact, Holders, Shared, flight, bodies, ends
<1> QED
    BY <1>2, <1>3, <1>4, <1>5 DEF IInv

LEMMA FlightNext == IInv /\ [Next]_vars => IInv'
<1> SUFFICES ASSUME IInv, [Next]_vars PROVE IInv'
    OBVIOUS
<1>1. CASE vars' = vars
    <2>1. UNCHANGED <<asked, cancelled, flight, pc, cached, bodies, ends>>
        BY <1>1 DEF vars, asked, flight, cached, bodies, ends
    <2>2. TypeOK'
        BY <2>1 DEF IInv, TypeOK, asked, flight, cached, bodies, ends
    <2>3. Calls'
        BY <2>1 DEF IInv, Calls, asked, flight, Leading, After, Waiting
    <2>4. Values'
        BY <2>1 DEF IInv, Values, ValueOf, asked, flight, ends, Leading, After
    <2>5. RefsExact'
        BY <2>1 DEF IInv, RefsExact, Holders, Shared, flight, bodies, ends
    <2> QED
        BY <2>2, <2>3, <2>4, <2>5 DEF IInv
<1>2. CASE Next
    BY <1>2, FlightStep, FlightExpire DEF Next
<1> QED
    BY <1>1, <1>2

LEMMA FlightInv == Spec => []IInv
<1> QED
    BY FlightInit, FlightNext, PTL DEF Spec

\* References and waiters are counted exactly, however cancellations fall before, at and after
\* the publication, and one request at a time converts a key (doContext, flight.go).
THEOREM FlightsCount == Spec => []FlightsExact
<1>1. ASSUME IInv PROVE FlightsExact
  <2>1. WaitersExact
    <3>1. ASSUME NEW k \in Key, inflight[k] # NoOne
          PROVE  inflight[k] \in Request /\ Leading(inflight[k])
        BY <1>1, <3>1 DEF IInv, TypeOK, Calls
    <3> QED
        BY <1>1, <3>1 DEF IInv, Calls, WaitersExact, Waiting
  <2>2. OneConversion
    BY <1>1 DEF IInv, Calls, Leading, OneConversion
  <2> QED
    BY <1>1, <2>1, <2>2 DEF IInv, FlightsExact
<1> QED
    BY <1>1, FlightInv, PTL

-----------------------------------------------------------------------------
(* The order of answers.                                                     *)

\* The leader r has a body that is not published yet; q got the body of a call that is over.
Has(r)  == pc[r] = "store" \/ (pc[r] = "publish" /\ calls[r].result.err = "nil")
Gets(q) == Returned(q) /\ Shared(q).err = "nil"

Serials ==
    /\ \A b \in Request : serial[b] <= parses
    /\ \A k \in Key :
          newest[k].published <= parses /\ newest[k].answered <= parses /\ cache[k] <= parses

\* Newest first: a leader's own conversion, the cached one of its key, those callers are about
\* to answer with, and those they have answered with.
Ahead ==
    /\ \A k \in Key : cache[k] # 0 => newest[k].answered <= cache[k]
    /\ \A r, q \in Request : Has(r) /\ Gets(q) /\ key[q] = key[r] => serial[call[q]] <= serial[r]

\* The same of one request, as a leader, as a caller, and when it has its answer.
Own(r) ==
    /\ pc[r] = "read" => ~force[r]
    /\ calls[r].result.stored => ~calls[r].result.fromCache
    /\ pc[r] \in {"parse", "parsing", "store"} /\ ~force[r] => cache[key[r]] = 0
    /\ pc[r] = "publish" /\ Has(r) => cache[key[r]] \in {0, serial[r]}
    /\ Has(r) =>
          /\ newest[key[r]].answered <= serial[r] /\ cache[key[r]] <= serial[r]
          /\ ~calls[r].result.fromCache => newest[key[r]].published < serial[r]
    /\ pc[r] # "idle" =>
          /\ past[r].published <= newest[key[r]].published
          /\ past[r].answered <= newest[key[r]].answered
    /\ Gets(r) =>
          /\ past[r].answered <= serial[call[r]]
          /\ cache[key[r]] # 0 => serial[call[r]] <= cache[key[r]]
          /\ ~Shared(r).fromCache => past[r].published < serial[call[r]]
    /\ pc[r] \in {"send", "done"} /\ answer[r].err = "nil" =>
          /\ past[r].answered <= answer[r].serial
          /\ force[r] => past[r].published < answer[r].serial

Order == Serials /\ Ahead /\ \A r \in Request : Own(r)

\* Only Publish ends a call.
LEMMA CallsFrameOf ==
  ASSUME TypeOK, Calls, Values, NEW r \in Request, ~Publish(r),
         Step(r) \/ Cancel(r) \/ \E k \in Key, f \in BOOLEAN : Arrive(r, k, f)
  PROVE  CallsFrame(r)
<1>1. CASE Lookup(r) \/ Cancel(r) \/ JoinCancelled(r) \/ \E k \in Key, f \in BOOLEAN : Arrive(r, k, f)
    BY <1>1 DEF Lookup, ReadMiss, ReadHit, Send, JoinCancelled, Cancel, Arrive, asked, flight, ends, CallsFrame
<1>2. CASE Join(r)
    <2>1. PICK c \in Request : c = inflight[key[r]]
        BY <1>2 DEF Join, Calls, TypeOK
    <2>2. calls' = [calls EXCEPT ![c].waiters = @ + 1]
        BY <1>2, <2>1 DEF Join
    <2> QED
        BY <2>2 DEF CallsFrame, TypeOK
<1>3. CASE Lead(r)
    BY <1>3 DEF Lead, CallsFrame, TypeOK
<1>4. CASE Fn(r)
    <2>1. PICK res \in Results : calls' = [calls EXCEPT ![r].result = res]
        BY <1>4, FnMoves
    <2>2. ~calls[r].done
        BY <1>4, FnMoves DEF Calls
    <2> QED
        BY <2>1, <2>2 DEF CallsFrame, TypeOK
<1>5. CASE LeaveCall(r)
    <2>1. PICK c \in Request : c = call[r]
        BY <1>5 DEF LeaveCall, Calls
    <2>2. calls' = [calls EXCEPT ![c].waiters = @ - 1]
        BY <1>5, <2>1 DEF LeaveCall
    <2> QED
        BY <2>2 DEF CallsFrame, TypeOK
<1>6. CASE Finish(r) /\ ~LeaveCall(r)
    <2>1. calls' = calls
        BY <1>6 DEF Finish, ReleaseLate, TakeError, TryAgain, TakeUnstored, TakeResult, Sent, flight
    <2> QED
        BY <2>1 DEF CallsFrame
<1> QED
    BY <1>1, <1>2, <1>3, <1>4, <1>5, <1>6 DEF Step, DoContext

\* The others get what they got.
LEMMA GetsFrame ==
  ASSUME Calls, NEW r \in Request, Alone(r), CallsFrame(r), NEW q \in Request \ {r}
  PROVE  /\ Gets(q)' <=> Gets(q)
         /\ Gets(q) => call'[q] = call[q] /\ Shared(q)' = Shared(q)
<1>1. pc'[q] = pc[q] /\ call'[q] = call[q]
    BY DEF Alone
<1>2. CASE pc[q] = "led"
    <2>1. call[q] = q /\ calls'[q].result = calls[q].result
        BY <1>2 DEF Calls, CallsFrame
    <2> QED
        BY <1>1, <1>2, <2>1 DEF Gets, Returned, Shared
<1>3. CASE pc[q] = "wait"
    <2>1. call[q] \in Request /\ (call[q] = r => pc[r] # "join")
        BY <1>3 DEF Calls, Leading, After
    <2>2. calls'[call[q]].done = calls[call[q]].done
          /\ (calls[call[q]].done => calls'[call[q]].result = calls[call[q]].result)
        BY <2>1 DEF CallsFrame
    <2> QED
        BY <1>1, <1>3, <2>2 DEF Gets, Returned, Shared
<1>4. CASE pc[q] \notin {"led", "wait"}
    BY <1>1, <1>4 DEF Gets, Returned
<1> QED
    BY <1>2, <1>3, <1>4

LEMMA GetsFacts ==
  ASSUME TypeOK, Calls, Values, NEW q \in Request, Gets(q)
  PROVE  /\ call[q] \in Request /\ After(call[q]) /\ key[q] \in Key /\ serial[call[q]] \in Nat
         /\ Shared(q).body = call[q] /\ pc[q] \in {"led", "wait"}
<1>1. Returned(q) /\ Shared(q).err = "nil" /\ pc[q] \in {"led", "wait"}
    BY DEF Gets, Returned
<1>2. key[q] \in Key
    BY <1>1 DEF Calls
<1> QED
    BY <1>1, <1>2, SharedFacts DEF TypeOK

LEMMA HasFacts ==
  ASSUME TypeOK, Calls, NEW r \in Request, Has(r)
  PROVE  Leading(r) /\ key[r] \in Key /\ serial[r] \in Nat /\ ~After(r)
BY DEF Has, Leading, Calls, TypeOK, After

\* What a step of r, short of Publish, may do to the serials, the cache and the history.
Moves(r) ==
    /\ parses' \in {parses, parses + 1}
    /\ \/ serial' = serial
       \/ /\ ~Has(r) /\ ~After(r)
          /\ \E n \in 0..parses' : serial' = [serial EXCEPT ![r] = n]
    /\ \/ cache' = cache /\ newest' = newest
       \/ Has(r) /\ newest' = newest /\ cache' = [cache EXCEPT ![key[r]] = serial[r]]
       \/ /\ cache' = cache
          /\ \E n \in 0..parses :
                /\ newest' = [newest EXCEPT ![key[r]].answered = AtLeast(@, n)]
                /\ cache[key[r]] # 0 => n <= cache[key[r]]
                /\ \A q \in Request : Has(q) /\ key[q] = key[r] => n <= serial[q]

LEMMA NewestTyped ==
  ASSUME TypeOK, NEW r \in Request, Moves(r), key[r] \in Key \/ newest' = newest
  PROVE  newest' \in [Key -> [published : Nat, answered : Nat]]
<1>1. newest \in [Key -> [published : Nat, answered : Nat]] /\ parses \in Nat
    BY DEF TypeOK
<1>2. CASE newest' = newest
    BY <1>1, <1>2
<1>3. CASE newest' # newest
    <2>1. PICK n \in 0..parses : newest' = [newest EXCEPT ![key[r]].answered = AtLeast(@, n)]
        BY <1>3 DEF Moves
    <2> QED
        BY <1>1, <1>3, <2>1 DEF AtLeast
<1> QED
    BY <1>2, <1>3

LEMMA MovesFacts ==
  ASSUME IInv, Order, NEW r \in Request, Moves(r), key[r] \in Key \/ (cache' = cache /\ newest' = newest)
  PROVE  /\ \A k \in Key : newest'[k].published = newest[k].published
                           /\ newest[k].answered <= newest'[k].answered
         /\ \A k \in Key : cache'[k] # cache[k] =>
                newest' = newest /\ Has(r) /\ k = key[r] /\ cache'[k] = serial[r]
         /\ \A q \in Request : Has(q) => newest'[key[q]].answered <= serial[q]
         /\ \A k \in Key : cache'[k] # 0 => newest'[k].answered <= cache'[k]
         /\ \A q \in Request : q # r \/ Has(r) \/ After(r) => serial'[q] = serial[q]
         /\ Serials'
<1> USE DEF IInv
<1>1. \A q \in Request : Has(q) => newest[key[q]].answered <= serial[q] /\ key[q] \in Key
    BY HasFacts DEF Order, Own
<1>2. \A k \in Key : cache[k] # 0 => newest[k].answered <= cache[k]
    BY DEF Order, Ahead
<1>3. \A q \in Request : (q # r \/ Has(r) \/ After(r) => serial'[q] = serial[q]) /\ serial'[q] <= parses'
    <2>1. CASE serial' = serial
        BY <2>1 DEF Moves, Order, Serials, TypeOK
    <2>2. CASE serial' # serial
      <3>1. PICK n \in 0..parses' : serial' = [serial EXCEPT ![r] = n]
        BY <2>2 DEF Moves
      <3> QED
        BY <2>2, <3>1 DEF Moves, Order, Serials, TypeOK
    <2> QED
        BY <2>1, <2>2
<1>4. parses \in Nat /\ parses' \in Nat /\ parses <= parses'
    BY DEF Moves, TypeOK
<1>5. \A k \in Key : newest[k].published <= parses /\ newest[k].answered <= parses /\ cache[k] <= parses
                     /\ newest[k].published \in Nat /\ newest[k].answered \in Nat /\ cache[k] \in Nat
    BY DEF Order, Serials, TypeOK
<1>6. CASE cache' = cache /\ newest' = newest
    BY <1>1, <1>2, <1>3, <1>4, <1>5, <1>6 DEF Serials
<1>7. CASE Has(r) /\ newest' = newest /\ cache' = [cache EXCEPT ![key[r]] = serial[r]]
    <2>1. key[r] \in Key /\ serial[r] \in Nat /\ serial[r] <= parses /\ newest[key[r]].answered <= serial[r]
        BY <1>1, <1>7 DEF Order, Serials, TypeOK
    <2>2. cache'[key[r]] = serial[r] /\ \A k \in Key \ {key[r]} : cache'[k] = cache[k]
        BY <1>7, <2>1 DEF TypeOK
    <2> QED
        BY <1>1, <1>2, <1>3, <1>4, <1>5, <1>7, <2>1, <2>2 DEF Serials
<1>8. CASE key[r] \in Key /\ cache' = cache /\
          \E n \in 0..parses :
                /\ newest' = [newest EXCEPT ![key[r]].answered = AtLeast(@, n)]
                /\ cache[key[r]] # 0 => n <= cache[key[r]]
                /\ \A q \in Request : Has(q) /\ key[q] = key[r] => n <= serial[q]
    <2>1. PICK n \in 0..parses :
                /\ newest' = [newest EXCEPT ![key[r]].answered = AtLeast(@, n)]
                /\ cache[key[r]] # 0 => n <= cache[key[r]]
                /\ \A q \in Request : Has(q) /\ key[q] = key[r] => n <= serial[q]
        BY <1>8
    <2>2. PICK k \in Key : k = key[r]
        BY <1>8
    <2>3. /\ newest'[k].answered = AtLeast(newest[k].answered, n) /\ newest'[k].published = newest[k].published
          /\ \A l \in Key \ {k} : newest'[l] = newest[l]
        BY <2>1, <2>2 DEF TypeOK
    <2>4. /\ newest[k].answered <= newest'[k].answered /\ newest'[k].answered \in {n, newest[k].answered}
          /\ newest'[k].answered \in Nat
        BY <1>5, <2>3 DEF AtLeast
    <2>5. newest'[k].answered <= parses /\ (cache[k] # 0 => newest'[k].answered <= cache[k])
        BY <1>2, <1>5, <2>1, <2>2, <2>4
    <2>6. ASSUME NEW q \in Request, Has(q) PROVE newest'[key[q]].answered <= serial[q]
        BY <1>1, <2>1, <2>2, <2>3, <2>4, <2>6
    <2> QED
        BY <1>3, <1>4, <1>5, <1>8, <2>2, <2>3, <2>4, <2>5, <2>6, <1>2 DEF Serials
<1> QED
    BY <1>6, <1>7, <1>8 DEF Moves

\* It does not touch what concerns the others.
LEMMA OwnFrame ==
  ASSUME IInv, Order, NEW r \in Request, Alone(r), CallsFrame(r), Moves(r),
         key[r] \in Key \/ (cache' = cache /\ newest' = newest), NEW q \in Request \ {r}
  PROVE  Own(q)'
<1> USE DEF IInv
<1>1. Own(q) /\ pc'[q] = pc[q] /\ key'[q] = key[q] /\ force'[q] = force[q] /\ past'[q] = past[q]
      /\ answer'[q] = answer[q]
    BY DEF Order, Alone
<1>2. calls'[q].result = calls[q].result /\ serial'[q] = serial[q]
    BY MovesFacts DEF CallsFrame
<1>3. Has(q)' <=> Has(q)
    BY <1>1, <1>2 DEF Has
<1>4. /\ Gets(q)' <=> Gets(q)
      /\ Gets(q) => call'[q] = call[q] /\ Shared(q)' = Shared(q) /\ key[q] \in Key
                    /\ serial'[call[q]] = serial[call[q]] /\ serial[call[q]] \in Nat
    <2>1. Gets(q) => call[q] \in Request /\ After(call[q]) /\ key[q] \in Key /\ serial[call[q]] \in Nat
        BY GetsFacts
    <2>2. Gets(q) => serial'[call[q]] = serial[call[q]]
        BY <2>1, MovesFacts
    <2> QED
        BY <2>1, <2>2, GetsFrame
<1>5. pc[q] # "idle" => key[q] \in Key /\ past[q].published \in Nat /\ past[q].answered \in Nat
    BY DEF Calls, TypeOK
<1>6. \A k \in Key : /\ newest'[k].published = newest[k].published /\ newest[k].published \in Nat
                     /\ newest[k].answered <= newest'[k].answered
                     /\ newest[k].answered \in Nat /\ newest'[k].answered \in Nat
    BY MovesFacts, NewestTyped DEF TypeOK
<1>7. Leading(q) => cache'[key[q]] = cache[key[q]]
    <2> SUFFICES ASSUME Leading(q), cache'[key[q]] # cache[key[q]] PROVE FALSE
        OBVIOUS
    <2>1. key[q] \in Key
        BY <1>5 DEF Leading
    <2>2. Has(r) /\ key[q] = key[r]
        BY <2>1, MovesFacts
    <2>3. Leading(r)
        BY <2>2, HasFacts
    <2> QED
        BY <2>2, <2>3 DEF Calls
<1>8. Has(q) => Leading(q) /\ newest'[key[q]].answered <= serial[q] /\ key[q] \in Key
    BY HasFacts, MovesFacts
<1>9. Has(q)' =>
          /\ newest'[key[q]].answered <= serial'[q] /\ cache'[key[q]] <= serial'[q]
          /\ ~calls'[q].result.fromCache => newest'[key[q]].published < serial'[q]
    BY <1>1, <1>2, <1>3, <1>6, <1>7, <1>8 DEF Own
<1>10. pc[q] # "idle" =>
          /\ past[q].published <= newest'[key[q]].published
          /\ past[q].answered <= newest'[key[q]].answered
    BY <1>1, <1>5, <1>6 DEF Own
<1>11. Gets(q) => (cache'[key[q]] # 0 => serial[call[q]] <= cache'[key[q]])
    <2> SUFFICES ASSUME Gets(q), cache'[key[q]] # 0 PROVE serial[call[q]] <= cache'[key[q]]
        OBVIOUS
    <2>1. CASE cache'[key[q]] = cache[key[q]]
        BY <1>1, <2>1 DEF Own
    <2>2. CASE cache'[key[q]] # cache[key[q]]
      <3>1. Has(r) /\ key[q] = key[r] /\ cache'[key[q]] = serial[r]
        BY <1>4, <2>2, MovesFacts
      <3> QED
        BY <3>1 DEF Order, Ahead
    <2> QED
        BY <2>1, <2>2
<1>12. /\ pc'[q] = "read" => ~force'[q]
       /\ calls'[q].result.stored => ~calls'[q].result.fromCache
       /\ pc'[q] \in {"parse", "parsing", "store"} /\ ~force'[q] => cache'[key'[q]] = 0
       /\ pc'[q] = "publish" /\ Has(q)' => cache'[key'[q]] \in {0, serial'[q]}
    BY <1>1, <1>2, <1>3, <1>7 DEF Own, Leading
<1>13. Gets(q)' =>
          /\ past'[q].answered <= serial'[call'[q]]
          /\ cache'[key'[q]] # 0 => serial'[call'[q]] <= cache'[key'[q]]
          /\ ~Shared(q)'.fromCache => past'[q].published < serial'[call'[q]]
    BY <1>1, <1>4, <1>11 DEF Own
<1>14. pc'[q] \in {"send", "done"} /\ answer'[q].err = "nil" =>
          /\ past'[q].answered <= answer'[q].serial
          /\ force'[q] => past'[q].published < answer'[q].serial
    BY <1>1 DEF Own
<1> QED
    BY <1>1, <1>9, <1>10, <1>12, <1>13, <1>14 DEF Own

\* Nor the order between leaders and callers, if what r holds now is newer than what they got.
LEMMA OrderFrame ==
  ASSUME IInv, IInv', Order, NEW r \in Request, Alone(r), CallsFrame(r), Moves(r),
         key[r] \in Key \/ (cache' = cache /\ newest' = newest), Own(r)',
         Has(r)' => /\ key'[r] = key[r] /\ key[r] \in Key
                    /\ \/ Has(r)
                       \/ serial'[r] = parses + 1
                       \/ serial'[r] = cache[key[r]] /\ cache[key[r]] # 0,
         Gets(r)' => Gets(r) /\ call'[r] = call[r] /\ key'[r] = key[r]
  PROVE  Order'
<1> USE DEF IInv
<1>1. \A q \in Request : Own(q)'
    BY OwnFrame
<1>2. Serials' /\ \A k \in Key : cache'[k] # 0 => newest'[k].answered <= cache'[k]
    BY MovesFacts
<1>3. \A q \in Request : Gets(q)' =>
          /\ Gets(q) /\ call'[q] = call[q] /\ key'[q] = key[q]
          /\ serial'[call[q]] = serial[call[q]] /\ serial[call[q]] \in Nat /\ serial[call[q]] <= parses
    <2> SUFFICES ASSUME NEW q \in Request, Gets(q)'
                 PROVE  /\ Gets(q) /\ call'[q] = call[q] /\ key'[q] = key[q]
                        /\ serial'[call[q]] = serial[call[q]] /\ serial[call[q]] \in Nat
                        /\ serial[call[q]] <= parses
        OBVIOUS
    <2>1. Gets(q) /\ call'[q] = call[q] /\ key'[q] = key[q]
        BY GetsFrame DEF Alone
    <2>2. call[q] \in Request /\ After(call[q]) /\ serial[call[q]] \in Nat
        BY <2>1, GetsFacts
    <2>3. serial'[call[q]] = serial[call[q]]
        BY <2>2, MovesFacts
    <2> QED
        BY <2>1, <2>2, <2>3 DEF Order, Serials
<1>4. ASSUME NEW p \in Request, NEW q \in Request, Has(p)', Gets(q)', key'[q] = key'[p]
      PROVE  serial'[call'[q]] <= serial'[p]
    <2>1. CASE p # r \/ Has(r)
      <3>1. Has(p) /\ key'[p] = key[p] /\ serial'[p] = serial[p]
        BY <1>4, <2>1, MovesFacts DEF Alone, CallsFrame, Has
      <3> QED
        BY <1>3, <1>4, <3>1 DEF Order, Ahead
    <2>2. CASE p = r /\ ~Has(r) /\ serial'[r] = parses + 1
        BY <1>3, <1>4, <2>2 DEF TypeOK
    <2>3. CASE p = r /\ ~Has(r) /\ serial'[r] = cache[key[r]] /\ cache[key[r]] # 0
      <3>1. Gets(q) /\ key[q] = key[r]
        BY <1>3, <1>4, <2>3
      <3>2. serial[call[q]] <= cache[key[r]]
        BY <2>3, <3>1 DEF Order, Own
      <3> QED
        BY <1>3, <1>4, <2>3, <3>2
    <2> QED
        BY <1>4, <2>1, <2>2, <2>3
<1> QED
    BY <1>1, <1>2, <1>4 DEF Order, Ahead

\* Steps that open nothing, store nothing and answer nothing.
LEMMA OrderQuiet ==
  ASSUME IInv, IInv', Order, NEW r \in Request, Alone(r), CallsFrame(r),
         serial' = serial, cache' = cache, newest' = newest, parses' \in {parses, parses + 1},
         key'[r] = key[r], past'[r] = past[r], force'[r] = force[r], pc[r] # "idle",
         pc'[r] = "read" => pc[r] = "read",
         calls'[r].result.stored => ~calls'[r].result.fromCache,
         pc'[r] \in {"parse", "parsing", "store"} /\ ~force[r] => cache[key[r]] = 0,
         Has(r)' => /\ Has(r) /\ calls'[r].result = calls[r].result
                    /\ pc'[r] = "publish" => cache[key[r]] \in {0, serial[r]},
         Gets(r)' => Gets(r) /\ call'[r] = call[r] /\ Shared(r)' = Shared(r),
         pc'[r] \in {"send", "done"} /\ answer'[r].err = "nil" =>
             pc[r] \in {"send", "done"} /\ answer[r].err = "nil" /\ answer'[r].serial = answer[r].serial
  PROVE  Order'
<1> USE DEF IInv
<1>1. Moves(r)
    BY DEF Moves
<1>2. Own(r)
    BY DEF Order
<1>3. Own(r)'
    BY <1>2 DEF Own
<1>4. Has(r)' => key[r] \in Key
    BY HasFacts
<1> QED
    BY <1>1, <1>3, <1>4, OrderFrame

LEMMA OrderLookup ==
  ASSUME IInv, IInv', Order, NEW r \in Request, Alone(r), CallsFrame(r),
         Lookup(r) \/ Cancel(r) \/ \E k \in Key, f \in BOOLEAN : Arrive(r, k, f)
  PROVE  Order'
<1> USE DEF IInv
<1>0. calls' = calls /\ Own(r)
    BY DEF Lookup, ReadMiss, ReadHit, Send, Cancel, Arrive, asked, flight, ends, Order
<1>1. CASE \E k \in Key, f \in BOOLEAN : Arrive(r, k, f)
    <2>1. PICK k \in Key, f \in BOOLEAN : Arrive(r, k, f)
        BY <1>1
    <2>2. /\ pc[r] = "idle" /\ pc'[r] = (IF f THEN "join" ELSE "read") /\ key'[r] = k /\ force'[r] = f
          /\ past'[r] = newest[k] /\ serial' = serial /\ cache' = cache /\ newest' = newest
          /\ parses' = parses
        BY <2>1 DEF Arrive, bodies, cached, ends, TypeOK
    <2>3. ~Has(r)' /\ ~Gets(r)'
        BY <2>2 DEF Has, Gets, Returned
    <2>4. newest[k].published \in Nat /\ newest[k].answered \in Nat
        BY DEF TypeOK
    <2>5. Own(r)'
        BY <1>0, <2>2, <2>3, <2>4 DEF Own
    <2> QED
        BY <2>2, <2>3, <2>5, OrderFrame DEF Moves
<1>2. CASE Cancel(r)
    <2>1. /\ UNCHANGED <<pc, key, force, past, call, serial, cache, newest, parses, answer>>
          /\ pc[r] \notin {"idle", "send", "done"}
        BY <1>2 DEF Cancel, asked, flight, bodies, cached, ends
    <2>2. (Has(r)' => Has(r)) /\ (Gets(r)' => Gets(r)) /\ Shared(r)' = Shared(r)
        BY <1>0, <2>1 DEF Has, Gets, Returned, Shared
    <2> QED
        BY <1>0, <2>1, <2>2, OrderQuiet DEF Own
<1>3. CASE ReadMiss(r)
    <2>1. /\ UNCHANGED <<key, force, past, serial, cache, newest, parses>>
          /\ pc[r] = "read" /\ pc'[r] = "join"
        BY <1>3 DEF ReadMiss, asked, bodies, cached, ends, TypeOK
    <2>2. ~Has(r)' /\ ~Gets(r)'
        BY <2>1 DEF Has, Gets, Returned
    <2> QED
        BY <1>0, <2>1, <2>2, OrderQuiet DEF Own
<1>4. CASE ReadHit(r)
    <2>1. pc[r] = "read" /\ key[r] \in Key /\ cache[key[r]] # 0
        BY <1>4 DEF ReadHit, Calls
    <2>2. PICK n \in Nat : n = cache[key[r]] /\ n <= parses
        BY <2>1 DEF Order, Serials, TypeOK
    <2>3. /\ UNCHANGED <<key, force, past, cache, parses>> /\ pc'[r] = "send"
          /\ serial' = [serial EXCEPT ![r] = n]
          /\ answer'[r] = [body |-> r, err |-> "nil", serial |-> n]
          /\ newest' = [newest EXCEPT ![key[r]].answered = AtLeast(@, n)]
        BY <1>4, <2>2 DEF ReadHit, Open, Send, asked, cached, TypeOK
    <2>4. ~Has(r)' /\ ~Gets(r)' /\ ~Has(r) /\ ~After(r)
        BY <2>1, <2>3 DEF Has, Gets, Returned, After
    <2>5. Moves(r)
      <3>1. \A q \in Request : Has(q) /\ key[q] = key[r] => n <= serial[q]
        BY <2>2 DEF Order, Own
      <3>2. n \in 0..parses /\ parses \in Nat
        BY <2>2 DEF TypeOK
      <3>3. parses' = parses /\ \E m \in 0..parses' : serial' = [serial EXCEPT ![r] = m]
        BY <2>3, <3>2
      <3>4. \E m \in 0..parses :
                /\ newest' = [newest EXCEPT ![key[r]].answered = AtLeast(@, m)]
                /\ cache[key[r]] # 0 => m <= cache[key[r]]
                /\ \A q \in Request : Has(q) /\ key[q] = key[r] => m <= serial[q]
        <4>1. n <= cache[key[r]]
            BY <2>2
        <4> QED
            BY <2>3, <3>1, <3>2, <4>1
      <3> QED
        BY <2>3, <2>4, <3>3, <3>4 DEF Moves
    <2>6. Own(r)'
      <3>1. /\ newest'[key[r]].published = newest[key[r]].published
            /\ newest[key[r]].answered <= newest'[key[r]].answered
        BY <2>1, <2>5, MovesFacts
      <3>2. newest' \in [Key -> [published : Nat, answered : Nat]]
        BY DEF TypeOK
      <3>3. /\ newest[key[r]].published \in Nat /\ newest[key[r]].answered \in Nat
            /\ newest'[key[r]].answered \in Nat /\ past[r].published \in Nat /\ past[r].answered \in Nat
        BY <2>1, <3>2 DEF TypeOK
      <3>4. newest[key[r]].answered <= n
        BY <2>1, <2>2 DEF Order, Ahead
      <3>5. /\ past[r].published <= newest[key[r]].published
            /\ past[r].answered <= newest[key[r]].answered /\ ~force[r]
        BY <1>0, <2>1 DEF Own
      <3> QED
        BY <1>0, <2>1, <2>3, <2>4, <3>1, <3>3, <3>4, <3>5 DEF Own
    <2> QED
        BY <2>1, <2>4, <2>5, <2>6, OrderFrame
<1> QED
    BY <1>1, <1>2, <1>3, <1>4 DEF Lookup

LEMMA OrderJoin ==
  ASSUME IInv, IInv', Order, NEW r \in Request, Alone(r), CallsFrame(r), DoContext(r)
  PROVE  Order'
<1> USE DEF IInv
<1>1. /\ UNCHANGED <<key, force, past, serial, cache, newest, parses>> /\ pc[r] = "join"
    BY DEF DoContext, JoinCancelled, Join, Lead, asked, bodies, cached, ends
<1>2. Own(r)
    BY DEF Order
<1>3. CASE JoinCancelled(r)
    <2>1. pc'[r] = "done" /\ answer'[r].err # "nil" /\ calls' = calls
        BY <1>3 DEF JoinCancelled, Fail, TypeOK
    <2>2. ~Has(r)' /\ ~Gets(r)'
        BY <2>1 DEF Has, Gets, Returned
    <2> QED
        BY <1>1, <1>2, <2>1, <2>2, OrderQuiet DEF Own
<1>4. CASE Join(r)
    <2>1. PICK c \in Request : c = inflight[key[r]] /\ Leading(c)
      <3>1. key[r] \in Key /\ inflight[key[r]] # NoOne
        BY <1>4 DEF Join, Calls
      <3>2. inflight[key[r]] \in Request
        BY <3>1 DEF TypeOK
      <3> QED
        BY <3>1, <3>2 DEF Calls
    <2>2. pc'[r] = "wait" /\ call'[r] = c
        BY <1>4, <2>1 DEF Join, TypeOK
    <2>3. \A d \in Request : calls'[d].done = calls[d].done /\ calls'[d].result = calls[d].result
      <3>1. calls' = [calls EXCEPT ![c].waiters = @ + 1]
        BY <1>4, <2>1 DEF Join
      <3> QED
        BY <3>1 DEF TypeOK
    <2>4. ~calls'[c].done
        BY <2>1, <2>3 DEF Calls
    <2>5. ~Has(r)' /\ ~Gets(r)'
        BY <2>2, <2>4 DEF Has, Gets, Returned
    <2>6. calls'[r].result.stored => ~calls'[r].result.fromCache
        BY <1>2, <2>3 DEF Own
    <2> QED
        BY <1>1, <2>2, <2>5, <2>6, OrderQuiet
<1>5. CASE Lead(r)
    <2>1. pc'[r] = (IF force[r] THEN "parse" ELSE "check") /\ calls'[r] = FreshCall
        BY <1>5 DEF Lead, TypeOK
    <2>2. ~Has(r)' /\ ~Gets(r)'
        BY <2>1 DEF Has, Gets, Returned
    <2>3. ~calls'[r].result.stored
        BY <2>1 DEF FreshCall, Error
    <2> QED
        BY <1>1, <2>1, <2>2, <2>3, OrderQuiet
<1> QED
    BY <1>3, <1>4, <1>5 DEF DoContext

LEMMA OrderFinish ==
  ASSUME IInv, IInv', Order, NEW r \in Request, Alone(r), CallsFrame(r), Finish(r)
  PROVE  Order'
<1> USE DEF IInv
<1>1. UNCHANGED <<key, force, past, serial, cache, parses>>
    BY DEF Finish, LeaveCall, ReleaseLate, TakeError, TryAgain, TakeUnstored, TakeResult, Sent, Close,
        asked, bodies, cached
<1>2. Own(r) /\ (calls'[r].result.stored => ~calls'[r].result.fromCache)
    <2>1. calls'[r].result = calls[r].result
      <3>1. CASE LeaveCall(r)
        <4>1. PICK c \in Request : c = call[r]
            BY <3>1 DEF LeaveCall, Calls
        <4>2. calls' = [calls EXCEPT ![c].waiters = @ - 1]
            BY <3>1, <4>1 DEF LeaveCall
        <4> QED
            BY <4>2 DEF TypeOK
      <3>2. CASE ~LeaveCall(r)
        BY <3>2 DEF Finish, ReleaseLate, TakeError, TryAgain, TakeUnstored, TakeResult, Sent, flight
      <3> QED
        BY <3>1, <3>2
    <2> QED
        BY <2>1 DEF Order, Own
<1>3. CASE LeaveCall(r) \/ ReleaseLate(r) \/ TakeError(r) \/ TakeUnstored(r)
    <2>1. pc[r] # "idle" /\ pc'[r] = "done" /\ answer'[r].err # "nil" /\ newest' = newest
        BY <1>3 DEF LeaveCall, ReleaseLate, TakeError, TakeUnstored, Returned, Fail, TypeOK
    <2>2. ~Has(r)' /\ ~Gets(r)'
        BY <2>1 DEF Has, Gets, Returned
    <2> QED
        BY <1>1, <1>2, <2>1, <2>2, OrderQuiet
<1>4. CASE TryAgain(r)
    <2>1. pc[r] # "idle" /\ pc'[r] = "join" /\ newest' = newest
        BY <1>4 DEF TryAgain, Returned, ends, TypeOK
    <2>2. ~Has(r)' /\ ~Gets(r)'
        BY <2>1 DEF Has, Gets, Returned
    <2> QED
        BY <1>1, <1>2, <2>1, <2>2, OrderQuiet
<1>5. CASE Sent(r)
    <2>1. /\ pc[r] = "send" /\ pc'[r] = "done" /\ newest' = newest
          /\ answer'[r].err = answer[r].err /\ answer'[r].serial = answer[r].serial
        BY <1>5 DEF Sent, TypeOK
    <2>2. ~Has(r)' /\ ~Gets(r)'
        BY <2>1 DEF Has, Gets, Returned
    <2> QED
        BY <1>1, <1>2, <2>1, <2>2, OrderQuiet
<1>6. CASE TakeResult(r)
    <2>1. Gets(r) /\ (force[r] => Shared(r).stored)
        BY <1>6 DEF TakeResult, Gets
    <2>2. PICK c \in Request : c = call[r] /\ Shared(r).body = c /\ key[r] \in Key /\ pc[r] \in {"led", "wait"}
        BY <2>1, GetsFacts
    <2>3. PICK n \in Nat : n = serial[c] /\ n <= parses
        BY DEF Order, Serials, TypeOK
    <2>4. /\ pc'[r] = "send" /\ answer'[r] = [body |-> c, err |-> "nil", serial |-> n]
          /\ newest' = [newest EXCEPT ![key[r]].answered = AtLeast(@, n)]
        BY <1>6, <2>2, <2>3 DEF TakeResult, Send, TypeOK
    <2>5. ~Has(r)' /\ ~Gets(r)'
        BY <2>4 DEF Has, Gets, Returned
    <2>6. Moves(r)
      <3>1. \A q \in Request : Has(q) /\ key[q] = key[r] => n <= serial[q]
        BY <2>1, <2>2, <2>3 DEF Order, Ahead
      <3>2. cache[key[r]] # 0 => n <= cache[key[r]]
        BY <1>2, <2>1, <2>2, <2>3 DEF Own
      <3>3. n \in 0..parses /\ parses \in Nat
        BY <2>3 DEF TypeOK
      <3> QED
        BY <1>1, <2>4, <3>1, <3>2, <3>3 DEF Moves
    <2>7. Own(r)'
      <3>1. /\ newest'[key[r]].published = newest[key[r]].published
            /\ newest[key[r]].answered <= newest'[key[r]].answered
        BY <2>2, <2>6, MovesFacts
      <3>2. newest' \in [Key -> [published : Nat, answered : Nat]]
        BY DEF TypeOK
      <3>3. /\ newest[key[r]].published \in Nat /\ newest[key[r]].answered \in Nat
            /\ newest'[key[r]].answered \in Nat /\ past[r].published \in Nat /\ past[r].answered \in Nat
        BY <2>2, <3>2 DEF TypeOK
      <3>4. force[r] => ~Shared(r).fromCache
        BY <2>1, <2>2 DEF Order, Own, Shared
      <3>5. /\ past[r].published <= newest[key[r]].published
            /\ past[r].answered <= newest[key[r]].answered
            /\ past[r].answered <= n /\ (force[r] => past[r].published < n)
        BY <1>2, <2>1, <2>2, <2>3, <3>4 DEF Own
      <3> QED
        BY <1>1, <1>2, <2>4, <2>5, <3>1, <3>3, <3>5 DEF Own
    <2> QED
        BY <2>2, <2>5, <2>6, <2>7, OrderFrame
<1> QED
    BY <1>3, <1>4, <1>5, <1>6 DEF Finish

LEMMA OrderFn ==
  ASSUME IInv, IInv', Order, NEW r \in Request, Alone(r), CallsFrame(r), Fn(r), ~Publish(r)
  PROVE  Order'
<1> USE DEF IInv
<1>1. PICK res \in Results :
        /\ calls' = [calls EXCEPT ![r].result = res]
        /\ \/ /\ pc[r] \in {"check", "parse"} /\ pc'[r] \in {"parse", "parsing"}
              /\ res = Error("nil") /\ UNCHANGED <<refs, serial, cached>>
           \/ /\ pc[r] = "check" /\ pc'[r] = "publish" /\ res = Got(r, TRUE, FALSE)
              /\ cache[key[r]] # 0 /\ Open(r, cache[key[r]]) /\ UNCHANGED cached
           \/ /\ pc[r] \in {"parse", "parsing"} /\ pc'[r] = "publish"
              /\ \E e \in {"cancelled", "parse", "incomplete"} : res = Error(e)
              /\ UNCHANGED <<refs, serial, cache>> /\ parses' \in {parses, parses + 1}
           \/ /\ pc[r] = "parsing" /\ pc'[r] \in {"publish", "store"} /\ res = Got(r, FALSE, FALSE)
              /\ (pc'[r] = "publish" => ~force[r])
              /\ Open(r, parses + 1) /\ parses' = parses + 1 /\ UNCHANGED cache
           \/ /\ pc[r] = "store" /\ pc'[r] = "publish" /\ res = Got(r, FALSE, TRUE)
              /\ cache' = [cache EXCEPT ![key[r]] = serial[r]] /\ UNCHANGED <<refs, serial, parses>>
           \/ /\ pc[r] = "store" /\ pc'[r] = "publish" /\ force[r] /\ res = Error("write")
              /\ Close(r) /\ UNCHANGED cached
           \/ /\ pc[r] = "store" /\ pc'[r] = "publish" /\ ~force[r] /\ res = Got(r, FALSE, FALSE)
              /\ UNCHANGED <<refs, serial, cached>>
    BY FnMoves
<1>2. /\ UNCHANGED <<key, force, past, newest, answer, call>> /\ key[r] \in Key
      /\ Leading(r) /\ Leading(r)' /\ pc[r] # "idle" /\ ~After(r)
    BY FnMoves DEF asked, ends, Leading, After, Calls
<1>3. calls'[r].result = res
    BY <1>1 DEF TypeOK
<1>4. Own(r)
    BY DEF Order
<1>5. ~Gets(r)' /\ pc'[r] \notin {"read", "send", "done"}
    BY <1>2 DEF Gets, Returned, Leading
<1>6. /\ newest[key[r]].published \in Nat /\ newest[key[r]].answered \in Nat /\ cache[key[r]] \in Nat
      /\ newest[key[r]].published <= parses /\ newest[key[r]].answered <= parses /\ cache[key[r]] <= parses
      /\ serial[r] \in Nat /\ parses \in Nat /\ past[r].published \in Nat /\ past[r].answered \in Nat
    BY <1>2 DEF Order, Serials, TypeOK
<1>7. ASSUME UNCHANGED <<serial, cache>>, parses' \in {parses, parses + 1}, ~Has(r)', ~res.stored,
             pc'[r] \in {"parse", "parsing", "store"} /\ ~force[r] => cache[key[r]] = 0
      PROVE  Order'
    BY <1>2, <1>3, <1>5, <1>7, OrderQuiet
<1>8. CASE /\ pc[r] \in {"check", "parse"} /\ pc'[r] \in {"parse", "parsing"}
           /\ res = Error("nil") /\ UNCHANGED <<refs, serial, cached>>
    <2>1. ~Has(r)' /\ ~res.stored
        BY <1>8 DEF Has, Error
    <2>2. pc[r] = "check" => cache[key[r]] = 0
        BY <1>8 DEF Fn, CheckMiss, CheckHit, Acquire, AcquireCancelled, ParseFails, ParseIncomplete,
            ParseComplete, StoreSucceeds, StoreFails, TypeOK
    <2>3. ~force[r] => cache[key[r]] = 0
        BY <1>4, <1>8, <2>2 DEF Own
    <2> QED
        BY <1>7, <1>8, <2>1, <2>3 DEF cached
<1>9. CASE \/ /\ pc[r] \in {"parse", "parsing"} /\ pc'[r] = "publish"
              /\ \E e \in {"cancelled", "parse", "incomplete"} : res = Error(e)
              /\ UNCHANGED <<refs, serial, cache>> /\ parses' \in {parses, parses + 1}
           \/ /\ pc[r] = "store" /\ pc'[r] = "publish" /\ force[r] /\ res = Error("write")
              /\ Close(r) /\ UNCHANGED cached
    <2>1. res.err # "nil" /\ ~res.stored
        BY <1>9 DEF Error
    <2>2. ~Has(r)'
        BY <1>3, <1>9, <2>1 DEF Has
    <2> QED
        BY <1>7, <1>9, <2>1, <2>2 DEF cached, Close
<1>10. CASE /\ pc[r] = "store" /\ pc'[r] = "publish" /\ ~force[r] /\ res = Got(r, FALSE, FALSE)
            /\ UNCHANGED <<refs, serial, cached>>
    <2>1. calls[r].result = Got(r, FALSE, FALSE)
        BY <1>10 DEF Values, ValueOf
    <2>2. Has(r) /\ ~res.stored /\ cache[key[r]] = 0
        BY <1>4, <1>10 DEF Has, Got, Own
    <2> QED
        BY <1>2, <1>3, <1>5, <1>10, <2>1, <2>2, OrderQuiet DEF cached
<1>11. CASE /\ pc[r] = "check" /\ pc'[r] = "publish" /\ res = Got(r, TRUE, FALSE)
            /\ cache[key[r]] # 0 /\ Open(r, cache[key[r]]) /\ UNCHANGED cached
    <2>1. ~Has(r) /\ res.err = "nil" /\ res.fromCache /\ ~res.stored
        BY <1>11 DEF Has, Got
    <2>2. serial' = [serial EXCEPT ![r] = cache[key[r]]] /\ serial'[r] = cache[key[r]]
          /\ cache' = cache /\ parses' = parses
        BY <1>11 DEF Open, cached, TypeOK
    <2>3. Moves(r)
      <3>1. cache[key[r]] \in 0..parses'
        BY <1>6, <2>2
      <3> QED
        BY <1>2, <2>1, <2>2, <3>1 DEF Moves
    <2>4. newest[key[r]].answered <= cache[key[r]]
        BY <1>2, <1>11 DEF Order, Ahead
    <2>5. Own(r)'
      <3>1. newest'[key'[r]].answered <= serial'[r] /\ cache'[key'[r]] <= serial'[r] /\ cache'[key'[r]] = serial'[r]
        BY <1>2, <1>6, <2>2, <2>4
      <3> QED
        BY <1>2, <1>3, <1>4, <1>5, <1>11, <2>1, <3>1 DEF Own
    <2> QED
        BY <1>2, <1>5, <1>11, <2>2, <2>3, <2>5, OrderFrame
<1>12. CASE /\ pc[r] = "parsing" /\ pc'[r] \in {"publish", "store"} /\ res = Got(r, FALSE, FALSE)
            /\ (pc'[r] = "publish" => ~force[r])
            /\ Open(r, parses + 1) /\ parses' = parses + 1 /\ UNCHANGED cache
    <2>1. ~Has(r) /\ res.err = "nil" /\ ~res.stored
        BY <1>12 DEF Has, Got
    <2>2. serial' = [serial EXCEPT ![r] = parses + 1] /\ serial'[r] = parses + 1
        BY <1>12 DEF Open, TypeOK
    <2>3. Moves(r)
      <3>1. parses + 1 \in 0..parses'
        BY <1>6, <1>12
      <3> QED
        BY <1>2, <1>12, <2>1, <2>2, <3>1 DEF Moves
    <2>4. ~force[r] => cache[key[r]] = 0
        BY <1>4, <1>12 DEF Own
    <2>5. Own(r)'
      <3>1. /\ newest'[key'[r]].answered <= serial'[r] /\ cache'[key'[r]] <= serial'[r]
            /\ newest'[key'[r]].published < serial'[r]
        BY <1>2, <1>6, <1>12, <2>2
      <3> QED
        BY <1>2, <1>3, <1>4, <1>5, <1>12, <2>1, <2>4, <3>1 DEF Own
    <2> QED
        BY <1>2, <1>5, <1>12, <2>2, <2>3, <2>5, OrderFrame
<1>13. CASE /\ pc[r] = "store" /\ pc'[r] = "publish" /\ res = Got(r, FALSE, TRUE)
            /\ cache' = [cache EXCEPT ![key[r]] = serial[r]] /\ UNCHANGED <<refs, serial, parses>>
    <2>1. Has(r) /\ res.err = "nil" /\ ~res.fromCache /\ calls[r].result = Got(r, FALSE, FALSE)
        BY <1>13 DEF Has, Got, Values, ValueOf
    <2>2. cache'[key[r]] = serial[r]
        BY <1>2, <1>13 DEF TypeOK
    <2>3. Moves(r)
        BY <1>2, <1>13, <2>1 DEF Moves
    <2>4. newest[key[r]].answered <= serial[r] /\ newest[key[r]].published < serial[r]
        BY <1>4, <2>1 DEF Own, Got
    <2>5. Own(r)'
      <3>1. serial[r] <= serial[r]
        BY <1>6
      <3> QED
        BY <1>2, <1>3, <1>4, <1>5, <1>13, <2>1, <2>2, <2>4, <3>1 DEF Own
    <2> QED
        BY <1>2, <1>5, <2>1, <2>3, <2>5, OrderFrame
<1> QED
    BY <1>1, <1>8, <1>9, <1>10, <1>11, <1>12, <1>13

\* The result is published: nobody has the key's newer one.
LEMMA OrderPublish ==
  ASSUME IInv, IInv', Order, NEW r \in Request, Alone(r), Publish(r)
  PROVE  Order'
<1> USE DEF IInv
<1>1. /\ pc[r] = "publish" /\ pc'[r] = "led" /\ call' = call /\ call[r] = r /\ key[r] \in Key
      /\ UNCHANGED <<key, force, past, serial, cache, parses, answer>>
      /\ calls'[r].done /\ calls'[r].result = calls[r].result /\ ~calls[r].done
      /\ \A d \in Request \ {r} : calls'[d] = calls[d]
    BY DEF Publish, Wake, asked, cached, Calls, TypeOK, Leading
<1>2. PICK k \in Key : k = key[r]
    BY <1>1
<1>3. Has(r) => /\ newest[k].answered <= serial[r] /\ cache[k] \in {0, serial[r]}
                /\ ~calls[r].result.fromCache => newest[k].published < serial[r]
    BY <1>1, <1>2 DEF Order, Own
<1>4. /\ newest' \in [Key -> [published : Nat, answered : Nat]]
      /\ \A l \in Key : /\ newest'[l].answered = newest[l].answered
                        /\ newest[l].published <= newest'[l].published /\ newest'[l].published <= parses
      /\ \A l \in Key \ {k} : newest'[l] = newest[l]
    <2>1. \A l \in Key : newest[l].published <= parses /\ newest[l].published \in Nat
        BY DEF Order, Serials, TypeOK
    <2>2. CASE newest' = newest
        BY <2>1, <2>2 DEF TypeOK
    <2>3. CASE newest' # newest
      <3>1. PICK n \in Nat : n <= parses /\ newest' = [newest EXCEPT ![k].published = AtLeast(@, n)]
        <4>1. Shared(r).body # NoOne /\ Shared(r).body = calls[r].result.body
            BY <1>1, <2>3 DEF Publish, Shared
        <4>2. Shared(r).body = r
            BY <4>1 DEF Values, ValueOf
        <4>3. serial[r] \in Nat /\ serial[r] <= parses
            BY DEF Order, Serials, TypeOK
        <4> QED
            BY <1>2, <4>1, <4>2, <4>3 DEF Publish
      <3>2. /\ newest'[k].published = AtLeast(newest[k].published, n) /\ newest'[k].answered = newest[k].answered
            /\ \A l \in Key \ {k} : newest'[l] = newest[l]
        BY <3>1 DEF TypeOK
      <3>3. newest[k].published <= newest'[k].published /\ newest'[k].published <= parses
        BY <2>1, <3>1, <3>2 DEF AtLeast, TypeOK
      <3>4. newest' \in [Key -> [published : Nat, answered : Nat]]
        BY DEF TypeOK
      <3>5. \A l \in Key \ {k} : newest'[l].answered = newest[l].answered /\ newest'[l].published = newest[l].published
        BY <3>2
      <3>6. \A l \in Key : newest'[l].answered = newest[l].answered
        BY <3>2, <3>5
      <3>7. \A l \in Key : newest[l].published <= newest'[l].published /\ newest'[l].published <= parses
        BY <2>1, <3>3, <3>5
      <3> QED
        BY <3>2, <3>4, <3>6, <3>7
    <2> QED
        BY <2>2, <2>3
<1>5. ASSUME NEW q \in Request, Has(q)'
      PROVE  Has(q) /\ q # r /\ calls'[q] = calls[q] /\ pc'[q] = pc[q] /\ key[q] \in Key /\ key[q] # k
    <2>1. q # r
        BY <1>1, <1>5 DEF Has
    <2>2. Has(q) /\ calls'[q] = calls[q] /\ pc'[q] = pc[q]
        BY <1>1, <1>5, <2>1 DEF Has, Alone
    <2>3. Leading(q) /\ Leading(r) /\ key[q] \in Key
        BY <1>1, <2>2, HasFacts DEF Leading
    <2> QED
        BY <1>2, <2>1, <2>2, <2>3 DEF Calls
<1>6. ASSUME NEW q \in Request, Gets(q)'
      PROVE  \/ Gets(q) /\ Shared(q)' = Shared(q)
             \/ /\ call[q] = r /\ Has(r) /\ Shared(q)' = calls[r].result /\ key[q] = k /\ pc[q] # "idle"
    <2>1. CASE q = r
        BY <1>1, <1>2, <1>6, <2>1 DEF Gets, Has, Shared
    <2>2. CASE q # r
      <3>1. pc'[q] = pc[q] /\ pc[q] \in {"led", "wait"}
        BY <1>6, <2>2 DEF Alone, Gets, Returned
      <3>2. call[q] \in Request /\ key[call[q]] = key[q]
        BY <3>1 DEF Calls
      <3>3. CASE call[q] = r
        BY <1>1, <1>2, <1>6, <3>1, <3>2, <3>3 DEF Gets, Has, Shared
      <3>4. CASE call[q] # r
        BY <1>1, <1>6, <3>1, <3>2, <3>4 DEF Gets, Returned, Shared
      <3> QED
        BY <3>3, <3>4
    <2> QED
        BY <2>1, <2>2
<1>7. ASSUME NEW q \in Request PROVE Own(q)'
    <2>1. Own(q) /\ (pc[q] # "idle" => key[q] \in Key /\ past[q].published \in Nat /\ past[q].answered \in Nat)
        BY DEF Order, Calls, TypeOK
    <2>2. calls'[q].result = calls[q].result
        BY <1>1
    <2>3. \A l \in Key : newest[l].published \in Nat /\ newest[l].answered \in Nat /\ newest'[l].published \in Nat
        BY <1>4 DEF TypeOK
    <2>4. pc'[q] = pc[q] \/ (q = r /\ pc[q] = "publish" /\ pc'[q] = "led")
        BY <1>1 DEF Alone
    <2>5. Has(q)' =>
          /\ newest'[key'[q]].answered <= serial'[q] /\ cache'[key'[q]] <= serial'[q]
          /\ ~calls'[q].result.fromCache => newest'[key'[q]].published < serial'[q]
      <3> SUFFICES ASSUME Has(q)'
                   PROVE  /\ newest'[key'[q]].answered <= serial'[q] /\ cache'[key'[q]] <= serial'[q]
                          /\ ~calls'[q].result.fromCache => newest'[key'[q]].published < serial'[q]
        OBVIOUS
      <3>1. Has(q) /\ newest'[key[q]] = newest[key[q]]
        BY <1>4, <1>5
      <3> QED
        BY <1>1, <2>1, <2>2, <3>1 DEF Own
    <2>6. pc'[q] # "idle" =>
          /\ past'[q].published <= newest'[key'[q]].published
          /\ past'[q].answered <= newest'[key'[q]].answered
        BY <1>1, <1>4, <2>1, <2>3, <2>4 DEF Own
    <2>7. Gets(q)' =>
          /\ past'[q].answered <= serial'[call'[q]]
          /\ cache'[key'[q]] # 0 => serial'[call'[q]] <= cache'[key'[q]]
          /\ ~Shared(q)'.fromCache => past'[q].published < serial'[call'[q]]
      <3> SUFFICES ASSUME Gets(q)'
                   PROVE  /\ past'[q].answered <= serial'[call'[q]]
                          /\ cache'[key'[q]] # 0 => serial'[call'[q]] <= cache'[key'[q]]
                          /\ ~Shared(q)'.fromCache => past'[q].published < serial'[call'[q]]
        OBVIOUS
      <3>1. CASE Gets(q) /\ Shared(q)' = Shared(q)
        BY <1>1, <2>1, <3>1 DEF Own
      <3>2. CASE call[q] = r /\ Has(r) /\ Shared(q)' = calls[r].result /\ key[q] = k /\ pc[q] # "idle"
        <4>1. /\ past[q].published <= newest[k].published /\ past[q].answered <= newest[k].answered
              /\ past[q].published \in Nat /\ past[q].answered \in Nat /\ serial[r] \in Nat
            BY <2>1, <3>2 DEF Own, TypeOK
        <4>2. serial[r] <= serial[r]
            BY <4>1
        <4> QED
            BY <1>1, <1>3, <2>3, <3>2, <4>1, <4>2
      <3> QED
        BY <1>6, <3>1, <3>2
    <2>8. /\ pc'[q] = "read" => ~force'[q]
          /\ calls'[q].result.stored => ~calls'[q].result.fromCache
          /\ pc'[q] \in {"parse", "parsing", "store"} /\ ~force'[q] => cache'[key'[q]] = 0
          /\ pc'[q] = "publish" /\ Has(q)' => cache'[key'[q]] \in {0, serial'[q]}
        BY <1>1, <1>5, <2>1, <2>2, <2>4 DEF Own
    <2>9. pc'[q] \in {"send", "done"} /\ answer'[q].err = "nil" =>
          /\ past'[q].answered <= answer'[q].serial
          /\ force'[q] => past'[q].published < answer'[q].serial
        BY <1>1, <2>1, <2>4 DEF Own
    <2> QED
        BY <2>5, <2>6, <2>7, <2>8, <2>9 DEF Own
<1>8. Serials'
    BY <1>1, <1>4 DEF Order, Serials
<1>9. \A l \in Key : cache'[l] # 0 => newest'[l].answered <= cache'[l]
    BY <1>1, <1>4 DEF Order, Ahead
<1>10. ASSUME NEW p \in Request, NEW q \in Request, Has(p)', Gets(q)', key'[q] = key'[p]
       PROVE  serial'[call'[q]] <= serial'[p]
    <2>1. Has(p) /\ key[p] # k /\ key[q] = key[p]
        BY <1>1, <1>5, <1>10
    <2>2. Gets(q)
        BY <1>6, <1>10, <2>1
    <2> QED
        BY <1>1, <2>1, <2>2 DEF Order, Ahead
<1> QED
    BY <1>7, <1>8, <1>9, <1>10 DEF Order, Ahead

LEMMA OrderExpire ==
  ASSUME IInv, IInv', Order, NEW k \in Key, Expire(k)
  PROVE  Order'
<1> USE DEF IInv
<1>1. /\ UNCHANGED <<pc, key, force, past, call, calls, serial, parses, answer, newest>>
      /\ \A l \in Key : cache'[l] \in {0, cache[l]}
    BY DEF Expire, asked, flight, bodies, ends, TypeOK
<1>2. \A q \in Request : (Has(q)' <=> Has(q)) /\ (Gets(q)' <=> Gets(q)) /\ Shared(q)' = Shared(q)
    BY <1>1 DEF Has, Gets, Returned, Shared
<1>3. ASSUME NEW q \in Request PROVE Own(q)'
    <2>1. Own(q) /\ (pc[q] # "idle" => cache'[key[q]] \in {0, cache[key[q]]})
        BY <1>1 DEF Order, Calls
    <2>2. Has(q) => cache'[key[q]] <= serial[q]
      <3>1. Has(q) => serial[q] \in Nat /\ pc[q] # "idle" /\ cache[key[q]] <= serial[q]
        BY <2>1, HasFacts DEF Has, Own
      <3> QED
        BY <2>1, <3>1
    <2>3. Gets(q) => (cache'[key[q]] # 0 => serial[call[q]] <= cache'[key[q]])
        BY <2>1, GetsFacts DEF Own
    <2>4. pc[q] \in {"parse", "parsing", "store"} /\ ~force[q] => cache'[key[q]] = 0
        BY <2>1 DEF Own
    <2>5. pc[q] = "publish" /\ Has(q) => cache'[key[q]] \in {0, serial[q]}
        BY <2>1 DEF Own
    <2> QED
        BY <1>1, <1>2, <2>1, <2>2, <2>3, <2>4, <2>5 DEF Own
<1>4. Serials'
    BY <1>1 DEF Order, Serials, TypeOK
<1>5. Ahead'
    BY <1>1, <1>2 DEF Order, Ahead
<1> QED
    BY <1>3, <1>4, <1>5 DEF Order

-----------------------------------------------------------------------------
LEMMA OrderInit == Init => Order
<1> SUFFICES ASSUME Init PROVE Order
    OBVIOUS
<1>1. \A k \in Key : newest[k].published = 0 /\ newest[k].answered = 0 /\ cache[k] = 0
    BY DEF Init, Nothing
<1>2. \A r \in Request : pc[r] = "idle" /\ ~calls[r].result.stored /\ ~Has(r) /\ ~Gets(r) /\ serial[r] = 0
    BY DEF Init, FreshCall, Error, Has, Gets, Returned
<1>3. parses = 0
    BY DEF Init
<1>4. Serials
    BY <1>1, <1>2, <1>3 DEF Serials
<1>5. Ahead
    BY <1>1, <1>2 DEF Ahead
<1>6. \A r \in Request : Own(r)
    BY <1>2 DEF Own
<1> QED
    BY <1>4, <1>5, <1>6 DEF Order

LEMMA OrderNext == IInv /\ IInv' /\ Order /\ [Next]_vars => Order'
<1> SUFFICES ASSUME IInv, IInv', Order, [Next]_vars PROVE Order'
    OBVIOUS
<1>1. CASE vars' = vars
    <2>1. UNCHANGED <<pc, key, force, past, call, calls, serial, cache, parses, answer, newest>>
        BY <1>1 DEF vars
    <2>2. \A q \in Request : (Has(q)' <=> Has(q)) /\ (Gets(q)' <=> Gets(q)) /\ Shared(q)' = Shared(q)
        BY <2>1 DEF Has, Gets, Returned, Shared
    <2>3. ASSUME NEW q \in Request PROVE Own(q)'
        BY <2>1, <2>2 DEF Order, Own
    <2> QED
        BY <2>1, <2>2, <2>3 DEF Order, Serials, Ahead
<1>2. ASSUME NEW r \in Request, Step(r) \/ Cancel(r) \/ \E k \in Key, f \in BOOLEAN : Arrive(r, k, f)
      PROVE  Order'
    <2>1. Alone(r)
        BY <1>2, OneMoves DEF IInv
    <2>2. CASE Publish(r)
        BY <2>1, <2>2, OrderPublish
    <2>3. CASE ~Publish(r)
      <3>1. CallsFrame(r)
        BY <1>2, <2>3, CallsFrameOf DEF IInv
      <3> QED
        BY <1>2, <2>1, <2>3, <3>1, OrderLookup, OrderJoin, OrderFn, OrderFinish DEF Step
    <2> QED
        BY <2>2, <2>3
<1> QED
    BY <1>1, <1>2, OrderExpire DEF Next

LEMMA OrderInv == Spec => [](IInv /\ Order)
<1> QED
    BY FlightInit, FlightNext, OrderInit, OrderNext, PTL DEF Spec

\* A forced request is never answered with a conversion somebody already had when it arrived
\* (the loop of convertWithCacheContext that tries again after a reread of the cache).
THEOREM RefreshesAreNew == Spec => []RefreshIsNew
<1>1. IInv /\ Order => RefreshIsNew
    BY DEF IInv, TypeOK, Order, Own, RefreshIsNew
<1> QED
    BY <1>1, OrderInv, PTL

\* For one key answers never go back to an older conversion than one already answered with.
THEOREM AnswersGoForward == Spec => []AnswersMonotone
<1>1. IInv /\ Order => AnswersMonotone
    BY DEF IInv, TypeOK, Order, Own, AnswersMonotone
<1> QED
    BY <1>1, OrderInv, PTL

-----------------------------------------------------------------------------
(* ReplaceStream.                                                            *)

\* The least element of a set of numbers, without an operator as parameter.
LEMMA Least ==
  ASSUME NEW T \in SUBSET Nat, T # {}
  PROVE  \E n \in T : \A m \in T : ~(m < n)
<1>1. IsWellFoundedOn(OpToRel(<, Nat), Nat)
    BY NatLessThanWellFounded
<1>2. PICK n \in T : \A m \in T : ~(<<m, n>> \in OpToRel(<, Nat))
    BY <1>1, WFMin
<1> QED
    BY <1>2 DEF OpToRel

\* The middle one of three sequences goes with either neighbour.
Regroups(S, x, y, z) == x \o y \in Seq(S) /\ (x \o y) \o z = x \o (y \o z)

LEMMA Regrouped ==
  ASSUME NEW S, NEW x \in Seq(S), NEW y \in Seq(S), NEW z \in Seq(S)
  PROVE  Regroups(S, x, y, z)
<1>1. x \o y \in Seq(S)
    BY ConcatProperties
<1>2. (x \o y) \o z = x \o (y \o z)
    BY ConcatAssociative
<1> QED
    BY <1>1, <1>2 DEF Regroups

\* What is written: symbols of the text and of the base.
Writable == Symbols \cup {Base[i] : i \in DOMAIN Base}

LEMMA PatternFacts ==
  ASSUME Addresses!PatternsFit
  PROVE  /\ Long \in Seq(Symbols) /\ Short \in Seq(Symbols) /\ Base \in Seq(Writable) /\ MaxText \in Nat
         /\ Len(Long) \in Nat \ {0} /\ Len(Short) \in Nat \ {0} /\ Len(Short) <= Len(Long)
<1>1. Base \in Seq(Writable)
    BY SeqMonotonic DEF Addresses!PatternsFit, Writable
<1>2. Long \in Seq(Symbols) /\ Short \in Seq(Symbols)
    BY DEF Addresses!PatternsFit
<1>3. Len(Long) \in Nat /\ Len(Short) \in Nat
    BY <1>2, LenProperties
<1> QED
    BY <1>1, <1>2, <1>3 DEF Addresses!PatternsFit

\* What becomes of the rest that begins at i, given what becomes of the later ones.
Onward(s, from, i) ==
    IF i > Len(s) THEN <<>>
    ELSE IF i \in Addresses!Places(Long, s) THEN Base \o from[i + Len(Long)]
    ELSE IF i \in Addresses!Places(Short, s) THEN Base \o from[i + Len(Short)]
    ELSE <<s[i]>> \o from[i + 1]

\* Onward looks at later rests only.
LEMMA OnwardFacts ==
  ASSUME Addresses!PatternsFit, NEW s \in Seq(Symbols), NEW i \in 1..Len(s) + 1, NEW g, NEW h,
         \A j \in i + 1..Len(s) + 1 : g[j] \in Seq(Writable) /\ g[j] = h[j]
  PROVE  Onward(s, g, i) \in Seq(Writable) /\ Onward(s, g, i) = Onward(s, h, i)
<1>1. Len(s) \in Nat /\ i \in Nat
    BY LenProperties
<1>2. CASE i > Len(s)
    BY <1>2, EmptySeq DEF Onward
<1>3. CASE i <= Len(s) /\ i \in Addresses!Places(Long, s)
    <2>1. i + Len(Long) \in i + 1..Len(s) + 1
        BY <1>1, <1>3, PatternFacts DEF Addresses!Places
    <2> QED
        BY <1>1, <1>3, <2>1, PatternFacts, ConcatProperties DEF Onward
<1>4. CASE i <= Len(s) /\ i \notin Addresses!Places(Long, s) /\ i \in Addresses!Places(Short, s)
    <2>1. i + Len(Short) \in i + 1..Len(s) + 1
        BY <1>1, <1>4, PatternFacts DEF Addresses!Places
    <2> QED
        BY <1>1, <1>4, <2>1, PatternFacts, ConcatProperties DEF Onward
<1>5. CASE i <= Len(s) /\ i \notin Addresses!Places(Long, s) /\ i \notin Addresses!Places(Short, s)
    <2>1. i + 1 \in i + 1..Len(s) + 1
        BY <1>1, <1>5
    <2>2. <<s[i]>> \in Seq(Writable)
        <3>1. s[i] \in Writable
            BY <1>1, <1>5, ElementOfSeq DEF Writable
        <3> QED
            BY <3>1
    <2> QED
        BY <1>1, <1>5, <2>1, <2>2, ConcatProperties DEF Onward
<1> QED
    BY <1>1, <1>2, <1>3, <1>4, <1>5

\* The rests of a text exist, from the last one back.
LEMMA RestsExist ==
  ASSUME Addresses!PatternsFit, NEW s \in Seq(Symbols)
  PROVE  \E g \in [1..Len(s) + 1 -> Seq(Writable)] : g = [i \in 1..Len(s) + 1 |-> Onward(s, g, i)]
<1> DEFINE n       == Len(s)
           Row(k, g) == g = [i \in n + 1 - k..n + 1 |-> Onward(s, g, i)]
           Missing == {k \in 0..n : ~\E g \in [n + 1 - k..n + 1 -> Seq(Writable)] : Row(k, g)}
<1>1. n \in Nat
    BY LenProperties
<1> HIDE DEF n
<1>2. ASSUME Missing # {} PROVE FALSE
    <2>1. PICK k \in Missing : \A m \in Missing : ~(m < k)
        <3>1. Missing \in SUBSET Nat
            BY <1>1
        <3> HIDE DEF Missing
        <3> QED
            BY <1>2, <3>1, Least
    <2>2. k # 0
        <3> DEFINE g == [i \in n + 1..n + 1 |-> <<>>]
        <3>1. \A i \in n + 1..n + 1 : Onward(s, g, i) = <<>>
            BY <1>1 DEF Onward, n
        <3>2. g \in [n + 1..n + 1 -> Seq(Writable)] /\ g = [i \in n + 1..n + 1 |-> Onward(s, g, i)]
            BY <3>1, EmptySeq
        <3>3. n + 1 - 0 = n + 1
            BY <1>1
        <3> HIDE DEF g
        <3>4. Row(0, g) /\ g \in [n + 1 - 0..n + 1 -> Seq(Writable)]
            BY <3>2, <3>3
        <3> QED
            BY <2>1, <3>4
    <2> DEFINE b == n + 1 - k
    <2>3. k \in 1..n /\ k - 1 \in 0..n /\ k - 1 < k /\ n + 1 - (k - 1) = b + 1 /\ b \in 1..n
        BY <1>1, <2>1, <2>2
    <2>4. PICK g \in [b + 1..n + 1 -> Seq(Writable)] : g = [i \in b + 1..n + 1 |-> Onward(s, g, i)]
        BY <2>1, <2>3
    <2> HIDE DEF b
    <2> DEFINE h == [i \in b..n + 1 |-> IF i = b THEN Onward(s, g, i) ELSE g[i]]
    <2>5. ASSUME NEW i \in b..n + 1 PROVE Onward(s, g, i) \in Seq(Writable) /\ Onward(s, g, i) = Onward(s, h, i)
        <3>1. i \in 1..Len(s) + 1 /\ \A j \in i + 1..Len(s) + 1 : j \in b + 1..n + 1
            BY <1>1, <2>3 DEF n
        <3>2. \A j \in i + 1..Len(s) + 1 : g[j] \in Seq(Writable) /\ g[j] = h[j]
            BY <1>1, <2>3, <2>4, <3>1
        <3> HIDE DEF h
        <3> QED
            BY <3>1, <3>2, OnwardFacts
    <2>6. ASSUME NEW i \in b..n + 1 PROVE h[i] = Onward(s, g, i)
        <3>1. i = b \/ i \in b + 1..n + 1
            BY <1>1, <2>3
        <3>2. CASE i # b
            BY <2>4, <3>1, <3>2
        <3> QED
            BY <3>2
    <2>7. h \in [b..n + 1 -> Seq(Writable)] /\ h = [i \in b..n + 1 |-> Onward(s, h, i)]
        BY <2>5, <2>6
    <2> HIDE DEF h
    <2> QED
        BY <2>1, <2>7 DEF b
<1>3. \E g \in [n + 1 - n..n + 1 -> Seq(Writable)] : Row(n, g)
    <2>1. n \in 0..n
        BY <1>1
    <2>2. n \notin Missing
        <3> HIDE DEF Missing
        <3> QED
            BY <1>2
    <2> QED
        BY <2>1, <2>2
<1>4. n + 1 - n = 1
    BY <1>1
<1> QED
    BY <1>3, <1>4 DEF n

LEMMA RestFacts ==
  ASSUME Addresses!PatternsFit, NEW s \in Seq(Symbols)
  PROVE  \A i \in 1..Len(s) + 1 : /\ Addresses!Rest(s)[i] = Onward(s, Addresses!Rest(s), i)
                                  /\ Addresses!Rest(s)[i] \in Seq(Writable)
<1> DEFINE Row(g) == g = [i \in 1..Len(s) + 1 |-> Onward(s, g, i)]
           from   == CHOOSE g : Row(g)
<1>1. \E g : Row(g)
    BY RestsExist
<1>2. Row(from)
    BY <1>1
<1>3. Addresses!Rest(s) = from
    BY DEF Addresses!Rest, Onward
<1> HIDE DEF from
<1>4. \A i \in 1..Len(s) + 1 : from[i] = Onward(s, from, i)
    BY <1>2
<1> DEFINE Bad == {k \in Nat : k <= Len(s) /\ from[Len(s) + 1 - k] \notin Seq(Writable)}
<1>5. ASSUME Bad # {} PROVE FALSE
    <2>1. PICK k \in Bad : \A m \in Bad : ~(m < k)
        BY <1>5, Least
    <2> DEFINE i == Len(s) + 1 - k
    <2>2. i \in 1..Len(s) + 1 /\ from[i] \notin Seq(Writable)
        BY <2>1, LenProperties
    <2>3. ASSUME NEW j \in i + 1..Len(s) + 1 PROVE from[j] \in Seq(Writable)
        <3>1. /\ Len(s) + 1 - j \in Nat /\ Len(s) + 1 - j < k /\ Len(s) + 1 - j <= Len(s)
              /\ Len(s) + 1 - (Len(s) + 1 - j) = j
            BY <2>1, LenProperties
        <3> QED
            BY <2>1, <3>1
    <2> HIDE DEF i
    <2>4. Onward(s, from, i) \in Seq(Writable)
        BY <2>2, <2>3, OnwardFacts
    <2> QED
        BY <1>4, <2>2, <2>4
<1>6. ASSUME NEW i \in 1..Len(s) + 1 PROVE from[i] \in Seq(Writable)
    <2>1. Len(s) + 1 - i \in Nat /\ Len(s) + 1 - i <= Len(s) /\ Len(s) + 1 - (Len(s) + 1 - i) = i
        BY LenProperties
    <2> QED
        BY <1>5, <2>1
<1> QED
    BY <1>3, <1>4, <1>6

\* Where no pattern begins, the text is copied.
LEMMA CopyFacts ==
  ASSUME Addresses!PatternsFit, NEW s \in Seq(Symbols), NEW a \in 1..Len(s) + 1, NEW b \in a - 1..Len(s),
         \A i \in a..b : i \notin Addresses!Found(s)
  PROVE  Addresses!Rest(s)[a] = SubSeq(s, a, b) \o Addresses!Rest(s)[b + 1]
<1> DEFINE from == Addresses!Rest(s)
           Bad  == {k \in Nat : a + k - 1 <= b /\ from[a] # SubSeq(s, a, a + k - 1) \o from[a + k]}
<1>1. Len(s) \in Nat /\ a \in Nat /\ b \in Int
    BY LenProperties
<1>2. \A i \in 1..Len(s) + 1 : from[i] = Onward(s, from, i) /\ from[i] \in Seq(Writable)
    BY RestFacts
<1>3. s \in Seq(Writable)
    BY SeqMonotonic DEF Writable
<1> HIDE DEF from
<1>4. ASSUME Bad # {} PROVE FALSE
    <2>1. PICK k \in Bad : \A m \in Bad : ~(m < k)
        <3>1. Bad \in SUBSET Nat
            OBVIOUS
        <3> HIDE DEF Bad
        <3> QED
            BY <1>4, <3>1, Least
    <2>2. k # 0
        <3>1. SubSeq(s, a, a - 1) = <<>>
            BY <1>1, SubSeqEmpty
        <3>2. from[a] = <<>> \o from[a]
            BY <1>1, <1>2, ConcatEmptySeq
        <3>3. a + 0 - 1 = a - 1 /\ a + 0 = a
            BY <1>1
        <3> QED
            BY <2>1, <3>1, <3>2, <3>3
    <2> DEFINE i == a + k - 1
    <2>3. i \in a..b /\ i \in 1..Len(s) /\ a \in 1..Len(s) /\ i \in a..Len(s) /\ i + 1 \in 1..Len(s) + 1
        BY <1>1, <2>1, <2>2
    <2>4. /\ k - 1 \in Nat /\ k - 1 < k /\ a + (k - 1) - 1 <= b /\ a + (k - 1) - 1 = i - 1 /\ a + (k - 1) = i
          /\ a + k = i + 1
        BY <1>1, <2>1, <2>2
    <2> HIDE DEF i
    <2>5. from[a] = SubSeq(s, a, i - 1) \o from[i]
        BY <2>1, <2>4
    <2>6. from[i] = <<s[i]>> \o from[i + 1]
        <3>1. i \notin Addresses!Places(Long, s) /\ i \notin Addresses!Places(Short, s)
            BY <2>3 DEF Addresses!Found
        <3>2. from[i] = Onward(s, from, i) /\ ~(i > Len(s))
            BY <1>1, <1>2, <2>3
        <3> QED
            BY <3>1, <3>2 DEF Onward
    <2>7. SubSeq(s, a, i) = SubSeq(s, a, i - 1) \o <<s[i]>>
        BY <2>3, SubSeqRecursiveSecond
    <2>8. SubSeq(s, a, i - 1) \in Seq(Writable) /\ <<s[i]>> \in Seq(Writable) /\ from[i + 1] \in Seq(Writable)
        <3>1. \A j \in a..i - 1 : s[j] \in Writable
            BY <1>1, <1>3, <2>3, ElementOfSeq
        <3>2. s[i] \in Writable
            BY <1>3, <2>3, ElementOfSeq
        <3> QED
            BY <1>1, <1>2, <2>3, <3>1, <3>2, SubSeqProperties
    <2>9. from[a] = SubSeq(s, a, i) \o from[i + 1]
        <3> DEFINE x == SubSeq(s, a, i - 1)
                   y == <<s[i]>>
                   z == from[i + 1]
        <3>1. x \in Seq(Writable) /\ y \in Seq(Writable) /\ z \in Seq(Writable)
            BY <2>8
        <3>2. from[a] = x \o (y \o z) /\ SubSeq(s, a, i) = x \o y
            BY <2>5, <2>6, <2>7
        <3> HIDE DEF x, y, z
        <3>3. Regroups(Writable, x, y, z)
            BY <3>1, Regrouped
        <3> QED
            BY <3>2, <3>3 DEF Regroups, z
    <2> QED
        BY <2>1, <2>4, <2>9 DEF i
<1>5. b + 1 - a \in Nat /\ a + (b + 1 - a) - 1 <= b /\ a + (b + 1 - a) - 1 = b /\ a + (b + 1 - a) = b + 1
    BY <1>1
<1>6. b + 1 - a \notin Bad
    <2> HIDE DEF Bad
    <2> QED
        BY <1>4
<1>7. from[a] = SubSeq(s, a, a + (b + 1 - a) - 1) \o from[a + (b + 1 - a)]
    BY <1>5, <1>6
<1> QED
    BY <1>5, <1>7 DEF from

\* A pattern in a part of the text is one of the text.
LEMMA PlacesIn ==
  ASSUME NEW s \in Seq(Symbols), NEW p \in Seq(Symbols), Len(p) > 0, NEW o \in Nat, NEW r \in Nat, o <= r, r <= Len(s),
         NEW i \in 1..r - o
  PROVE  i \in Addresses!Places(p, SubSeq(s, o + 1, r)) <=> i + Len(p) - 1 <= r - o /\ o + i \in Addresses!Places(p, s)
<1> DEFINE t == SubSeq(s, o + 1, r)
<1>1. Len(s) \in Nat /\ Len(p) \in Nat
    BY LenProperties
<1>2. Len(t) = r - o
    <2>1. \A j \in o + 1..r : s[j] \in Symbols
        BY <1>1, ElementOfSeq
    <2> QED
        BY <1>1, <2>1, SubSeqProperties
<1>3. ASSUME i + Len(p) - 1 <= r - o
      PROVE  SubSeq(t, i, i + Len(p) - 1) = SubSeq(s, o + i, o + i + Len(p) - 1)
    <2>1. o + 1 \in 1..Len(s) /\ r \in 1..Len(s) /\ i \in 1..r - (o + 1) + 1 /\ i + Len(p) - 1 \in 1..r - (o + 1) + 1
        BY <1>1, <1>3
    <2>2. SubSeq(t, i, i + Len(p) - 1) = SubSeq(s, o + 1 + i - 1, o + 1 + (i + Len(p) - 1) - 1)
        BY <2>1, SubSeqOfSubSeq
    <2>3. o + 1 + i - 1 = o + i /\ o + 1 + (i + Len(p) - 1) - 1 = o + i + Len(p) - 1
        BY <1>1
    <2> QED
        BY <2>2, <2>3
<1>4. o + i \in 1..Len(s) /\ (i + Len(p) - 1 <= r - o => o + i + Len(p) - 1 <= Len(s))
    BY <1>1
<1> HIDE DEF t
<1>5. i \in Addresses!Places(p, t) <=> i + Len(p) - 1 <= r - o /\ SubSeq(t, i, i + Len(p) - 1) = p
    BY <1>2 DEF Addresses!Places
<1>6. o + i \in Addresses!Places(p, s) <=> o + i + Len(p) - 1 <= Len(s) /\ SubSeq(s, o + i, o + i + Len(p) - 1) = p
    BY <1>4 DEF Addresses!Places
<1> QED
    BY <1>3, <1>4, <1>5, <1>6 DEF t

LEMMA PartFacts ==
  ASSUME NEW s \in Seq(Symbols), NEW o \in Nat, NEW r \in Nat, o <= r, r <= Len(s)
  PROVE  /\ SubSeq(s, o + 1, r) \in Seq(Symbols) /\ Len(SubSeq(s, o + 1, r)) = r - o
         /\ \A k \in 0..r - o : /\ SubSeq(SubSeq(s, o + 1, r), 1, k) = SubSeq(s, o + 1, o + k)
                                /\ SubSeq(SubSeq(s, o + 1, r), k + 1, r - o) = SubSeq(s, o + k + 1, r)
<1> DEFINE t == SubSeq(s, o + 1, r)
<1>1. Len(s) \in Nat
    BY LenProperties
<1>2. t \in Seq(Symbols) /\ Len(t) = r - o
    <2>1. \A j \in o + 1..r : s[j] \in Symbols
        BY <1>1, ElementOfSeq
    <2> QED
        BY <1>1, <2>1, SubSeqProperties
<1>3. ASSUME NEW k \in 0..r - o PROVE SubSeq(t, 1, k) = SubSeq(s, o + 1, o + k)
    <2>1. CASE k = 0
        <3>1. SubSeq(t, 1, k) = <<>> /\ SubSeq(s, o + 1, o + k) = <<>>
            BY <2>1, SubSeqEmpty
        <3> QED
            BY <3>1
    <2>2. CASE k # 0
        <3>1. o + 1 \in 1..Len(s) /\ r \in 1..Len(s) /\ 1 \in 1..r - (o + 1) + 1 /\ k \in 1..r - (o + 1) + 1
            BY <1>1, <2>2
        <3>2. SubSeq(t, 1, k) = SubSeq(s, o + 1 + 1 - 1, o + 1 + k - 1)
            BY <3>1, SubSeqOfSubSeq
        <3>3. o + 1 + 1 - 1 = o + 1 /\ o + 1 + k - 1 = o + k
            OBVIOUS
        <3> QED
            BY <3>2, <3>3
    <2> QED
        BY <2>1, <2>2
<1>4. ASSUME NEW k \in 0..r - o PROVE SubSeq(t, k + 1, r - o) = SubSeq(s, o + k + 1, r)
    <2>1. CASE k = r - o
        <3>1. SubSeq(t, k + 1, r - o) = <<>> /\ SubSeq(s, o + k + 1, r) = <<>>
            BY <2>1, SubSeqEmpty
        <3> QED
            BY <3>1
    <2>2. CASE k # r - o
        <3>1. o + 1 \in 1..Len(s) /\ r \in 1..Len(s) /\ k + 1 \in 1..r - (o + 1) + 1 /\ r - o \in 1..r - (o + 1) + 1
            BY <1>1, <2>2
        <3>2. SubSeq(t, k + 1, r - o) = SubSeq(s, o + 1 + (k + 1) - 1, o + 1 + (r - o) - 1)
            BY <3>1, SubSeqOfSubSeq
        <3>3. o + 1 + (k + 1) - 1 = o + k + 1 /\ o + 1 + (r - o) - 1 = r
            OBVIOUS
        <3> QED
            BY <3>2, <3>3
    <2> QED
        BY <2>1, <2>2
<1> QED
    BY <1>2, <1>3, <1>4

\* pending is what has been read and not written, and what has been written is followed, in
\* the text with the addresses replaced, by what becomes of the rest.
Held(o) ==
    /\ pending = SubSeq(text, o + 1, read)
    /\ Addresses!Rest(text)[1] = written \o Addresses!Rest(text)[o + 1]

Streamed ==
    /\ text \in Seq(Symbols) /\ read \in 0..Len(text) /\ final \in BOOLEAN
    /\ final => read = Len(text)
    /\ written \in Seq(Writable)
    /\ \E o \in 0..read : Held(o)
    /\ phase = "done" => final /\ pending = <<>>

LEMMA StreamedInit == Addresses!PatternsFit /\ Addresses!Init => Streamed
<1> SUFFICES ASSUME Addresses!PatternsFit, Addresses!Init PROVE Streamed
    OBVIOUS
<1>1. text \in Seq(Symbols) /\ Len(text) \in Nat
    <2>1. PICK n \in 0..MaxText : text \in [1..n -> Symbols]
        BY DEF Addresses!Init
    <2>2. n \in Nat
        BY PatternFacts
    <2>3. text \in Seq(Symbols)
        BY <2>1, <2>2
    <2> QED
        BY <2>3, LenProperties
<1>2. read = 0 /\ pending = <<>> /\ final = FALSE /\ written = <<>> /\ phase = "read"
    BY DEF Addresses!Init
<1>3. Held(0)
    <2>1. SubSeq(text, 1, 0) = <<>>
        BY SubSeqEmpty
    <2>2. Addresses!Rest(text)[1] \in Seq(Writable)
        BY <1>1, RestFacts
    <2>3. Addresses!Rest(text)[1] = <<>> \o Addresses!Rest(text)[1]
        BY <2>2, ConcatEmptySeq
    <2> QED
        BY <1>2, <2>1, <2>3 DEF Held
<1>4. \E o \in 0..read : Held(o)
    BY <1>2, <1>3
<1>5. read \in 0..Len(text) /\ final \in BOOLEAN /\ ~final /\ written \in Seq(Writable)
    <2>1. written \in Seq(Writable)
        BY <1>2, EmptySeq
    <2>2. 0 \in 0..Len(text)
        BY <1>1
    <2> QED
        BY <1>2, <2>1, <2>2, Zenon
<1> QED
    BY <1>1, <1>2, <1>4, <1>5 DEF Streamed

LEMMA ReadKeepsStreamed ==
  ASSUME Addresses!PatternsFit, Streamed, Addresses!Read
  PROVE  Streamed'
<1>1. PICK o \in 0..read : Held(o)
    BY DEF Streamed
<1>2. PICK n \in read..Len(text) : /\ read' = n /\ pending' = pending \o SubSeq(text, read + 1, n)
                                   /\ final' \in (IF n = Len(text) THEN BOOLEAN ELSE {FALSE})
    BY DEF Addresses!Read
<1>3. UNCHANGED <<text, written>> /\ phase' = "drain"
    BY DEF Addresses!Read
<1>4. text \in Seq(Symbols) /\ Len(text) \in Nat /\ read \in 0..Len(text)
    BY LenProperties DEF Streamed
<1>5. pending' = SubSeq(text, o + 1, n)
    <2>1. o + 1 \in 1..Len(text) + 1 /\ read \in o + 1 - 1..Len(text) /\ n \in read..Len(text)
        BY <1>4
    <2>2. SubSeq(text, o + 1, read) \o SubSeq(text, read + 1, n) = SubSeq(text, o + 1, n)
        BY <1>4, <2>1, ConcatAdjacentSubSeq
    <2> QED
        BY <1>1, <1>2, <2>2 DEF Held
<1>6. Held(o)'
    BY <1>1, <1>2, <1>3, <1>5 DEF Held
<1>7. o \in 0..read' /\ read' \in 0..Len(text)
    BY <1>2, <1>4
<1> QED
    BY <1>2, <1>3, <1>4, <1>6, <1>7 DEF Streamed

\* The leftmost pattern of a text that has one.
LEMMA FirstFacts ==
  ASSUME NEW s \in Seq(Symbols), Addresses!Found(s) # {}
  PROVE  /\ Addresses!First(s) \in Addresses!Found(s) /\ Addresses!First(s) \in 1..Len(s)
         /\ \A j \in Addresses!Found(s) : Addresses!First(s) <= j
<1>1. Addresses!Found(s) \subseteq 1..Len(s) /\ Len(s) \in Nat
    BY LenProperties DEF Addresses!Found, Addresses!Places
<1>2. \E n \in Addresses!Found(s) : \A m \in Addresses!Found(s) : ~(m < n)
    <2>1. Addresses!Found(s) \in SUBSET Nat
        BY <1>1
    <2> QED
        BY <2>1, Least
<1>3. \E n \in Addresses!Found(s) : \A m \in Addresses!Found(s) : n <= m
    BY <1>1, <1>2
<1>4. Addresses!First(s) \in Addresses!Found(s) /\ \A j \in Addresses!Found(s) : Addresses!First(s) <= j
    BY <1>3 DEF Addresses!First
<1> QED
    BY <1>1, <1>4

\* A pattern that begins in what may be written is seen, if it is one of the text.
LEMMA SeenFacts ==
  ASSUME Addresses!PatternsFit, Streamed, NEW o \in 0..read, Held(o)
  PROVE  /\ pending \in Seq(Symbols) /\ Len(pending) = read - o /\ read \in Nat /\ read <= Len(text)
         /\ Addresses!Keep \in Nat /\ (final => Addresses!Keep = 0)
         /\ \A i \in 1..Len(pending) : i <= Addresses!Safe =>
               /\ i \in Addresses!Places(Long, pending) <=> o + i \in Addresses!Places(Long, text)
               /\ i \in Addresses!Places(Short, pending) <=> o + i \in Addresses!Places(Short, text)
<1>1. text \in Seq(Symbols) /\ Len(text) \in Nat /\ read \in Nat /\ read <= Len(text) /\ o \in Nat /\ o <= read
    BY LenProperties DEF Streamed
<1>2. pending = SubSeq(text, o + 1, read)
    BY DEF Held
<1>3. pending \in Seq(Symbols) /\ Len(pending) = read - o
    BY <1>1, <1>2, PartFacts
<1>4. Addresses!Keep \in Nat /\ (final => Addresses!Keep = 0) /\ (~final => Addresses!Keep = Len(Long) - 1)
    BY PatternFacts DEF Addresses!Keep
<1>5. final => read = Len(text)
    BY DEF Streamed
<1>6. ASSUME NEW i \in 1..Len(pending), i <= Addresses!Safe, NEW p \in {Long, Short}
      PROVE  i \in Addresses!Places(p, pending) <=> o + i \in Addresses!Places(p, text)
    <2>1. p \in Seq(Symbols) /\ Len(p) \in Nat /\ Len(p) > 0 /\ Len(p) <= Len(Long) /\ Len(Long) \in Nat
        BY PatternFacts
    <2>2. i \in 1..read - o
        BY <1>3
    <2>3. i \in Addresses!Places(p, pending) <=> i + Len(p) - 1 <= read - o /\ o + i \in Addresses!Places(p, text)
        BY <1>1, <1>2, <2>1, <2>2, PlacesIn
    <2>4. o + i \in Addresses!Places(p, text) => o + i + Len(p) - 1 <= Len(text)
        BY DEF Addresses!Places
    <2>5. o + i \in Addresses!Places(p, text) => i + Len(p) - 1 <= read - o
        <3>1. CASE final
            BY <1>1, <1>5, <2>1, <2>2, <2>4, <3>1
        <3>2. CASE ~final
            <4>1. i <= read - o - (Len(Long) - 1)
                BY <1>3, <1>4, <1>6, <3>2 DEF Addresses!Safe
            <4> QED
                BY <1>1, <2>1, <2>2, <4>1
        <3> QED
            BY <3>1, <3>2
    <2> QED
        BY <2>3, <2>5
<1> QED
    BY <1>1, <1>3, <1>4, <1>6

LEMMA CopyKeepsStreamed ==
  ASSUME Addresses!PatternsFit, Streamed, Addresses!Copy
  PROVE  Streamed'
<1>1. PICK o \in 0..read : Held(o)
    BY DEF Streamed
<1> DEFINE k == Addresses!Safe
           from == Addresses!Rest(text)
<1>2. /\ Len(pending) > Addresses!Keep /\ ~Addresses!Settled
      /\ written' = written \o SubSeq(pending, 1, k) /\ pending' = SubSeq(pending, k + 1, Len(pending))
      /\ phase' = IF final THEN "done" ELSE "read"
      /\ UNCHANGED <<text, read, final>>
    BY DEF Addresses!Copy
<1>3. /\ pending \in Seq(Symbols) /\ Len(pending) = read - o /\ read \in Nat /\ read <= Len(text)
      /\ Addresses!Keep \in Nat /\ (final => Addresses!Keep = 0)
      /\ \A i \in 1..Len(pending) : i <= Addresses!Safe =>
            /\ i \in Addresses!Places(Long, pending) <=> o + i \in Addresses!Places(Long, text)
            /\ i \in Addresses!Places(Short, pending) <=> o + i \in Addresses!Places(Short, text)
    BY <1>1, SeenFacts
<1>4. text \in Seq(Symbols) /\ Len(text) \in Nat /\ o \in Nat /\ o <= read
    BY <1>1, <1>3, LenProperties DEF Streamed
<1>5. k \in 1..read - o /\ (final => k = read - o)
    BY <1>2, <1>3, <1>4 DEF Addresses!Safe
<1>6. pending = SubSeq(text, o + 1, read) /\ from[1] = written \o from[o + 1]
    BY <1>1 DEF Held
<1>7. ASSUME NEW i \in 1..k PROVE i \notin Addresses!Found(pending)
    <2>1. ASSUME i \in Addresses!Found(pending) PROVE FALSE
        <3>1. Addresses!First(pending) <= i /\ Addresses!First(pending) \in 1..Len(pending)
            BY <1>3, <2>1, FirstFacts
        <3> QED
            BY <1>2, <1>3, <1>5, <2>1, <3>1 DEF Addresses!Settled
    <2> QED
        BY <2>1
<1> HIDE DEF from
<1>8. from[o + 1] = SubSeq(text, o + 1, o + k) \o from[o + k + 1]
    <2>1. ASSUME NEW j \in o + 1..o + k PROVE j \notin Addresses!Found(text)
        <3>1. j - o \in 1..k /\ o + (j - o) = j /\ j - o \in 1..Len(pending) /\ j - o <= Addresses!Safe
            BY <1>3, <1>4, <1>5
        <3>2. j - o \notin Addresses!Places(Long, pending) /\ j - o \notin Addresses!Places(Short, pending)
            BY <1>7, <3>1 DEF Addresses!Found
        <3>3. o + (j - o) \notin Addresses!Places(Long, text) /\ o + (j - o) \notin Addresses!Places(Short, text)
            BY <1>3, <3>1, <3>2
        <3> QED
            BY <3>1, <3>3 DEF Addresses!Found
    <2>2. o + 1 \in 1..Len(text) + 1 /\ o + k \in o + 1 - 1..Len(text)
        BY <1>3, <1>4, <1>5
    <2> HIDE DEF k
    <2>3. Addresses!Rest(text)[o + 1] = SubSeq(text, o + 1, o + k) \o Addresses!Rest(text)[o + k + 1]
        <3>1. PICK a : a = o + 1
            OBVIOUS
        <3>2. PICK b : b = o + k
            OBVIOUS
        <3>3. a \in 1..Len(text) + 1 /\ b \in a - 1..Len(text) /\ \A i \in a..b : i \notin Addresses!Found(text)
            BY <2>1, <2>2, <3>1, <3>2
        <3>4. Addresses!Rest(text)[a] = SubSeq(text, a, b) \o Addresses!Rest(text)[b + 1]
            BY <1>4, <3>3, CopyFacts
        <3> QED
            BY <3>1, <3>2, <3>4
    <2> QED
        BY <2>3 DEF from
<1>9. SubSeq(pending, 1, k) = SubSeq(text, o + 1, o + k) /\ pending' = SubSeq(text, o + k + 1, read)
    <2> HIDE DEF k
    <2> QED
        BY <1>2, <1>3, <1>4, <1>5, <1>6, PartFacts
<1>10. /\ written \in Seq(Writable) /\ SubSeq(text, o + 1, o + k) \in Seq(Writable)
       /\ from[o + k + 1] \in Seq(Writable)
    <2> HIDE DEF k
    <2>1. written \in Seq(Writable)
        BY DEF Streamed
    <2>2. o + k \in Nat /\ o <= o + k /\ o + k <= Len(text)
        BY <1>3, <1>4, <1>5
    <2>3. SubSeq(text, o + 1, o + k) \in Seq(Symbols)
        BY <1>4, <2>2, PartFacts
    <2>4. SubSeq(text, o + 1, o + k) \in Seq(Writable)
        BY <2>3, SeqMonotonic DEF Writable
    <2>5. o + k + 1 \in 1..Len(text) + 1
        BY <1>4, <2>2
    <2> QED
        BY <1>4, <2>1, <2>4, <2>5, RestFacts DEF from
<1>11. written' \in Seq(Writable) /\ from[1] = written' \o from[o + k + 1]
    <2> DEFINE x == written
               y == SubSeq(text, o + 1, o + k)
               z == from[o + k + 1]
    <2>1. x \in Seq(Writable) /\ y \in Seq(Writable) /\ z \in Seq(Writable)
        BY <1>10
    <2>2. from[1] = x \o (y \o z) /\ written' = x \o y
        BY <1>2, <1>6, <1>8, <1>9
    <2> HIDE DEF x, y, z
    <2>3. Regroups(Writable, x, y, z)
        BY <2>1, Regrouped
    <2> QED
        BY <2>2, <2>3 DEF Regroups, z
<1> HIDE DEF k
<1> PICK n : n = o + k
    OBVIOUS
<1>12. n \in 0..read /\ (final => pending' = <<>>)
    <2>1. n \in 0..read /\ (final => n = read)
        BY <1>3, <1>4, <1>5
    <2>2. SubSeq(text, read + 1, read) = <<>>
        BY <1>3, SubSeqEmpty
    <2> QED
        BY <1>9, <2>1, <2>2
<1>13. pending' = SubSeq(text, n + 1, read) /\ from[1] = written' \o from[n + 1]
    BY <1>9, <1>11
<1>14. Held(n)'
    BY <1>2, <1>13 DEF Held, from
<1>15. \E h \in 0..read' : Held(h)'
    BY <1>2, <1>12, <1>14
<1>16. phase' = "done" => final' /\ pending' = <<>>
    BY <1>2, <1>12
<1> QED
    BY <1>2, <1>11, <1>15, <1>16 DEF Streamed

LEMMA ReplaceKeepsStreamed ==
  ASSUME Addresses!PatternsFit, Streamed, Addresses!Replace
  PROVE  Streamed'
<1>1. PICK o \in 0..read : Held(o)
    BY DEF Streamed
<1> DEFINE from == Addresses!Rest(text)
<1>2. /\ Addresses!Settled /\ phase = "drain"
      /\ written' = written \o SubSeq(pending, 1, Addresses!First(pending) - 1) \o Base
      /\ pending' = SubSeq(pending, Addresses!First(pending) + Len(Addresses!Pattern(pending)), Len(pending))
      /\ UNCHANGED <<text, read, final, phase>>
    BY DEF Addresses!Replace
<1>3. PICK i : i = Addresses!First(pending)
    OBVIOUS
<1>4. PICK p : p = Addresses!Pattern(pending)
    OBVIOUS
<1>5. /\ pending \in Seq(Symbols) /\ Len(pending) = read - o /\ read \in Nat /\ read <= Len(text)
      /\ \A j \in 1..Len(pending) : j <= Addresses!Safe =>
            /\ j \in Addresses!Places(Long, pending) <=> o + j \in Addresses!Places(Long, text)
            /\ j \in Addresses!Places(Short, pending) <=> o + j \in Addresses!Places(Short, text)
    BY <1>1, SeenFacts
<1>6. text \in Seq(Symbols) /\ Len(text) \in Nat /\ o \in Nat /\ o <= read /\ Addresses!Safe \in Int
    <2>1. Addresses!Keep \in Nat /\ Len(pending) \in Nat
        BY <1>1, <1>5, SeenFacts, LenProperties
    <2> QED
        BY <1>1, <1>5, <2>1, LenProperties DEF Streamed, Addresses!Safe
<1>7. pending = SubSeq(text, o + 1, read) /\ from[1] = written \o from[o + 1]
    BY <1>1 DEF Held
<1>8. /\ i \in Addresses!Found(pending) /\ i \in 1..read - o /\ i <= Addresses!Safe
      /\ \A j \in Addresses!Found(pending) : i <= j
    BY <1>2, <1>3, <1>5, FirstFacts DEF Addresses!Settled
<1>9. p \in {Long, Short} /\ p \in Seq(Symbols) /\ Len(p) \in Nat \ {0} /\ Base \in Seq(Writable)
    BY <1>4, PatternFacts DEF Addresses!Pattern
<1>10. i \in Addresses!Places(p, pending) /\ i + Len(p) - 1 <= read - o
    <2>1. i \in Addresses!Places(p, pending)
        BY <1>3, <1>4, <1>8 DEF Addresses!Pattern, Addresses!Found
    <2> QED
        BY <1>5, <2>1 DEF Addresses!Places
<1>11. from[o + i] = Base \o from[o + i + Len(p)]
    <2>1. from[o + i] = Onward(text, from, o + i) /\ ~(o + i > Len(text))
        BY <1>5, <1>6, <1>8, RestFacts
    <2>2. /\ o + i \in Addresses!Places(Long, text) => p = Long
          /\ o + i \notin Addresses!Places(Long, text) => p = Short /\ o + i \in Addresses!Places(Short, text)
        BY <1>3, <1>4, <1>5, <1>8 DEF Addresses!Pattern, Addresses!Found
    <2> HIDE DEF from
    <2> QED
        BY <2>1, <2>2 DEF Onward
<1>12. from[o + 1] = SubSeq(text, o + 1, o + i - 1) \o from[o + i]
    <2>1. ASSUME NEW j \in o + 1..o + i - 1 PROVE j \notin Addresses!Found(text)
        <3>1. j - o \in 1..i - 1 /\ o + (j - o) = j /\ j - o \in 1..Len(pending) /\ j - o <= Addresses!Safe
            BY <1>5, <1>6, <1>8
        <3>2. j - o \notin Addresses!Places(Long, pending) /\ j - o \notin Addresses!Places(Short, pending)
            BY <1>8, <3>1 DEF Addresses!Found
        <3>3. o + (j - o) \notin Addresses!Places(Long, text) /\ o + (j - o) \notin Addresses!Places(Short, text)
            BY <1>5, <3>1, <3>2
        <3> QED
            BY <3>1, <3>3 DEF Addresses!Found
    <2>2. PICK a : a = o + 1
        OBVIOUS
    <2>3. PICK b : b = o + i - 1
        OBVIOUS
    <2>4. a \in 1..Len(text) + 1 /\ b \in a - 1..Len(text) /\ b + 1 = o + i
        BY <1>5, <1>6, <1>8, <2>2, <2>3
    <2>5. \A j \in a..b : j \notin Addresses!Found(text)
        BY <2>1, <2>2, <2>3
    <2>6. Addresses!Rest(text)[a] = SubSeq(text, a, b) \o Addresses!Rest(text)[b + 1]
        BY <1>6, <2>4, <2>5, CopyFacts
    <2> QED
        BY <2>2, <2>3, <2>4, <2>6
<1> HIDE DEF from
<1>13. PICK n : n = o + i + Len(p) - 1
    OBVIOUS
<1>14. n \in 0..read /\ n \in o..read /\ n + 1 = o + i + Len(p) /\ n - o \in 0..read - o /\ n - o + 1 = i + Len(p)
       /\ o + (n - o) = n /\ i - 1 \in 0..read - o /\ o + (i - 1) = o + i - 1
    BY <1>5, <1>6, <1>8, <1>9, <1>10, <1>13
<1>15. pending' = SubSeq(text, n + 1, read)
    <2>1. pending' = SubSeq(pending, n - o + 1, read - o)
        BY <1>2, <1>3, <1>4, <1>5, <1>14
    <2>2. \A k \in 0..read - o : SubSeq(SubSeq(text, o + 1, read), k + 1, read - o) = SubSeq(text, o + k + 1, read)
        BY <1>5, <1>6, PartFacts
    <2>3. SubSeq(SubSeq(text, o + 1, read), n - o + 1, read - o) = SubSeq(text, o + (n - o) + 1, read)
        BY <1>14, <2>2
    <2> QED
        BY <1>7, <1>14, <2>1, <2>3
<1>16. SubSeq(pending, 1, i - 1) = SubSeq(text, o + 1, o + i - 1)
    <2>1. \A k \in 0..read - o : SubSeq(SubSeq(text, o + 1, read), 1, k) = SubSeq(text, o + 1, o + k)
        BY <1>5, <1>6, PartFacts
    <2>2. SubSeq(SubSeq(text, o + 1, read), 1, i - 1) = SubSeq(text, o + 1, o + (i - 1))
        BY <1>14, <2>1
    <2> QED
        BY <1>7, <1>14, <2>2
<1>17. /\ written \in Seq(Writable) /\ SubSeq(text, o + 1, o + i - 1) \in Seq(Writable)
       /\ from[n + 1] \in Seq(Writable)
    <2>1. written \in Seq(Writable)
        BY DEF Streamed
    <2>2. o + i - 1 \in Nat /\ o <= o + i - 1 /\ o + i - 1 <= Len(text)
        BY <1>5, <1>6, <1>8
    <2>3. SubSeq(text, o + 1, o + i - 1) \in Seq(Symbols)
        BY <1>6, <2>2, PartFacts
    <2>4. SubSeq(text, o + 1, o + i - 1) \in Seq(Writable)
        BY <2>3, SeqMonotonic DEF Writable
    <2>5. n + 1 \in 1..Len(text) + 1
        BY <1>5, <1>6, <1>14
    <2> QED
        BY <1>6, <2>1, <2>4, <2>5, RestFacts DEF from
<1>18. written' \in Seq(Writable) /\ from[1] = written' \o from[n + 1]
    <2>1. PICK w : w = written
        OBVIOUS
    <2>2. PICK y : y = SubSeq(text, o + 1, o + i - 1)
        OBVIOUS
    <2>3. PICK r : r = from[n + 1]
        OBVIOUS
    <2>4. PICK whole : whole = from[1]
        OBVIOUS
    <2>5. w \in Seq(Writable) /\ y \in Seq(Writable) /\ r \in Seq(Writable)
        BY <1>17, <2>1, <2>2, <2>3
    <2>6. whole = w \o (y \o (Base \o r))
        BY <1>7, <1>11, <1>12, <1>14, <2>1, <2>2, <2>3, <2>4
    <2>7. PICK b : b = Base \o r
        OBVIOUS
    <2>8. w \o y \in Seq(Writable) /\ whole = (w \o y) \o (Base \o r)
        <3>1. b \in Seq(Writable)
            BY <1>9, <2>5, <2>7, ConcatProperties
        <3>2. whole = w \o (y \o b)
            BY <2>6, <2>7
        <3>3. w \o y \in Seq(Writable) /\ whole = (w \o y) \o b
            <4>1. Regroups(Writable, w, y, b)
                BY <2>5, <3>1, Regrouped
            <4> QED
                BY <3>2, <4>1 DEF Regroups
        <3> QED
            BY <2>7, <3>3
    <2>9. (w \o y) \o Base \in Seq(Writable) /\ whole = ((w \o y) \o Base) \o r
        <3>1. PICK v : v = w \o y
            OBVIOUS
        <3>2. v \in Seq(Writable) /\ whole = v \o (Base \o r)
            BY <2>8, <3>1
        <3>3. Regroups(Writable, v, Base, r)
            BY <1>9, <2>5, <3>2, Regrouped
        <3>4. v \o Base \in Seq(Writable) /\ whole = (v \o Base) \o r
            BY <3>2, <3>3 DEF Regroups
        <3> QED
            BY <3>1, <3>4
    <2>10. written' = (w \o y) \o Base
        BY <1>2, <1>3, <1>16, <2>1, <2>2
    <2> QED
        BY <2>3, <2>4, <2>9, <2>10
<1>19. Held(n)'
    BY <1>2, <1>15, <1>18 DEF Held, from
<1>20. \E h \in 0..read' : Held(h)'
    BY <1>2, <1>14, <1>19
<1>21. phase' # "done"
    BY <1>2
<1> QED
    BY <1>2, <1>18, <1>20, <1>21 DEF Streamed

LEMMA DrainedKeepsStreamed ==
  ASSUME Addresses!PatternsFit, Streamed, Addresses!Drained
  PROVE  Streamed'
<1>1. PICK o \in 0..read : Held(o)
    BY DEF Streamed
<1>2. /\ Len(pending) <= Addresses!Keep /\ phase' = IF final THEN "done" ELSE "read"
      /\ UNCHANGED <<text, read, pending, final, written>>
    BY DEF Addresses!Drained
<1>3. pending \in Seq(Symbols) /\ (final => Addresses!Keep = 0)
    BY <1>1, SeenFacts
<1>4. final => pending = <<>>
    BY <1>2, <1>3, EmptySeq, LenProperties
<1>5. Held(o)'
    BY <1>1, <1>2 DEF Held
<1>6. \E h \in 0..read' : Held(h)'
    BY <1>1, <1>2, <1>5
<1>7. phase' = "done" => final' /\ pending' = <<>>
    BY <1>2, <1>4
<1> QED
    BY <1>2, <1>6, <1>7 DEF Streamed

\* What is left alone stays right.
LEMMA StillStreamed ==
  ASSUME Streamed, UNCHANGED <<text, read, pending, final, written>>, UNCHANGED phase \/ phase' # "done"
  PROVE  Streamed'
<1>1. PICK o \in 0..read : Held(o)
    BY DEF Streamed
<1>2. Held(o)'
    BY <1>1 DEF Held
<1>3. \E h \in 0..read' : Held(h)'
    BY <1>1, <1>2
<1> QED
    BY <1>3 DEF Streamed

LEMMA StepKeepsStreamed ==
  ASSUME Addresses!PatternsFit, Streamed, [Addresses!Next]_Addresses!vars
  PROVE  Streamed'
<1>1. CASE Addresses!Read
    BY <1>1, ReadKeepsStreamed
<1>2. CASE Addresses!Replace
    BY <1>2, ReplaceKeepsStreamed
<1>3. CASE Addresses!Copy
    BY <1>3, CopyKeepsStreamed
<1>4. CASE Addresses!Drained
    BY <1>4, DrainedKeepsStreamed
<1>5. CASE Addresses!Break
    BY <1>5, StillStreamed DEF Addresses!Break
<1>6. CASE UNCHANGED Addresses!vars
    BY <1>6, StillStreamed DEF Addresses!vars
<1> QED
    BY <1>1, <1>2, <1>3, <1>4, <1>5, <1>6 DEF Addresses!Next

\* What is written is a beginning of the text with the addresses replaced, and all of it in the end.
LEMMA StreamedInOrder ==
  ASSUME Addresses!PatternsFit, Streamed
  PROVE  Addresses!ReplacedInOrder
<1>1. PICK o \in 0..read : Held(o)
    BY DEF Streamed
<1> DEFINE whole == Addresses!Rest(text)[1]
           rest  == Addresses!Rest(text)[o + 1]
<1>2. text \in Seq(Symbols) /\ Len(text) \in Nat /\ read \in 0..Len(text) /\ written \in Seq(Writable)
    BY LenProperties DEF Streamed
<1>3. rest \in Seq(Writable) /\ rest = Onward(text, Addresses!Rest(text), o + 1)
    <2>1. o + 1 \in 1..Len(text) + 1
        BY <1>2
    <2> QED
        BY <1>2, <2>1, RestFacts
<1>4. whole = written \o rest
    BY <1>1 DEF Held
<1>5. phase = "done" => rest = <<>>
    <2>1. ASSUME phase = "done" PROVE rest = <<>>
        <3>1. final /\ pending = <<>> /\ read = Len(text)
            BY <2>1 DEF Streamed
        <3>2. Len(pending) = read - o
            BY <1>1, SeenFacts
        <3>3. o + 1 > Len(text)
            BY <1>1, <1>2, <3>1, <3>2, EmptySeq
        <3> QED
            BY <1>3, <3>3 DEF Onward
    <2> QED
        BY <2>1
<1> HIDE DEF whole, rest
<1>6. Len(whole) = Len(written) + Len(rest) /\ Len(written) \in Nat /\ Len(rest) \in Nat /\ whole \in Seq(Writable)
    BY <1>2, <1>3, <1>4, ConcatProperties, LenProperties
<1>7. written = SubSeq(whole, 1, Len(written))
    <2>1. CASE Len(written) = 0
        <3>1. written = <<>>
            BY <1>2, <2>1, EmptySeq
        <3>2. SubSeq(whole, 1, Len(written)) = <<>>
            BY <2>1, SubSeqEmpty
        <3> QED
            BY <3>1, <3>2
    <2>2. CASE Len(written) # 0
        <3>1. 1 \in 1..Len(written) /\ Len(written) \in 1..Len(written)
            BY <1>6, <2>2
        <3>2. SubSeq(written \o rest, 1, Len(written)) = SubSeq(written, 1, Len(written))
            BY <1>2, <1>3, <3>1, SubSeqOfConcat1
        <3> QED
            BY <1>2, <1>4, <3>2, SubSeqFull
    <2> QED
        BY <2>1, <2>2
<1>8. phase = "done" => written = whole
    BY <1>2, <1>4, <1>5, ConcatEmptySeq
<1> QED
    BY <1>6, <1>7, <1>8 DEF Addresses!ReplacedInOrder, Addresses!Replaced, whole

\* Wherever the reads cut the text, and whatever it and the patterns are: what is written is a
\* beginning of the text with every address replaced from the left, and in the end it is all
\* of it (rewriteAddresses and its drain, stream.go).
THEOREM ReplacementInOrder == Addresses!Spec => []ReplacedInOrder
<1>1. Addresses!Init => Streamed
    BY PatternsAssumption, StreamedInit
<1>2. Streamed /\ [Addresses!Next]_Addresses!vars => Streamed'
    BY PatternsAssumption, StepKeepsStreamed
<1>3. Streamed => ReplacedInOrder
    BY PatternsAssumption, StreamedInOrder DEF ReplacedInOrder
<1> QED
    BY <1>1, <1>2, <1>3, PTL DEF Addresses!Spec

-----------------------------------------------------------------------------
(* RuleStream.                                                               *)

\* However the conversion of a rule set ends, with a body, with a call of the disk cache that
\* failed, or cancelled: no file of it is left open but the one the response reads, and its
\* workspace is closed or belongs to that body (the deferred calls of ParseStream, stream.go).
THEOREM ConversionClosed == Conversion!Spec => []NothingLeaked
<1>1. Conversion!Init => Conversion!NothingLeaked
    BY DEF Conversion!Init, Conversion!NothingLeaked
<1>2. Conversion!NothingLeaked /\ [Conversion!Next]_Conversion!vars => Conversion!NothingLeaked'
    BY DEF Conversion!NothingLeaked, Conversion!Next, Conversion!vars, Conversion!input, Conversion!output, Conversion!flags,
           Conversion!Create, Conversion!Fetch, Conversion!Scan, Conversion!Scanned, Conversion!Local, Conversion!CreateOutput,
           Conversion!Assemble, Conversion!Close, Conversion!Break, Conversion!Broken
<1>3. Conversion!NothingLeaked => NothingLeaked
    BY DEF NothingLeaked
<1> QED
    BY <1>1, <1>2, <1>3, PTL DEF Conversion!Spec

\* The sequences of bs joined up to the k-th.
Row(bs, f, k) == f = [i \in 0..k |-> IF i = 0 THEN <<>> ELSE f[i-1] \o bs[i]]

LEMMA RowsExist ==
  ASSUME NEW X, NEW bs \in Seq(Seq(X)), NEW k \in 0..Len(bs)
  PROVE  \E f \in [0..k -> Seq(X)] : Row(bs, f, k)
<1>1. Len(bs) \in Nat /\ k \in Nat
    BY LenProperties
<1> DEFINE Missing == {j \in 0..Len(bs) : ~\E f \in [0..j -> Seq(X)] : Row(bs, f, j)}
<1>2. ASSUME Missing # {} PROVE FALSE
    <2>1. PICK j \in Missing : \A m \in Missing : ~(m < j)
        <3>1. Missing \in SUBSET Nat
            BY <1>1
        <3> HIDE DEF Missing
        <3> QED
            BY <1>2, <3>1, Least
    <2>2. j # 0
        <3> DEFINE f == [i \in 0..0 |-> <<>>]
        <3>1. f \in [0..0 -> Seq(X)] /\ Row(bs, f, 0)
            BY EmptySeq DEF Row
        <3> HIDE DEF f
        <3> QED
            BY <2>1, <3>1
    <2>3. j \in 1..Len(bs) /\ j - 1 \in 0..Len(bs) /\ j - 1 < j
        BY <1>1, <2>1, <2>2
    <2>4. PICK f \in [0..j - 1 -> Seq(X)] : Row(bs, f, j - 1)
        BY <2>1, <2>3
    <2> DEFINE g == [i \in 0..j |-> IF i = j THEN f[j - 1] \o bs[j] ELSE f[i]]
    <2>5. f[j - 1] \o bs[j] \in Seq(X)
        <3>1. bs[j] \in Seq(X)
            BY <2>3, ElementOfSeq
        <3>2. f[j - 1] \in Seq(X)
            BY <2>3
        <3> QED
            BY <3>1, <3>2, ConcatProperties
    <2>6. g \in [0..j -> Seq(X)]
        BY <2>3, <2>5
    <2>7. ASSUME NEW i \in 0..j PROVE g[i] = IF i = 0 THEN <<>> ELSE g[i-1] \o bs[i]
        <3>1. CASE i = j
            <4>1. j \in 0..j /\ j - 1 \in 0..j /\ j - 1 # j /\ j # 0
                BY <2>3
            <4>2. g[j] = f[j - 1] \o bs[j] /\ g[j - 1] = f[j - 1]
                BY <4>1
            <4> HIDE DEF g
            <4> QED
                BY <3>1, <4>1, <4>2
        <3>2. CASE i # j
            <4>1. i \in 0..j - 1 /\ (i # 0 => i - 1 \in 0..j - 1 /\ i - 1 \in 0..j /\ i - 1 # j)
                BY <2>3, <3>2
            <4>2. f[i] = IF i = 0 THEN <<>> ELSE f[i-1] \o bs[i]
                BY <2>4, <4>1 DEF Row
            <4>3. g[i] = f[i] /\ (i # 0 => g[i-1] = f[i-1])
                BY <3>2, <4>1
            <4> QED
                BY <4>2, <4>3
        <3> QED
            BY <3>1, <3>2
    <2>8. g = [i \in 0..j |-> g[i]]
        OBVIOUS
    <2> HIDE DEF g
    <2>9. Row(bs, g, j)
        BY <2>7, <2>8 DEF Row
    <2> QED
        BY <2>1, <2>6, <2>9
<1>3. k \notin Missing
    <2> HIDE DEF Missing
    <2> QED
        BY <1>2
<1> QED
    BY <1>3

Alike(bs, cs, n) == \A i \in 1..n : bs[i] = cs[i]

LEMMA RowsAgree ==
  ASSUME NEW bs, NEW cs, NEW n \in Nat, NEW m \in Nat, n <= m, Alike(bs, cs, n),
         NEW f, NEW g, Row(bs, f, n), Row(cs, g, m)
  PROVE  \A k \in 0..n : f[k] = g[k]
<1> DEFINE Bad == {j \in 0..n : f[j] # g[j]}
<1>1. ASSUME Bad # {} PROVE FALSE
    <2>1. PICK j \in Bad : \A i \in Bad : ~(i < j)
        <3>1. Bad \in SUBSET Nat
            OBVIOUS
        <3> HIDE DEF Bad
        <3> QED
            BY <1>1, <3>1, Least
    <2>2. j \in 0..n /\ j \in 0..m
        BY <2>1
    <2>3. f[j] = IF j = 0 THEN <<>> ELSE f[j-1] \o bs[j]
        BY <2>2 DEF Row
    <2>4. g[j] = IF j = 0 THEN <<>> ELSE g[j-1] \o cs[j]
        BY <2>2 DEF Row
    <2>5. j # 0 => f[j-1] = g[j-1] /\ bs[j] = cs[j]
        BY <2>1 DEF Alike
    <2> QED
        BY <2>1, <2>3, <2>4, <2>5
<1> QED
    BY <1>1

LEMMA ConcatFacts ==
  ASSUME NEW X, NEW bs \in Seq(Seq(X))
  PROVE  /\ Conversion!Concat(bs) \in Seq(X)
         /\ \E f \in [0..Len(bs) -> Seq(X)] : Row(bs, f, Len(bs)) /\ Conversion!Concat(bs) = f[Len(bs)]
<1> DEFINE Fits(f) == Row(bs, f, Len(bs))
           f       == CHOOSE g : Fits(g)
<1>1. Len(bs) \in Nat /\ Len(bs) \in 0..Len(bs)
    BY LenProperties
<1>2. PICK g \in [0..Len(bs) -> Seq(X)] : Fits(g)
    BY <1>1, RowsExist
<1>3. Fits(f)
    BY <1>2
<1>4. Conversion!Concat(bs) = f[Len(bs)]
    BY DEF Conversion!Concat, Row
<1> HIDE DEF f
<1>5. \A i \in 0..Len(bs) : f[i] = g[i]
    <2>1. Alike(bs, bs, Len(bs)) /\ Len(bs) <= Len(bs)
        BY <1>1 DEF Alike
    <2> QED
        BY <1>1, <1>2, <1>3, <2>1, RowsAgree
<1>6. f = [i \in 0..Len(bs) |-> f[i]]
    BY <1>3 DEF Row
<1>7. f \in [0..Len(bs) -> Seq(X)]
    BY <1>5, <1>6
<1> QED
    BY <1>1, <1>3, <1>4, <1>7

LEMMA ConcatEmpty == Conversion!Concat(<<>>) = <<>>
<1>1. <<>> \in Seq(Seq({})) /\ Len(<<>>) = 0
    BY EmptySeq
<1>2. PICK f \in [0..0 -> Seq({})] : Row(<<>>, f, 0) /\ Conversion!Concat(<<>>) = f[0]
    BY <1>1, ConcatFacts
<1> QED
    BY <1>2 DEF Row

LEMMA ConcatAppend ==
  ASSUME NEW X, NEW bs \in Seq(Seq(X)), NEW b \in Seq(X)
  PROVE  Conversion!Concat(Append(bs, b)) = Conversion!Concat(bs) \o b
<1>a. PICK n : n = Len(bs)
    OBVIOUS
<1>b. PICK cs : cs = Append(bs, b)
    OBVIOUS
<1>1. n \in Nat /\ cs \in Seq(Seq(X)) /\ Len(cs) = n + 1 /\ cs[n + 1] = b /\ \A i \in 1..n : cs[i] = bs[i]
    BY <1>a, <1>b, LenProperties, AppendProperties
<1>2. PICK f : Row(bs, f, n) /\ Conversion!Concat(bs) = f[n]
    BY <1>a, ConcatFacts
<1>3. PICK m : m = n + 1
    OBVIOUS
<1>4. m \in Nat /\ n \in 0..m /\ m \in 0..m /\ m # 0 /\ m - 1 = n /\ n \in 0..n /\ n <= m
    BY <1>1, <1>3
<1>5. PICK g : Row(cs, g, m) /\ Conversion!Concat(cs) = g[m]
    BY <1>1, <1>3, ConcatFacts
<1>6. f[n] = g[n]
    <2>1. Alike(bs, cs, n)
        BY <1>1 DEF Alike
    <2>2. n \in Nat /\ m \in Nat /\ n \in 0..n /\ n <= m /\ Row(bs, f, n) /\ Row(cs, g, m)
        BY <1>1, <1>2, <1>4, <1>5
    <2>3. \A i \in 0..n : f[i] = g[i]
        BY <2>1, <2>2, RowsAgree
    <2> QED
        BY <2>2, <2>3
<1>7. g[m] = g[n] \o cs[m]
    <2>1. g[m] = g[m - 1] \o cs[m]
        BY <1>4, <1>5 DEF Row
    <2> QED
        BY <1>4, <2>1
<1> QED
    BY <1>1, <1>2, <1>3, <1>5, <1>6, <1>7, <1>a, <1>b

\* A function applied to all elements of a sequence.
LEMMA MapFacts ==
  ASSUME NEW X, NEW Y, NEW F \in [X -> Y], NEW s \in Seq(X)
  PROVE  /\ [i \in DOMAIN s |-> F[s[i]]] \in Seq(Y) /\ Len([i \in DOMAIN s |-> F[s[i]]]) = Len(s)
         /\ DOMAIN [i \in DOMAIN s |-> F[s[i]]] = 1..Len(s)
<1>1. Len(s) \in Nat /\ DOMAIN s = 1..Len(s) /\ \A i \in 1..Len(s) : s[i] \in X
    BY LenProperties, ElementOfSeq
<1> QED
    BY <1>1

LEMMA MapAppend ==
  ASSUME NEW X, NEW Y, NEW F \in [X -> Y], NEW s \in Seq(X), NEW e \in X
  PROVE  [i \in DOMAIN Append(s, e) |-> F[Append(s, e)[i]]] = Append([i \in DOMAIN s |-> F[s[i]]], F[e])
<1>1. PICK t : t = Append(s, e)
    OBVIOUS
<1>2. /\ t \in Seq(X) /\ Len(t) = Len(s) + 1 /\ t[Len(s) + 1] = e /\ Len(s) \in Nat /\ DOMAIN s = 1..Len(s)
      /\ \A i \in 1..Len(s) : t[i] = s[i]
    BY <1>1, AppendProperties, LenProperties
<1>3. PICK a : a = [i \in DOMAIN t |-> F[t[i]]]
    OBVIOUS
<1>4. a \in Seq(Y) /\ Len(a) = Len(s) + 1 /\ \A i \in 1..Len(s) + 1 : a[i] = F[t[i]]
    BY <1>2, <1>3, MapFacts
<1>5. PICK b : b = [i \in DOMAIN s |-> F[s[i]]]
    OBVIOUS
<1>6. b \in Seq(Y) /\ Len(b) = Len(s) /\ \A i \in 1..Len(s) : b[i] = F[s[i]]
    BY <1>2, <1>5, MapFacts
<1>7. PICK c : c = Append(b, F[e])
    OBVIOUS
<1>8. c \in Seq(Y) /\ Len(c) = Len(s) + 1 /\ c[Len(s) + 1] = F[e] /\ \A i \in 1..Len(s) : c[i] = b[i]
    <2>1. F[e] \in Y
        OBVIOUS
    <2> QED
        BY <1>6, <1>7, <2>1, AppendProperties
<1>9. \A i \in 1..Len(s) + 1 : a[i] = c[i]
    <2>1. ASSUME NEW i \in 1..Len(s) PROVE a[i] = c[i]
        <3>1. i \in 1..Len(s) + 1
            BY <1>2
        <3>2. a[i] = F[t[i]] /\ t[i] = s[i]
            BY <1>2, <1>4, <3>1
        <3>3. c[i] = b[i] /\ b[i] = F[s[i]]
            BY <1>6, <1>8
        <3> QED
            BY <3>2, <3>3
    <2>2. a[Len(s) + 1] = c[Len(s) + 1]
        BY <1>2, <1>4, <1>8
    <2>3. \A i \in 1..Len(s) + 1 : i \in 1..Len(s) \/ i = Len(s) + 1
        BY <1>2
    <2> QED
        BY <2>1, <2>2, <2>3
<1>10. a = c
    BY <1>4, <1>8, <1>9, SeqEqual
<1> QED
    BY <1>1, <1>3, <1>5, <1>7, <1>10

\* The lines of a set, one by one.
LEMMA ThoseFacts ==
  ASSUME NEW X, NEW C, NEW s \in Seq(X)
  PROVE  /\ Conversion!Those(s, C) \in Seq(X)
         /\ \A e \in X : Conversion!Those(Append(s, e), C)
                             = IF e \in C THEN Append(Conversion!Those(s, C), e) ELSE Conversion!Those(s, C)
<1> DEFINE F == [l \in X |-> IF l \in C THEN <<l>> ELSE <<>>]
<1>1. F \in [X -> Seq(X)]
    <2>1. ASSUME NEW l \in X PROVE <<l>> \in Seq(X) /\ <<>> \in Seq(X)
        BY EmptySeq
    <2> QED
        BY <2>1
<1>2. ASSUME NEW t \in Seq(X)
      PROVE  [i \in DOMAIN t |-> IF t[i] \in C THEN <<t[i]>> ELSE <<>>] = [i \in DOMAIN t |-> F[t[i]]]
    <2>1. \A i \in DOMAIN t : t[i] \in X
        BY LenProperties, ElementOfSeq
    <2> QED
        BY <2>1
<1>3. \A e \in X : F[e] = IF e \in C THEN <<e>> ELSE <<>>
    OBVIOUS
<1> HIDE DEF F
<1>4. PICK a : a = [i \in DOMAIN s |-> F[s[i]]]
    OBVIOUS
<1>5. a \in Seq(Seq(X))
    <2>1. PICK Y : Y = Seq(X)
        OBVIOUS
    <2>2. F \in [X -> Y]
        BY <1>1, <2>1
    <2>3. [i \in DOMAIN s |-> F[s[i]]] \in Seq(Y)
        BY <2>2, MapFacts
    <2> QED
        BY <1>4, <2>1, <2>3
<1>6. Conversion!Those(s, C) = Conversion!Concat(a)
    BY <1>2, <1>4 DEF Conversion!Those
<1>7. Conversion!Those(s, C) \in Seq(X)
    BY <1>5, <1>6, ConcatFacts
<1>8. ASSUME NEW e \in X
      PROVE  Conversion!Those(Append(s, e), C)
                 = IF e \in C THEN Append(Conversion!Those(s, C), e) ELSE Conversion!Those(s, C)
    <2>1. PICK t : t = Append(s, e)
        OBVIOUS
    <2>2. t \in Seq(X)
        BY <2>1, AppendProperties
    <2>3. Conversion!Those(t, C) = Conversion!Concat([i \in DOMAIN t |-> F[t[i]]])
        BY <1>2, <2>2 DEF Conversion!Those
    <2>4. [i \in DOMAIN t |-> F[t[i]]] = Append(a, F[e])
        BY <1>1, <1>4, <2>1, MapAppend
    <2>5. F[e] \in Seq(X)
        BY <1>1
    <2>6. Conversion!Concat(Append(a, F[e])) = Conversion!Concat(a) \o F[e]
        BY <1>5, <2>5, ConcatAppend
    <2>7. PICK b : b = Conversion!Those(s, C)
        OBVIOUS
    <2>8. Conversion!Those(t, C) = b \o F[e] /\ b \in Seq(X)
        BY <1>6, <1>7, <2>3, <2>4, <2>6, <2>7
    <2>9. CASE e \in C
        <3>1. b \o <<e>> = Append(b, e)
            BY <2>8, AppendIsConcat
        <3> QED
            BY <1>3, <2>1, <2>7, <2>8, <2>9, <3>1
    <2>10. CASE e \notin C
        <3>1. b \o <<>> = b
            BY <2>8, ConcatEmptySeq
        <3> QED
            BY <1>3, <2>1, <2>7, <2>8, <2>10, <3>1
    <2> QED
        BY <2>9, <2>10
<1> QED
    BY <1>7, <1>8

LEMMA ThoseEmpty == ASSUME NEW C PROVE Conversion!Those(<<>>, C) = <<>>
<1>1. [i \in DOMAIN <<>> |-> IF <<>>[i] \in C THEN <<<<>>[i]>> ELSE <<>>] = <<>>
    OBVIOUS
<1> QED
    BY <1>1, ConcatEmpty DEF Conversion!Those

Answer == [status : {"ok", "404", "failed"}, lines : Seq(Lines)]

\* The lines handed to consume so far.
Given ==
    Conversion!Concat([i \in DOMAIN answers |-> Conversion!BodyOf(answers[i])])
        \o (IF stage \in {"local", "assemble", "done"} THEN local ELSE <<>>)

\* The parts and the counts are those of the lines D.
Entries(s) == [i \in DOMAIN s |-> Conversion!Entry(s[i])]
Counted(D) ==
    /\ DOMAIN parts = Conversion!Parts
    /\ parts["supported"] = Entries(Conversion!Those(D, Conversion!Chosen))
    /\ parts["unsupported"] = Conversion!Ids(Conversion!Those(D, Conversion!Refused))
    /\ parts["excluded"] = Conversion!Ids(Conversion!Those(D, Conversion!Struck))
    /\ total = Len(Conversion!Those(D, Conversion!Rules))
    /\ selected = Len(Conversion!Those(D, Conversion!Chosen))

Some(b)   == b.status = "404" \/ Conversion!BodyOf(b) # <<>>
Failed(b) == b.status # "ok"
AnyAnswer == \E i \in DOMAIN answers : Some(answers[i])
AnyFailed == \E i \in DOMAIN answers : Failed(answers[i])

\* All that was given has been counted but for what is left to scan.
Matching ==
    stage \notin {"failed", "closed"} =>
        /\ local \in Seq(Lines) /\ todo \in Seq(Lines) /\ answers \in Seq(Answer)
        /\ \E D \in Seq(Lines) : Given = D \o todo /\ Counted(D)
        /\ stage \notin {"scan", "local"} => todo = <<>>
        /\ incomplete \in BOOLEAN /\ (incomplete <=> AnyFailed)
        /\ hasBody <=> (stage \in {"local", "assemble", "done"} /\ local # <<>>) \/ AnyAnswer
        /\ stage = "done" =>
              result = IF Conversion!Empty THEN Conversion!Nothing
                       ELSE [total |-> total, selected |-> parts["supported"],
                             unsupported |-> parts["unsupported"], excluded |-> parts["excluded"], blank |-> FALSE]

\* The classes of lines depend on the input only.
LEMMA ClassesStay ==
  ASSUME UNCHANGED <<target, nore>>
  PROVE  /\ UNCHANGED <<Conversion!Chosen, Conversion!Refused, Conversion!Struck, Conversion!Rules>>
         /\ \A l : Conversion!Entry(l)' = Conversion!Entry(l)
<1>1. UNCHANGED <<Conversion!Refused, Conversion!Struck, Conversion!Rules>>
    BY DEF Conversion!Refused, Conversion!Struck, Conversion!Rules, Conversion!Unsupported
<1>2. ASSUME NEW l PROVE Conversion!Selected(l)' <=> Conversion!Selected(l)
    BY DEF Conversion!Selected
<1>3. UNCHANGED Conversion!Chosen
    BY <1>1, <1>2 DEF Conversion!Chosen
<1>4. ASSUME NEW l PROVE Conversion!Formatted(target.client, l)' = Conversion!Formatted(target.client, l)
    BY DEF Conversion!Formatted, Conversion!NoResolve
<1>5. ASSUME NEW l PROVE Conversion!Entry(l)' = Conversion!Entry(l)
    BY <1>4 DEF Conversion!Entry
<1> QED
    BY <1>1, <1>3, <1>5

LEMMA CountedStays ==
  ASSUME NEW D, Counted(D), UNCHANGED <<target, nore, parts, total, selected>>
  PROVE  Counted(D)'
<1>1. UNCHANGED <<Conversion!Chosen, Conversion!Refused, Conversion!Struck, Conversion!Rules>>
    BY ClassesStay
<1>2. Entries(Conversion!Those(D, Conversion!Chosen))' = Entries(Conversion!Those(D, Conversion!Chosen))
    BY <1>1, ClassesStay DEF Entries
<1> QED
    BY <1>1, <1>2 DEF Counted

LEMMA MatchingInit == Conversion!Init => Matching
<1> SUFFICES ASSUME Conversion!Init PROVE Matching
    OBVIOUS
<1>1. /\ stage = "create" /\ todo = <<>> /\ answers = <<>> /\ parts = [p \in Conversion!Parts |-> <<>>]
      /\ total = 0 /\ selected = 0 /\ incomplete = FALSE /\ hasBody = FALSE
      /\ local \in {<<>>} \cup {<<l>> : l \in Lines}
    BY DEF Conversion!Init
<1>2. local \in Seq(Lines) /\ todo \in Seq(Lines) /\ answers \in Seq(Answer)
    <2>1. \A l \in Lines : <<l>> \in Seq(Lines)
        OBVIOUS
    <2>2. local \in Seq(Lines)
        BY <1>1, <2>1, EmptySeq
    <2>3. todo \in Seq(Lines)
        BY <1>1, EmptySeq
    <2>4. answers \in Seq(Answer)
        BY <1>1, EmptySeq
    <2> QED
        BY <2>2, <2>3, <2>4
<1>3. Given = <<>> \o todo
    <2>1. [i \in DOMAIN answers |-> Conversion!BodyOf(answers[i])] = <<>>
        BY <1>1
    <2> QED
        BY <1>1, <2>1, ConcatEmpty DEF Given
<1>4. Counted(<<>>)
    <2>1. Entries(<<>>) = <<>> /\ Conversion!Ids(<<>>) = <<>> /\ Len(<<>>) = 0
        BY EmptySeq DEF Entries, Conversion!Ids
    <2>2. \A C : Conversion!Those(<<>>, C) = <<>>
        BY ThoseEmpty
    <2> QED
        BY <1>1, <2>1, <2>2 DEF Counted, Conversion!Parts
<1>5. ~AnyFailed /\ ~AnyAnswer
    BY <1>1 DEF AnyFailed, AnyAnswer
<1> QED
    BY <1>1, <1>2, <1>3, <1>4, <1>5, EmptySeq DEF Matching

LEMMA EntriesAppend ==
  ASSUME NEW s \in Seq(Lines), NEW e \in Lines
  PROVE  /\ Entries(Append(s, e)) = Append(Entries(s), Conversion!Entry(e))
         /\ Conversion!Ids(Append(s, e)) = Append(Conversion!Ids(s), e.id)
<1> DEFINE F == [l \in Lines |-> Conversion!Entry(l)]
           G == [l \in Lines |-> l.id]
<1>1. F \in [Lines -> {Conversion!Entry(l) : l \in Lines}] /\ G \in [Lines -> {l.id : l \in Lines}]
    OBVIOUS
<1>2. ASSUME NEW t \in Seq(Lines)
      PROVE  Entries(t) = [i \in DOMAIN t |-> F[t[i]]] /\ Conversion!Ids(t) = [i \in DOMAIN t |-> G[t[i]]]
    <2>1. \A i \in DOMAIN t : t[i] \in Lines
        BY LenProperties, ElementOfSeq
    <2> QED
        BY <2>1 DEF Entries, Conversion!Ids
<1>3. F[e] = Conversion!Entry(e) /\ G[e] = e.id
    OBVIOUS
<1> HIDE DEF F, G
<1>4. PICK t : t = Append(s, e)
    OBVIOUS
<1>5. PICK Y : Y = {Conversion!Entry(l) : l \in Lines}
    OBVIOUS
<1>6. PICK a : a = [i \in DOMAIN s |-> F[s[i]]]
    OBVIOUS
<1>7. [i \in DOMAIN t |-> F[t[i]]] = Append(a, F[e])
    <2>1. F \in [Lines -> Y]
        BY <1>1, <1>5
    <2> QED
        BY <1>4, <1>6, <2>1, MapAppend
<1>8. PICK Z : Z = {l.id : l \in Lines}
    OBVIOUS
<1>9. PICK b : b = [i \in DOMAIN s |-> G[s[i]]]
    OBVIOUS
<1>10. [i \in DOMAIN t |-> G[t[i]]] = Append(b, G[e])
    <2>1. G \in [Lines -> Z]
        BY <1>1, <1>8
    <2> QED
        BY <1>4, <1>9, <2>1, MapAppend
<1>11. t \in Seq(Lines)
    BY <1>4, AppendProperties
<1>12. Entries(t) = [i \in DOMAIN t |-> F[t[i]]] /\ Conversion!Ids(t) = [i \in DOMAIN t |-> G[t[i]]]
    BY <1>2, <1>11
<1> QED
    BY <1>2, <1>3, <1>4, <1>6, <1>7, <1>9, <1>10, <1>12

LEMMA ShiftOne ==
  ASSUME NEW X, NEW s \in Seq(X), NEW h \in X, NEW r \in Seq(X)
  PROVE  s \o (<<h>> \o r) = Append(s, h) \o r
<1>1. PICK v : v = <<h>>
    OBVIOUS
<1>2. v \in Seq(X)
    BY <1>1
<1>3. Regroups(X, s, v, r)
    BY <1>2, Regrouped
<1>4. Append(s, h) = s \o v
    BY <1>1, AppendIsConcat
<1> QED
    BY <1>1, <1>3, <1>4 DEF Regroups

LEMMA HeadAndRest ==
  ASSUME NEW X, NEW t \in Seq(X), t # <<>>
  PROVE  Head(t) \in X /\ Tail(t) \in Seq(X) /\ t = <<Head(t)>> \o Tail(t)
<1>1. Head(t) \in X /\ Tail(t) \in Seq(X) /\ Tail(t) = SubSeq(t, 2, Len(t))
    BY HeadTailProperties, TailIsSubSeq
<1>2. 1 \in 1..Len(t) /\ Len(t) \in 1..Len(t)
    BY EmptySeq, LenProperties
<1>3. SubSeq(t, 1, Len(t)) = <<t[1]>> \o SubSeq(t, 1 + 1, Len(t))
    BY <1>2, SubSeqRecursiveFirst
<1>4. SubSeq(t, 1, Len(t)) = t
    BY SubSeqFull
<1>5. t[1] = Head(t)
    BY <1>2
<1> QED
    BY <1>1, <1>3, <1>4, <1>5

LEMMA ScanCounts ==
  ASSUME NEW D \in Seq(Lines), Counted(D), Conversion!Scan, todo \in Seq(Lines), NEW l, l = Head(todo)
  PROVE  Counted(Append(D, l))'
<1>1. l = Head(todo)
    OBVIOUS
<1>2. l \in Lines /\ UNCHANGED <<target, nore>>
    BY <1>1, HeadTailProperties DEF Conversion!Scan, Conversion!input
<1>3. PICK E : E = Append(D, l)
    OBVIOUS
<1>4. UNCHANGED <<Conversion!Chosen, Conversion!Refused, Conversion!Struck, Conversion!Rules>>
      /\ \A k : Conversion!Entry(k)' = Conversion!Entry(k)
    BY <1>2, ClassesStay
<1> DEFINE chosen  == Conversion!Those(D, Conversion!Chosen)
           refused == Conversion!Those(D, Conversion!Refused)
           struck  == Conversion!Those(D, Conversion!Struck)
           rules   == Conversion!Those(D, Conversion!Rules)
<1>5. chosen \in Seq(Lines) /\ refused \in Seq(Lines) /\ struck \in Seq(Lines) /\ rules \in Seq(Lines)
    BY ThoseFacts
<1>6. \A C : Conversion!Those(E, C)
                 = IF l \in C THEN Append(Conversion!Those(D, C), l) ELSE Conversion!Those(D, C)
    BY <1>2, <1>3, ThoseFacts
<1>7. /\ DOMAIN parts = Conversion!Parts
      /\ parts["supported"] = Entries(chosen) /\ parts["unsupported"] = Conversion!Ids(refused)
      /\ parts["excluded"] = Conversion!Ids(struck) /\ total = Len(rules) /\ selected = Len(chosen)
    BY DEF Counted
<1>8. SUFFICES /\ DOMAIN parts' = Conversion!Parts
               /\ parts'["supported"] = Entries(Conversion!Those(E, Conversion!Chosen))
               /\ parts'["unsupported"] = Conversion!Ids(Conversion!Those(E, Conversion!Refused))
               /\ parts'["excluded"] = Conversion!Ids(Conversion!Those(E, Conversion!Struck))
               /\ total' = Len(Conversion!Those(E, Conversion!Rules))
               /\ selected' = Len(Conversion!Those(E, Conversion!Chosen))
    <2>1. Entries(Conversion!Those(E, Conversion!Chosen))' = Entries(Conversion!Those(E, Conversion!Chosen))
        BY <1>4 DEF Entries
    <2>2. Counted(E)'
        BY <1>4, <1>8, <2>1 DEF Counted
    <2> QED
        BY <1>1, <1>3, <2>2
<1>9. /\ Entries(Append(chosen, l)) = Append(Entries(chosen), Conversion!Entry(l))
      /\ Conversion!Ids(Append(refused, l)) = Append(Conversion!Ids(refused), l.id)
      /\ Conversion!Ids(Append(struck, l)) = Append(Conversion!Ids(struck), l.id)
    BY <1>2, <1>5, EntriesAppend
<1>10. Len(Append(chosen, l)) = Len(chosen) + 1 /\ Len(Append(rules, l)) = Len(rules) + 1
    BY <1>2, <1>5, AppendProperties
<1> HIDE DEF chosen, refused, struck, rules
<1>11. {"supported", "unsupported", "excluded"} = Conversion!Parts
    BY DEF Conversion!Parts
<1>12. CASE ~Conversion!Kept(l)
    <2>1. l \notin Conversion!Chosen /\ l \notin Conversion!Refused /\ l \notin Conversion!Struck /\ l \notin Conversion!Rules
        BY <1>12 DEF Conversion!Chosen, Conversion!Refused, Conversion!Struck, Conversion!Rules
    <2>2. UNCHANGED <<parts, total, selected>>
        BY <1>1, <1>12 DEF Conversion!Scan, Conversion!output
    <2> QED
        BY <1>6, <1>7, <2>1, <2>2 DEF chosen, refused, struck, rules
<1>13. CASE Conversion!Kept(l) /\ Conversion!Excluded(l)
    <2>1. l \notin Conversion!Chosen /\ l \notin Conversion!Refused /\ l \in Conversion!Struck /\ l \notin Conversion!Rules
        BY <1>2, <1>13 DEF Conversion!Chosen, Conversion!Refused, Conversion!Struck, Conversion!Rules
    <2>2. parts' = [parts EXCEPT !["excluded"] = Append(@, l.id)] /\ UNCHANGED <<total, selected>>
        BY <1>1, <1>13 DEF Conversion!Scan, Conversion!Put
    <2>3. /\ DOMAIN parts' = DOMAIN parts /\ parts'["excluded"] = Append(parts["excluded"], l.id)
          /\ parts'["supported"] = parts["supported"] /\ parts'["unsupported"] = parts["unsupported"]
        BY <1>7, <1>11, <2>2
    <2> QED
        BY <1>6, <1>7, <1>9, <2>1, <2>2, <2>3 DEF chosen, refused, struck, rules
<1>14. CASE Conversion!Kept(l) /\ ~Conversion!Excluded(l)
            /\ Conversion!Unsupported(target.client, Conversion!Normal(l.type))
    <2>1. l \notin Conversion!Chosen /\ l \in Conversion!Refused /\ l \notin Conversion!Struck /\ l \notin Conversion!Rules
        BY <1>2, <1>14 DEF Conversion!Chosen, Conversion!Refused, Conversion!Struck, Conversion!Rules
    <2>2. parts' = [parts EXCEPT !["unsupported"] = Append(@, l.id)] /\ UNCHANGED <<total, selected>>
        BY <1>1, <1>14 DEF Conversion!Scan, Conversion!Put
    <2>3. /\ DOMAIN parts' = DOMAIN parts /\ parts'["unsupported"] = Append(parts["unsupported"], l.id)
          /\ parts'["supported"] = parts["supported"] /\ parts'["excluded"] = parts["excluded"]
        BY <1>7, <1>11, <2>2
    <2> QED
        BY <1>6, <1>7, <1>9, <2>1, <2>2, <2>3 DEF chosen, refused, struck, rules
<1>15. CASE Conversion!Kept(l) /\ ~Conversion!Excluded(l)
            /\ ~Conversion!Unsupported(target.client, Conversion!Normal(l.type))
    <2>1. l \notin Conversion!Refused /\ l \notin Conversion!Struck /\ l \in Conversion!Rules
          /\ (l \in Conversion!Chosen <=> Conversion!Selected(l))
        BY <1>2, <1>15 DEF Conversion!Chosen, Conversion!Refused, Conversion!Struck, Conversion!Rules
    <2>2. total' = total + 1
          /\ IF Conversion!Selected(l)
             THEN parts' = [parts EXCEPT !["supported"] = Append(@, Conversion!Entry(l))] /\ selected' = selected + 1
             ELSE UNCHANGED <<parts, selected>>
        BY <1>1, <1>15 DEF Conversion!Scan, Conversion!Put
    <2>3. CASE Conversion!Selected(l)
        <3>1. /\ DOMAIN parts' = DOMAIN parts
              /\ parts'["supported"] = Append(parts["supported"], Conversion!Entry(l))
              /\ parts'["unsupported"] = parts["unsupported"] /\ parts'["excluded"] = parts["excluded"]
            BY <1>7, <1>11, <2>2, <2>3
        <3> QED
            BY <1>6, <1>7, <1>9, <1>10, <2>1, <2>2, <2>3, <3>1 DEF chosen, refused, struck, rules
    <2>4. CASE ~Conversion!Selected(l)
        BY <1>6, <1>7, <1>10, <2>1, <2>2, <2>4 DEF chosen, refused, struck, rules
    <2> QED
        BY <2>3, <2>4
<1> QED
    BY <1>12, <1>13, <1>14, <1>15

Received == Conversion!Concat([i \in DOMAIN answers |-> Conversion!BodyOf(answers[i])])

LEMMA ReceivedTyped ==
  ASSUME answers \in Seq(Answer)
  PROVE  Received \in Seq(Lines) /\ Received \o <<>> = Received
<1>1. ASSUME NEW b \in Answer PROVE Conversion!BodyOf(b) \in Seq(Lines)
    BY EmptySeq DEF Answer, Conversion!BodyOf
<1> DEFINE F == [b \in Answer |-> Conversion!BodyOf(b)]
<1>2. F \in [Answer -> Seq(Lines)]
    BY <1>1
<1>3. [i \in DOMAIN answers |-> Conversion!BodyOf(answers[i])] = [i \in DOMAIN answers |-> F[answers[i]]]
    <2>1. \A i \in DOMAIN answers : answers[i] \in Answer
        BY LenProperties, ElementOfSeq
    <2> QED
        BY <2>1
<1> HIDE DEF F
<1>4. PICK a : a = [i \in DOMAIN answers |-> F[answers[i]]]
    OBVIOUS
<1>5. a \in Seq(Seq(Lines))
    <2>1. PICK Y : Y = Seq(Lines)
        OBVIOUS
    <2>2. F \in [Answer -> Y]
        BY <1>2, <2>1
    <2>3. a \in Seq(Y)
        BY <1>4, <2>2, MapFacts
    <2> QED
        BY <2>1, <2>3
<1>6. Received = Conversion!Concat(a)
    BY <1>3, <1>4 DEF Received
<1>7. Received \in Seq(Lines)
    BY <1>5, <1>6, ConcatFacts
<1> QED
    BY <1>7, ConcatEmptySeq

LEMMA ReceivedNext ==
  ASSUME answers \in Seq(Answer), NEW b \in Answer, answers' = Append(answers, b)
  PROVE  /\ answers' \in Seq(Answer) /\ Received' = Received \o Conversion!BodyOf(b)
         /\ AnyFailed' <=> AnyFailed \/ Failed(b)
         /\ AnyAnswer' <=> AnyAnswer \/ Some(b)
<1> DEFINE F == [c \in Answer |-> Conversion!BodyOf(c)]
<1>1. F \in [Answer -> Seq(Lines)] /\ F[b] = Conversion!BodyOf(b)
    <2>1. ASSUME NEW c \in Answer PROVE Conversion!BodyOf(c) \in Seq(Lines)
        BY EmptySeq DEF Answer, Conversion!BodyOf
    <2> QED
        BY <2>1
<1>2. ASSUME NEW t \in Seq(Answer)
      PROVE  [i \in DOMAIN t |-> Conversion!BodyOf(t[i])] = [i \in DOMAIN t |-> F[t[i]]]
    <2>1. \A i \in DOMAIN t : t[i] \in Answer
        BY LenProperties, ElementOfSeq
    <2> QED
        BY <2>1
<1> HIDE DEF F
<1>3. PICK s : s = answers
    OBVIOUS
<1>4. PICK t : t = Append(answers, b)
    OBVIOUS
<1>5. /\ s \in Seq(Answer) /\ t \in Seq(Answer) /\ Len(t) = Len(s) + 1 /\ t[Len(s) + 1] = b /\ Len(s) \in Nat
      /\ DOMAIN s = 1..Len(s) /\ DOMAIN t = 1..Len(s) + 1 /\ \A i \in 1..Len(s) : t[i] = s[i]
    BY <1>3, <1>4, AppendProperties, LenProperties
<1>6. PICK a : a = [i \in DOMAIN s |-> F[s[i]]]
    OBVIOUS
<1>7. PICK Y : Y = Seq(Lines)
    OBVIOUS
<1>8. F \in [Answer -> Y] /\ F[b] \in Y
    BY <1>1, <1>7
<1>9. a \in Seq(Seq(Lines))
    <2>1. a \in Seq(Y)
        BY <1>5, <1>6, <1>8, MapFacts
    <2> QED
        BY <1>7, <2>1
<1>10. [i \in DOMAIN t |-> F[t[i]]] = Append(a, F[b])
    BY <1>3, <1>4, <1>5, <1>6, <1>8, MapAppend
<1>11. Conversion!Concat(Append(a, F[b])) = Conversion!Concat(a) \o F[b]
    BY <1>1, <1>9, ConcatAppend
<1>12. Received = Conversion!Concat(a)
    BY <1>2, <1>3, <1>5, <1>6 DEF Received
<1>13. Received' = Conversion!Concat(Append(a, F[b]))
    <2>1. Received' = Conversion!Concat([i \in DOMAIN t |-> Conversion!BodyOf(t[i])])
        BY <1>4 DEF Received
    <2> QED
        BY <1>2, <1>5, <1>10, <2>1
<1>14. Len(s) + 1 \in 1..Len(s) + 1 /\ \A i \in 1..Len(s) + 1 : i \in 1..Len(s) \/ i = Len(s) + 1
    BY <1>5
<1>15. AnyFailed' <=> AnyFailed \/ Failed(b)
    <2>1. AnyFailed' <=> \E i \in 1..Len(s) + 1 : Failed(t[i])
        BY <1>4, <1>5 DEF AnyFailed
    <2>2. AnyFailed <=> \E i \in 1..Len(s) : Failed(s[i])
        BY <1>3, <1>5 DEF AnyFailed
    <2>3. (\E i \in 1..Len(s) + 1 : Failed(t[i])) <=> (\E i \in 1..Len(s) : Failed(t[i])) \/ Failed(b)
        BY <1>5, <1>14
    <2>4. (\E i \in 1..Len(s) : Failed(t[i])) <=> \E i \in 1..Len(s) : Failed(s[i])
        BY <1>5
    <2> QED
        BY <2>1, <2>2, <2>3, <2>4
<1>16. AnyAnswer' <=> AnyAnswer \/ Some(b)
    <2>1. AnyAnswer' <=> \E i \in 1..Len(s) + 1 : Some(t[i])
        BY <1>4, <1>5 DEF AnyAnswer
    <2>2. AnyAnswer <=> \E i \in 1..Len(s) : Some(s[i])
        BY <1>3, <1>5 DEF AnyAnswer
    <2>3. (\E i \in 1..Len(s) + 1 : Some(t[i])) <=> (\E i \in 1..Len(s) : Some(t[i])) \/ Some(b)
        BY <1>5, <1>14
    <2>4. (\E i \in 1..Len(s) : Some(t[i])) <=> \E i \in 1..Len(s) : Some(s[i])
        BY <1>5
    <2> QED
        BY <2>1, <2>2, <2>3, <2>4
<1> QED
    BY <1>1, <1>4, <1>5, <1>11, <1>12, <1>13, <1>15, <1>16

LEMMA ScanMatches ==
  ASSUME Matching, Conversion!Scan
  PROVE  Matching'
<1>1. stage \in {"scan", "local"} /\ todo # <<>> /\ todo' = Tail(todo)
      /\ UNCHANGED <<target, local, nore, stage, answers, incomplete, hasBody>>
    BY DEF Conversion!Scan, Conversion!input, Conversion!flags
<1>2. local \in Seq(Lines) /\ todo \in Seq(Lines) /\ answers \in Seq(Answer)
      /\ incomplete \in BOOLEAN /\ (incomplete <=> AnyFailed)
      /\ (hasBody <=> (stage \in {"local", "assemble", "done"} /\ local # <<>>) \/ AnyAnswer)
    BY <1>1 DEF Matching
<1>3. PICK D \in Seq(Lines) : Given = D \o todo /\ Counted(D)
    BY <1>1 DEF Matching
<1>4. PICK l : l = Head(todo)
    OBVIOUS
<1>5. PICK r : r = Tail(todo)
    OBVIOUS
<1>6. l \in Lines /\ r \in Seq(Lines) /\ todo = <<l>> \o r
    BY <1>1, <1>2, <1>4, <1>5, HeadAndRest
<1>7. D \o (<<l>> \o r) = Append(D, l) \o r
    BY <1>6, ShiftOne
<1>8. PICK E : E = Append(D, l)
    OBVIOUS
<1>9. E \in Seq(Lines)
    BY <1>6, <1>8, AppendProperties
<1>10. Counted(E)'
    BY <1>2, <1>3, <1>4, <1>8, ScanCounts
<1>11. Given' = E \o todo'
    <2>1. Given' = Given
        BY <1>1 DEF Given
    <2> QED
        BY <1>1, <1>3, <1>5, <1>6, <1>7, <1>8, <2>1
<1>12. todo' \in Seq(Lines)
    BY <1>1, <1>5, <1>6
<1>13. UNCHANGED <<AnyFailed, AnyAnswer>>
    BY <1>1 DEF AnyFailed, AnyAnswer
<1> QED
    BY <1>1, <1>2, <1>9, <1>10, <1>11, <1>12, <1>13 DEF Matching

LEMMA FetchMatches ==
  ASSUME Matching, Conversion!Fetch
  PROVE  Matching'
<1>1. stage = "fetch" /\ UNCHANGED <<target, local, nore, parts, total, selected>>
    BY DEF Conversion!Fetch, Conversion!input, Conversion!output
<1>2. local \in Seq(Lines) /\ todo = <<>> /\ answers \in Seq(Answer)
      /\ incomplete \in BOOLEAN /\ (incomplete <=> AnyFailed) /\ (hasBody <=> AnyAnswer)
    BY <1>1 DEF Matching
<1>3. PICK D \in Seq(Lines) : Given = D \o todo /\ Counted(D)
    BY <1>1 DEF Matching
<1>4. PICK t \in Conversion!Texts, status \in {"ok", "404", "failed"} :
        /\ status = "404" => t = <<>>
        /\ source' = <<>> \o t
        /\ answers' = Append(answers, [status |-> status, lines |-> t])
        /\ IF status = "ok" THEN todo' = source' /\ stage' = "scan" ELSE UNCHANGED <<todo, stage>>
        /\ incomplete' = (incomplete \/ status # "ok")
        /\ hasBody' = (hasBody \/ status = "404" \/ (status = "ok" /\ source' # <<>>))
    BY DEF Conversion!Fetch, Conversion!Reset
<1>5. t \in Seq(Lines)
    <2>1. PICK n \in 0..MaxLines : t \in [1..n -> Lines]
        BY DEF Conversion!Texts
    <2>2. n \in Nat
        OBVIOUS
    <2> QED
        BY <2>1, <2>2
<1>6. <<>> \o t = t /\ <<>> \in Seq(Lines)
    BY <1>5, ConcatEmptySeq, EmptySeq
<1>7. PICK b : b = [status |-> status, lines |-> t]
    OBVIOUS
<1>8. b \in Answer /\ b.status = status /\ Conversion!BodyOf(b) = (IF status = "ok" THEN t ELSE <<>>)
    BY <1>5, <1>7 DEF Answer, Conversion!BodyOf
<1>9. /\ answers' \in Seq(Answer) /\ Received' = Received \o Conversion!BodyOf(b)
      /\ AnyFailed' <=> AnyFailed \/ Failed(b)
      /\ AnyAnswer' <=> AnyAnswer \/ Some(b)
    BY <1>2, <1>4, <1>7, <1>8, ReceivedNext
<1>10. /\ stage' \in {"fetch", "scan"} /\ (stage' # "scan" => todo' = <<>>) /\ todo' \in Seq(Lines)
       /\ todo' = Conversion!BodyOf(b)
    BY <1>1, <1>2, <1>4, <1>5, <1>6, <1>8
<1>11. Given = Received /\ Received = D
    <2>1. Given = Received \o <<>>
        BY <1>1 DEF Given, Received
    <2>2. Received \o <<>> = Received
        BY <1>2, ReceivedTyped
    <2>3. D \o <<>> = D
        BY ConcatEmptySeq
    <2> QED
        BY <1>2, <1>3, <2>1, <2>2, <2>3
<1>12. Given' = D \o todo'
    <2>1. Given' = Received' \o <<>>
        BY <1>10 DEF Given, Received
    <2>2. PICK x : x = D \o Conversion!BodyOf(b)
        OBVIOUS
    <2>3. Conversion!BodyOf(b) \in Seq(Lines)
        BY <1>5, <1>6, <1>8
    <2>4. x \in Seq(Lines)
        BY <2>2, <2>3, ConcatProperties
    <2>5. x \o <<>> = x
        BY <2>4, ConcatEmptySeq
    <2>6. Received' = x
        BY <1>9, <1>11, <2>2
    <2> QED
        BY <1>10, <2>1, <2>2, <2>5, <2>6
<1>13. Counted(D)'
    BY <1>1, <1>3, CountedStays
<1>14. incomplete' \in BOOLEAN /\ (incomplete' <=> AnyFailed')
    BY <1>2, <1>4, <1>8, <1>9 DEF Failed
<1>15. hasBody' <=> AnyAnswer'
    <2>1. Some(b) <=> status = "404" \/ (status = "ok" /\ t # <<>>)
        BY <1>8 DEF Some
    <2>2. hasBody' <=> hasBody \/ status = "404" \/ (status = "ok" /\ t # <<>>)
        BY <1>4, <1>6
    <2> QED
        BY <1>2, <1>9, <2>1, <2>2
<1> QED
    BY <1>1, <1>2, <1>9, <1>10, <1>12, <1>13, <1>14, <1>15 DEF Matching

LEMMA LocalMatches ==
  ASSUME Matching, Conversion!Local
  PROVE  Matching'
<1>1. stage = "fetch" /\ UNCHANGED <<target, local, nore, parts, total, selected, answers, incomplete>>
      /\ todo' = local /\ hasBody' = (hasBody \/ local # <<>>) /\ stage' = "local"
    BY DEF Conversion!Local, Conversion!input, Conversion!output
<1>2. local \in Seq(Lines) /\ todo = <<>> /\ answers \in Seq(Answer)
      /\ incomplete \in BOOLEAN /\ (incomplete <=> AnyFailed) /\ (hasBody <=> AnyAnswer)
    BY <1>1 DEF Matching
<1>3. PICK D \in Seq(Lines) : Given = D \o todo /\ Counted(D)
    BY <1>1 DEF Matching
<1>4. Given' = D \o todo'
    <2>1. Given = Received \o <<>> /\ Given' = Received \o local
        BY <1>1 DEF Given, Received
    <2>2. Received \o <<>> = Received
        BY <1>2, ReceivedTyped
    <2>3. D \o <<>> = D
        BY ConcatEmptySeq
    <2> QED
        BY <1>1, <1>2, <1>3, <2>1, <2>2, <2>3
<1>5. Counted(D)'
    BY <1>1, <1>3, CountedStays
<1>6. UNCHANGED <<AnyFailed, AnyAnswer>>
    BY <1>1 DEF AnyFailed, AnyAnswer
<1> QED
    BY <1>1, <1>2, <1>4, <1>5, <1>6 DEF Matching

\* Steps that hand nothing to consume.
LEMMA OthersMatch ==
  ASSUME Matching, Conversion!Create \/ Conversion!Scanned \/ Conversion!CreateOutput \/ Conversion!Assemble
                       \/ UNCHANGED Conversion!vars
  PROVE  Matching'
<1> DEFINE Rest == IF Conversion!Empty THEN Conversion!Nothing
                   ELSE [total |-> total, selected |-> parts["supported"],
                         unsupported |-> parts["unsupported"], excluded |-> parts["excluded"], blank |-> FALSE]
           Late == {"local", "assemble", "done"}
<1>1. /\ UNCHANGED <<target, local, nore, parts, total, selected, answers, incomplete, hasBody, todo>>
      /\ stage \in Late <=> stage' \in Late
      /\ stage' \notin {"failed", "closed"} => stage \notin {"failed", "closed"}
      /\ stage' \notin {"scan", "local"} /\ stage \in {"scan", "local"} => todo = <<>>
      /\ stage' = "done" => (stage = "done" /\ UNCHANGED result) \/ result' = Rest
    BY DEF Conversion!Create, Conversion!Scanned, Conversion!CreateOutput, Conversion!Assemble,
           Conversion!vars, Conversion!input, Conversion!output, Conversion!flags
<1>2. SUFFICES ASSUME stage' \notin {"failed", "closed"} PROVE Matching'
    BY DEF Matching
<1>3. local \in Seq(Lines) /\ todo \in Seq(Lines) /\ answers \in Seq(Answer)
      /\ (stage \notin {"scan", "local"} => todo = <<>>)
      /\ incomplete \in BOOLEAN /\ (incomplete <=> AnyFailed)
      /\ (hasBody <=> (stage \in Late /\ local # <<>>) \/ AnyAnswer)
      /\ (stage = "done" => result = Rest)
    BY <1>1, <1>2 DEF Matching
<1>4. PICK D \in Seq(Lines) : Given = D \o todo /\ Counted(D)
    BY <1>1, <1>2 DEF Matching
<1>5. Counted(D)'
    BY <1>1, <1>4, CountedStays
<1>6. UNCHANGED <<AnyFailed, AnyAnswer>>
    BY <1>1 DEF AnyFailed, AnyAnswer
<1>7. Given' = Given
    BY <1>1 DEF Given
<1>8. Rest' = Rest
    BY <1>1 DEF Conversion!Empty, Conversion!Nothing
<1>9. stage' = "done" => result' = Rest'
    BY <1>1, <1>3, <1>8
<1>10. stage' \notin {"scan", "local"} => todo' = <<>>
    BY <1>1, <1>3
<1> QED
    BY <1>1, <1>3, <1>4, <1>5, <1>6, <1>7, <1>9, <1>10 DEF Matching

LEMMA StepMatches ==
  ASSUME Matching, [Conversion!Next]_Conversion!vars
  PROVE  Matching'
<1>1. CASE Conversion!Close \/ Conversion!Break
    BY <1>1 DEF Conversion!Close, Conversion!Break, Matching
<1> QED
    BY <1>1, FetchMatches, ScanMatches, LocalMatches, OthersMatch DEF Conversion!Next

LEMMA MatchingIsParse ==
  ASSUME Matching
  PROVE  Conversion!SameAsParse
<1>1. SUFFICES ASSUME stage = "done"
               PROVE  result = Conversion!Parse /\ incomplete = \E i \in DOMAIN answers : answers[i].status # "ok"
    BY DEF Conversion!SameAsParse
<1>2. incomplete \in BOOLEAN /\ (incomplete <=> AnyFailed) /\ todo = <<>>
      /\ (hasBody <=> local # <<>> \/ AnyAnswer)
      /\ result = IF Conversion!Empty THEN Conversion!Nothing
                  ELSE [total |-> total, selected |-> parts["supported"],
                        unsupported |-> parts["unsupported"], excluded |-> parts["excluded"], blank |-> FALSE]
    BY <1>1 DEF Matching
<1>3. PICK D \in Seq(Lines) : Given = D \o todo /\ Counted(D)
    BY <1>1 DEF Matching
<1>4. Received \o local = D
    <2>1. Given = Received \o local
        BY <1>1 DEF Given, Received
    <2>2. D \o <<>> = D
        BY ConcatEmptySeq
    <2> QED
        BY <1>2, <1>3, <2>1, <2>2
<1> DEFINE any == local # <<>> \/ \E i \in DOMAIN answers :
                      answers[i].status = "404" \/ Conversion!BodyOf(answers[i]) # <<>>
<1>5. any <=> hasBody
    BY <1>2 DEF AnyAnswer, Some
<1>6. Conversion!Parse = Conversion!Parsed(D, any)
    BY <1>4 DEF Conversion!Parse, Received
<1> HIDE DEF any
<1>7. PICK c : c = Conversion!Those(D, Conversion!Chosen)
    OBVIOUS
<1>8. c = <<>> <=> selected = 0
    <2>1. c \in Seq(Lines)
        BY <1>7, ThoseFacts
    <2>2. selected = Len(c)
        BY <1>3, <1>7 DEF Counted
    <2> QED
        BY <2>1, <2>2, EmptySeq
<1>9. Conversion!Parsed(D, any) =
        IF ~any \/ (target.set # "rules" /\ c = <<>>) THEN Conversion!Nothing
        ELSE [total |-> total, selected |-> parts["supported"],
              unsupported |-> parts["unsupported"], excluded |-> parts["excluded"], blank |-> FALSE]
    BY <1>3, <1>7 DEF Conversion!Parsed, Counted, Entries
<1>10. Conversion!Empty <=> ~any \/ (target.set # "rules" /\ c = <<>>)
    BY <1>5, <1>8 DEF Conversion!Empty
<1>11. result = Conversion!Parse
    BY <1>2, <1>6, <1>9, <1>10
<1>12. incomplete = \E i \in DOMAIN answers : answers[i].status # "ok"
    BY <1>2 DEF AnyFailed, Failed
<1> QED
    BY <1>11, <1>12

\* Whatever the sources answered, and whichever of them failed: what ParseStream (stream.go)
\* wrote, line by line through its files, is what Parse (parser.go) makes of the same answers
\* in memory, counts and parts alike, and it is marked incomplete when a source is missing.
THEOREM StreamedAsParsed == Conversion!Spec => []SameAsParse
<1>1. Conversion!Init => Matching
    BY MatchingInit
<1>2. Matching /\ [Conversion!Next]_Conversion!vars => Matching'
    BY StepMatches
<1>3. Matching => SameAsParse
    BY MatchingIsParse DEF SameAsParse
<1> QED
    BY <1>1, <1>2, <1>3, PTL DEF Conversion!Spec

-----------------------------------------------------------------------------
(* NodeFormats.                                                              *)

\* The names of all fields.
FieldNames == {"type", "cipher", "password", "udp", "tfo", "packet-encoding", "network", "ws-opts",
  "reality-opts", "alpn", "client-fingerprint", "tls", "servername", "sni", "skip-cert-verify", "uuid",
  "alterId", "grpc-opts", "flow", "username", "obfs", "obfs-password", "up", "down", "udp-relay-mode", "plugin"}

\* fieldsFor: the fields of every type, one by one.
LEMMA FieldsOfTypes ==
    /\ Nodes!FieldsFor("ss") = {"type", "cipher", "password", "udp", "tfo"}
    /\ Nodes!FieldsFor("anytls") = {"type", "password", "packet-encoding", "network", "reality-opts", "alpn",
            "client-fingerprint", "udp", "tfo", "tls", "servername", "sni", "skip-cert-verify"}
    /\ Nodes!FieldsFor("trojan") = {"type", "password", "network", "ws-opts", "reality-opts", "alpn",
            "client-fingerprint", "udp", "tfo", "tls", "servername", "sni", "skip-cert-verify"}
    /\ Nodes!FieldsFor("vmess") = {"type", "uuid", "cipher", "alterId", "grpc-opts", "network", "ws-opts",
            "reality-opts", "alpn", "client-fingerprint", "udp", "tfo", "tls", "servername", "sni",
              "skip-cert-verify"}
    /\ Nodes!FieldsFor("vless") = {"type", "uuid", "flow", "packet-encoding", "grpc-opts", "network", "ws-opts",
            "reality-opts", "alpn", "client-fingerprint", "udp", "tfo", "tls", "servername", "sni",
              "skip-cert-verify"}
    /\ Nodes!FieldsFor("http") = {"type", "username", "password", "tfo", "tls", "servername", "sni",
         "skip-cert-verify"}
    /\ Nodes!FieldsFor("socks5") = {"type", "username", "password", "udp", "tfo", "tls", "servername", "sni",
         "skip-cert-verify"}
    /\ Nodes!FieldsFor("hysteria2") = {"type", "password", "obfs", "obfs-password", "up", "down",
            "tls", "servername", "sni", "skip-cert-verify"}
    /\ Nodes!FieldsFor("tuic") = {"type", "uuid", "password", "alpn", "udp-relay-mode",
            "tls", "servername", "sni", "skip-cert-verify"}
  BY DEF Nodes!FieldsFor, Nodes!TlsFields, Nodes!Transports

\* The fields of all types together are those names.
LEMMA FieldsAre == Nodes!Fields = FieldNames
<1>0. /\ Nodes!FieldsFor("ss") \subseteq FieldNames
      /\ Nodes!FieldsFor("trojan") \subseteq FieldNames
      /\ Nodes!FieldsFor("vmess") \subseteq FieldNames
      /\ Nodes!FieldsFor("vless") \subseteq FieldNames
      /\ Nodes!FieldsFor("http") \subseteq FieldNames
      /\ Nodes!FieldsFor("socks5") \subseteq FieldNames
      /\ Nodes!FieldsFor("hysteria2") \subseteq FieldNames
      /\ Nodes!FieldsFor("tuic") \subseteq FieldNames
      /\ Nodes!FieldsFor("anytls") \subseteq FieldNames
  BY FieldsOfTypes DEF FieldNames
<1>1. \A t \in Nodes!Protocols : Nodes!FieldsFor(t) \subseteq FieldNames
  BY <1>0 DEF Nodes!Protocols
<1>2. Nodes!Fields \subseteq FieldNames
  <2> SUFFICES ASSUME NEW x \in Nodes!Fields PROVE x \in FieldNames
    OBVIOUS
  <2>1. x = "plugin" \/ \E t \in Nodes!Protocols : x \in Nodes!FieldsFor(t)
    BY DEF Nodes!Fields
  <2>2. "plugin" \in FieldNames
    BY DEF FieldNames
  <2>. QED
    BY <2>1, <2>2, <1>1
<1>3. \A t \in Nodes!Protocols : Nodes!FieldsFor(t) \subseteq Nodes!Fields
  BY DEF Nodes!Fields
<1>4. /\ Nodes!FieldsFor("ss") \subseteq Nodes!Fields
      /\ Nodes!FieldsFor("vmess") \subseteq Nodes!Fields
      /\ Nodes!FieldsFor("vless") \subseteq Nodes!Fields
      /\ Nodes!FieldsFor("http") \subseteq Nodes!Fields
      /\ Nodes!FieldsFor("hysteria2") \subseteq Nodes!Fields
      /\ Nodes!FieldsFor("tuic") \subseteq Nodes!Fields
  BY <1>3 DEF Nodes!Protocols
<1>5. "plugin" \in Nodes!Fields
  BY DEF Nodes!Fields
<1>6. FieldNames \subseteq Nodes!Fields
  BY <1>4, <1>5, FieldsOfTypes DEF FieldNames
<1>. QED
  BY <1>2, <1>6

\* The names of all parts of a link.
KeyNames == {"scheme", "user", "secret", "plugin", "sni", "security", "type", "path", "host", "serviceName",
  "flow", "pbk", "sid", "fp", "encryption", "alpn", "packetEncoding", "insecure", "udp", "packet_encoding",
  "xudp", "obfs", "obfs-password", "v", "id", "aid", "scy", "net", "tls"}

\* The keys of all schemes together, with the scheme and the login, are those names.
LEMMA KeysAre == Nodes!Keys = KeyNames
<1>0. /\ Nodes!KeysOf("ss") \subseteq KeyNames
      /\ Nodes!KeysOf("trojan") \subseteq KeyNames
      /\ Nodes!KeysOf("vmess") \subseteq KeyNames
      /\ Nodes!KeysOf("vless") \subseteq KeyNames
      /\ Nodes!KeysOf("http") \subseteq KeyNames
      /\ Nodes!KeysOf("socks5") \subseteq KeyNames
      /\ Nodes!KeysOf("hysteria2") \subseteq KeyNames
      /\ Nodes!KeysOf("tuic") \subseteq KeyNames
      /\ Nodes!KeysOf("anytls") \subseteq KeyNames
  BY DEF Nodes!KeysOf, KeyNames
<1>1. \A t \in Nodes!Protocols : Nodes!KeysOf(t) \subseteq KeyNames
  BY <1>0 DEF Nodes!Protocols
<1>2. Nodes!Keys \subseteq KeyNames
  <2> SUFFICES ASSUME NEW x \in Nodes!Keys PROVE x \in KeyNames
    OBVIOUS
  <2>1. x \in {"scheme", "user", "secret", "plugin"} \/ \E t \in Nodes!Protocols : x \in Nodes!KeysOf(t)
    BY DEF Nodes!Keys
  <2>2. {"scheme", "user", "secret", "plugin"} \subseteq KeyNames
    BY DEF KeyNames
  <2>. QED
    BY <2>1, <2>2, <1>1
<1>3. \A t \in Nodes!Protocols : Nodes!KeysOf(t) \subseteq Nodes!Keys
  BY DEF Nodes!Keys
<1>4. /\ Nodes!KeysOf("vless") \subseteq Nodes!Keys
      /\ Nodes!KeysOf("trojan") \subseteq Nodes!Keys
      /\ Nodes!KeysOf("anytls") \subseteq Nodes!Keys
      /\ Nodes!KeysOf("hysteria2") \subseteq Nodes!Keys
      /\ Nodes!KeysOf("vmess") \subseteq Nodes!Keys
  BY <1>3 DEF Nodes!Protocols
<1>5. {"scheme", "user", "secret", "plugin"} \subseteq Nodes!Keys
  BY DEF Nodes!Keys
<1>6. KeyNames \subseteq Nodes!Keys
  BY <1>4, <1>5 DEF KeyNames, Nodes!KeysOf
<1>. QED
  BY <1>2, <1>6

\* toURI: every part of a link but a VMess one, one by one.
LEMMA LinkAt ==
  ASSUME NEW n
  PROVE  /\ Nodes!Link(n)["scheme"] = IF n["type"] = "http" /\ Nodes!Secure(n) THEN "https" ELSE n["type"]
         /\ Nodes!Link(n)["user"] = Nodes!User(n)
         /\ Nodes!Link(n)["secret"] = Nodes!Secret(n)
         /\ Nodes!Link(n)["plugin"] = Nodes!None
         /\ Nodes!Link(n)["sni"] = Nodes!Said(Nodes!ServerName(n))
         /\ Nodes!Link(n)["security"] = Nodes!Opt((n["type"] \in Nodes!Streams) /\ Nodes!Secure(n),
              IF Nodes!Has(n, "reality-opts") THEN "reality" ELSE "tls")
         /\ Nodes!Link(n)["type"] = Nodes!Opt((n["type"] \in Nodes!Streams) /\ Nodes!Transport(n) # "tcp",
              Nodes!Transport(n))
         /\ Nodes!Link(n)["path"] = Nodes!Opt((n["type"] \in Nodes!Streams) /\ Nodes!Transport(n) = "ws",
              Nodes!WsPath(n))
         /\ Nodes!Link(n)["host"] = Nodes!Opt((n["type"] \in Nodes!Streams) /\ Nodes!Transport(n) = "ws",
              Nodes!Said(Nodes!WsHost(n)))
         /\ Nodes!Link(n)["serviceName"] = Nodes!Opt((n["type"] \in Nodes!Streams)
              /\ Nodes!Transport(n) = "grpc", Nodes!Text(n, "grpc-opts"))
         /\ Nodes!Link(n)["flow"] = n["flow"]
         /\ Nodes!Link(n)["pbk"] = Nodes!PublicKey(n)
         /\ Nodes!Link(n)["sid"] = Nodes!ShortId(n)
         /\ Nodes!Link(n)["fp"] = Nodes!Said(Nodes!Text(n, "client-fingerprint"))
         /\ Nodes!Link(n)["encryption"] = Nodes!Opt(n["type"] = "vless", "none")
         /\ Nodes!Link(n)["alpn"] = Nodes!Said(Nodes!Text(n, "alpn"))
         /\ Nodes!Link(n)["packetEncoding"] = Nodes!Said(Nodes!Text(n, "packet-encoding"))
         /\ Nodes!Link(n)["insecure"] = IF n["type"] = "anytls" THEN n["skip-cert-verify"]
              ELSE Nodes!Opt(n["type"] = "hysteria2" /\ Nodes!Flag(n, "skip-cert-verify"), "true")
         /\ Nodes!Link(n)["udp"] = Nodes!Opt(n["type"] = "anytls", n["udp"])
         /\ Nodes!Link(n)["packet_encoding"] = Nodes!None
         /\ Nodes!Link(n)["xudp"] = Nodes!None
         /\ Nodes!Link(n)["obfs"] = n["obfs"]
         /\ Nodes!Link(n)["obfs-password"] = n["obfs-password"]
         /\ Nodes!Link(n)["v"] = Nodes!None
         /\ Nodes!Link(n)["id"] = Nodes!None
         /\ Nodes!Link(n)["aid"] = Nodes!None
         /\ Nodes!Link(n)["scy"] = Nodes!None
         /\ Nodes!Link(n)["net"] = Nodes!None
         /\ Nodes!Link(n)["tls"] = Nodes!None
  BY KeysAre DEF KeyNames, Nodes!Link

\* toURI: every key of the document in a VMess link, one by one.
LEMMA VMessLinkAt ==
  ASSUME NEW n
  PROVE  /\ Nodes!VMessLink(n)["scheme"] = "vmess"
         /\ Nodes!VMessLink(n)["user"] = Nodes!None
         /\ Nodes!VMessLink(n)["secret"] = Nodes!None
         /\ Nodes!VMessLink(n)["plugin"] = Nodes!None
         /\ Nodes!VMessLink(n)["sni"] = Nodes!Said(Nodes!ServerName(n))
         /\ Nodes!VMessLink(n)["security"] = Nodes!None
         /\ Nodes!VMessLink(n)["type"] = "none"
         /\ Nodes!VMessLink(n)["path"] = IF Nodes!Transport(n) = "ws" THEN Nodes!WsPath(n)
              ELSE Nodes!Opt(Nodes!Transport(n) = "grpc", Nodes!Text(n, "grpc-opts"))
         /\ Nodes!VMessLink(n)["host"] = Nodes!Opt(Nodes!Transport(n) = "ws", Nodes!WsHost(n))
         /\ Nodes!VMessLink(n)["serviceName"] = Nodes!None
         /\ Nodes!VMessLink(n)["flow"] = Nodes!None
         /\ Nodes!VMessLink(n)["pbk"] = Nodes!None
         /\ Nodes!VMessLink(n)["sid"] = Nodes!None
         /\ Nodes!VMessLink(n)["fp"] = Nodes!None
         /\ Nodes!VMessLink(n)["encryption"] = Nodes!None
         /\ Nodes!VMessLink(n)["alpn"] = Nodes!Said(Nodes!Text(n, "alpn"))
         /\ Nodes!VMessLink(n)["packetEncoding"] = Nodes!None
         /\ Nodes!VMessLink(n)["insecure"] = Nodes!None
         /\ Nodes!VMessLink(n)["udp"] = Nodes!None
         /\ Nodes!VMessLink(n)["packet_encoding"] = Nodes!None
         /\ Nodes!VMessLink(n)["xudp"] = Nodes!None
         /\ Nodes!VMessLink(n)["obfs"] = Nodes!None
         /\ Nodes!VMessLink(n)["obfs-password"] = Nodes!None
         /\ Nodes!VMessLink(n)["v"] = "2"
         /\ Nodes!VMessLink(n)["id"] = n["uuid"]
         /\ Nodes!VMessLink(n)["aid"] = IF Nodes!Has(n, "alterId") THEN n["alterId"] ELSE "0"
         /\ Nodes!VMessLink(n)["scy"] = IF Nodes!Given(n, "cipher") THEN n["cipher"] ELSE "auto"
         /\ Nodes!VMessLink(n)["net"] = Nodes!Transport(n)
         /\ Nodes!VMessLink(n)["tls"] = IF Nodes!Secure(n) THEN "tls" ELSE Nodes!Blank
  BY KeysAre DEF KeyNames, Nodes!VMessLink

\* The empty text is none of the others.
LEMMA BlankIsOther ==
  Nodes!Blank \notin {"absent", "true", "false", "a", "b", "tcp", "ws", "grpc", "h2", "none", "path", "host",
    "both", "other",
                      "key", "id", "s", "h", "/", "/p", "bad", "chrome", "safari", "auto", "aes-128-gcm",
                        "aes-256-gcm",
                      "chacha20-poly1305", "chacha20-ietf-poly1305", "odd", "0", "4", "xtls-rprx-vision",
                        "xudp", "packetaddr",
                      "salamander", "native", "quic", "50", "tls", "reality", "2", "p", "quote", "zero",
                        "aes-128-cfb"}
  BY Zenon DEF Nodes!Blank

\* What a node is: a text or None for every field.
Node(n) ==
    /\ DOMAIN n = Nodes!Fields
    /\ n["type"] \in Nodes!Protocols
    /\ \A k \in Nodes!Fields \ {"type"} : n[k] \in Nodes!Values(k) \cup {Nodes!None}

\* What a node may say in every field.
LEMMA NodeValues ==
  ASSUME NEW n, Node(n)
  PROVE  /\ n["cipher"] \in {"auto", "aes-128-gcm", "chacha20-poly1305", "odd", "absent"}
         /\ n["password"] \in {"p", "quote", "absent"}
         /\ n["udp"] \in {"true", "false", "absent"}
         /\ n["tfo"] \in {"true", "false", "absent"}
         /\ n["packet-encoding"] \in {"xudp", "none", "odd", "absent"}
         /\ n["network"] \in {"tcp", "ws", "grpc", "h2", "absent"}
         /\ n["ws-opts"] \in {"none", "path", "host", "both", "other", "absent"}
         /\ n["reality-opts"] \in {"key", "both", "absent"}
         /\ n["alpn"] \in {"h2", "bad", "absent"}
         /\ n["client-fingerprint"] \in {"chrome", "safari", "absent"}
         /\ n["tls"] \in {"true", "false", "absent"}
         /\ n["servername"] \in {"a", "b", "absent"}
         /\ n["sni"] \in {"a", "b", "absent"}
         /\ n["skip-cert-verify"] \in {"true", "false", "absent"}
         /\ n["uuid"] \in {"p", "quote", "absent"}
         /\ n["alterId"] \in {"0", "4", "absent"}
         /\ n["grpc-opts"] \in {Nodes!Blank, "s", "absent"}
         /\ n["flow"] \in {"xtls-rprx-vision", "odd", "absent"}
         /\ n["username"] \in {"p", "quote", "absent"}
         /\ n["obfs"] \in {"salamander", "odd", "absent"}
         /\ n["obfs-password"] \in {"p", "quote", "absent"}
         /\ n["up"] \in {"50", "absent"}
         /\ n["down"] \in {"50", "absent"}
         /\ n["udp-relay-mode"] \in {"native", "odd", "absent"}
         /\ n["plugin"] \in {"p", "quote", "absent"}
  BY FieldsAre DEF FieldNames, Node, Nodes!Values, Nodes!None

\* A node that only has fields of its type has no others (only, fieldsFor).
LEMMA AbsentFields ==
  ASSUME NEW n, Node(n), Nodes!Used(n) \subseteq Nodes!FieldsFor(n["type"])
  PROVE  /\ n["type"] = "ss" => \A k \in {"packet-encoding", "network", "ws-opts", "reality-opts", "alpn",
              "client-fingerprint", "tls", "servername", "sni", "skip-cert-verify", "uuid", "alterId",
              "grpc-opts", "flow", "username", "obfs", "obfs-password", "up", "down", "udp-relay-mode",
              "plugin"} : n[k] = "absent"
         /\ n["type"] = "trojan" => \A k \in {"cipher", "packet-encoding", "uuid", "alterId", "grpc-opts",
              "flow", "username", "obfs", "obfs-password", "up", "down", "udp-relay-mode",
              "plugin"} : n[k] = "absent"
         /\ n["type"] = "vmess" => \A k \in {"password", "packet-encoding", "flow", "username", "obfs",
              "obfs-password", "up", "down", "udp-relay-mode", "plugin"} : n[k] = "absent"
         /\ n["type"] = "vless" => \A k \in {"cipher", "password", "alterId", "username", "obfs",
              "obfs-password", "up", "down", "udp-relay-mode", "plugin"} : n[k] = "absent"
         /\ n["type"] = "http" => \A k \in {"cipher", "udp", "packet-encoding", "network", "ws-opts",
              "reality-opts", "alpn", "client-fingerprint", "uuid", "alterId", "grpc-opts", "flow", "obfs",
              "obfs-password", "up", "down", "udp-relay-mode", "plugin"} : n[k] = "absent"
         /\ n["type"] = "socks5" => \A k \in {"cipher", "packet-encoding", "network", "ws-opts", "reality-opts",
              "alpn", "client-fingerprint", "uuid", "alterId", "grpc-opts", "flow", "obfs", "obfs-password",
              "up", "down", "udp-relay-mode", "plugin"} : n[k] = "absent"
         /\ n["type"] = "hysteria2" => \A k \in {"cipher", "udp", "tfo", "packet-encoding", "network",
              "ws-opts", "reality-opts", "alpn", "client-fingerprint", "uuid", "alterId", "grpc-opts", "flow",
              "username", "udp-relay-mode", "plugin"} : n[k] = "absent"
         /\ n["type"] = "tuic" => \A k \in {"cipher", "udp", "tfo", "packet-encoding", "network", "ws-opts",
              "reality-opts", "client-fingerprint", "alterId", "grpc-opts", "flow", "username", "obfs",
              "obfs-password", "up", "down", "plugin"} : n[k] = "absent"
         /\ n["type"] = "anytls" => \A k \in {"cipher", "ws-opts", "uuid", "alterId", "grpc-opts", "flow",
              "username", "obfs", "obfs-password", "up", "down", "udp-relay-mode", "plugin"} : n[k] = "absent"
<1>0. \A k \in FieldNames : k \notin Nodes!FieldsFor(n["type"]) => n[k] = "absent"
  BY FieldsAre DEF Node, Nodes!Used, Nodes!Has, Nodes!None
<1>. QED
  BY <1>0, FieldsOfTypes DEF FieldNames

\* parseURI: every field of the node that is read from an accepted link, one by one.
LEMMA FromURIAt ==
  ASSUME NEW q, Nodes!QueryOk(q)
  PROVE  /\ Nodes!FromURI(q)["type"] = IF q["scheme"] = "https" THEN "http" ELSE q["scheme"]
         /\ Nodes!FromURI(q)["cipher"] = Nodes!Opt(q["scheme"] = "ss", Nodes!Text(q, "user"))
         /\ Nodes!FromURI(q)["password"] = CASE q["scheme"] \in Nodes!AlwaysSecure -> Nodes!Text(q, "user")
              [] q["scheme"] = "vless" -> Nodes!None [] OTHER -> q["secret"]
         /\ Nodes!FromURI(q)["udp"] = Nodes!Settled(q, Nodes!Text(q, "udp"), "true")
         /\ Nodes!FromURI(q)["tfo"] = Nodes!None
         /\ Nodes!FromURI(q)["packet-encoding"] = IF Nodes!Encodings(q) = {} THEN Nodes!None
              ELSE CHOOSE e \in Nodes!Encodings(q) : TRUE
         /\ Nodes!FromURI(q)["network"] = Nodes!Opt(Nodes!Text(q, "type") # "tcp", Nodes!Said(Nodes!Text(q,
              "type")))
         /\ Nodes!FromURI(q)["ws-opts"] = Nodes!Opt(q["type"] = "ws", Nodes!WsOf(Nodes!Text(q, "path"),
              Nodes!Text(q, "host")))
         /\ Nodes!FromURI(q)["reality-opts"] = Nodes!Opt(q["security"] = "reality", IF Nodes!Given(q, "sid")
              THEN "both" ELSE "key")
         /\ Nodes!FromURI(q)["alpn"] = Nodes!Said(Nodes!Text(q, "alpn"))
         /\ Nodes!FromURI(q)["client-fingerprint"] = Nodes!Said(Nodes!Text(q, "fp"))
         /\ Nodes!FromURI(q)["tls"] = Nodes!Tls(q)
         /\ Nodes!FromURI(q)["servername"] = Nodes!Said(Nodes!Text(q, "sni"))
         /\ Nodes!FromURI(q)["sni"] = Nodes!None
         /\ Nodes!FromURI(q)["skip-cert-verify"] = Nodes!Settled(q, Nodes!Text(q, "insecure"),
              Nodes!Opt(Nodes!Tls(q) = "true", "false"))
         /\ Nodes!FromURI(q)["uuid"] = Nodes!Opt(q["scheme"] = "vless", Nodes!Text(q, "user"))
         /\ Nodes!FromURI(q)["alterId"] = Nodes!None
         /\ Nodes!FromURI(q)["grpc-opts"] = Nodes!Opt(q["type"] = "grpc", Nodes!Text(q, "serviceName"))
         /\ Nodes!FromURI(q)["flow"] = Nodes!Said(Nodes!Text(q, "flow"))
         /\ Nodes!FromURI(q)["username"] = Nodes!Opt(q["scheme"] \in {"http", "https", "socks5"},
              Nodes!Said(Nodes!Text(q, "user")))
         /\ Nodes!FromURI(q)["obfs"] = Nodes!Said(Nodes!Text(q, "obfs"))
         /\ Nodes!FromURI(q)["obfs-password"] = Nodes!Said(Nodes!Text(q, "obfs-password"))
         /\ Nodes!FromURI(q)["up"] = Nodes!None
         /\ Nodes!FromURI(q)["down"] = Nodes!None
         /\ Nodes!FromURI(q)["udp-relay-mode"] = Nodes!None
         /\ Nodes!FromURI(q)["plugin"] = Nodes!None
  BY FieldsAre DEF FieldNames, Nodes!FromURI

\* parseVMess: every field of the node that is read from an accepted document, one by one.
LEMMA FromVMessAt ==
  ASSUME NEW q, Nodes!VMessOk(q)
  PROVE  /\ Nodes!FromVMess(q)["type"] = "vmess"
         /\ Nodes!FromVMess(q)["cipher"] = q["scy"]
         /\ Nodes!FromVMess(q)["password"] = Nodes!None
         /\ Nodes!FromVMess(q)["udp"] = Nodes!None
         /\ Nodes!FromVMess(q)["tfo"] = Nodes!None
         /\ Nodes!FromVMess(q)["packet-encoding"] = Nodes!None
         /\ Nodes!FromVMess(q)["network"] = Nodes!Opt(Nodes!Text(q, "net") # "tcp", Nodes!Said(Nodes!Text(q,
              "net")))
         /\ Nodes!FromVMess(q)["ws-opts"] = Nodes!Opt(q["net"] = "ws", Nodes!WsOf(Nodes!Text(q, "path"),
              Nodes!Text(q, "host")))
         /\ Nodes!FromVMess(q)["reality-opts"] = Nodes!None
         /\ Nodes!FromVMess(q)["alpn"] = Nodes!Said(Nodes!Text(q, "alpn"))
         /\ Nodes!FromVMess(q)["client-fingerprint"] = Nodes!Said(Nodes!Text(q, "fp"))
         /\ Nodes!FromVMess(q)["tls"] = Nodes!Opt(q["tls"] = "tls", "true")
         /\ Nodes!FromVMess(q)["servername"] = Nodes!Said(Nodes!Text(q, "sni"))
         /\ Nodes!FromVMess(q)["sni"] = Nodes!None
         /\ Nodes!FromVMess(q)["skip-cert-verify"] = Nodes!None
         /\ Nodes!FromVMess(q)["uuid"] = Nodes!Text(q, "id")
         /\ Nodes!FromVMess(q)["alterId"] = q["aid"]
         /\ Nodes!FromVMess(q)["grpc-opts"] = Nodes!Opt(q["net"] = "grpc", Nodes!Text(q, "path"))
         /\ Nodes!FromVMess(q)["flow"] = Nodes!None
         /\ Nodes!FromVMess(q)["username"] = Nodes!None
         /\ Nodes!FromVMess(q)["obfs"] = Nodes!None
         /\ Nodes!FromVMess(q)["obfs-password"] = Nodes!None
         /\ Nodes!FromVMess(q)["up"] = Nodes!None
         /\ Nodes!FromVMess(q)["down"] = Nodes!None
         /\ Nodes!FromVMess(q)["udp-relay-mode"] = Nodes!None
         /\ Nodes!FromVMess(q)["plugin"] = Nodes!None
  BY FieldsAre DEF FieldNames, Nodes!FromVMess

\* A link has a text or None for every part.
LEMMA LinkDomain ==
  ASSUME NEW n
  PROVE  DOMAIN Nodes!Link(n) = KeyNames
<1>1. DOMAIN Nodes!Link(n) = Nodes!Keys
  BY DEF Nodes!Link
<1>. QED
  BY <1>1, KeysAre

\* The optional fields a node may have to be written as a link (toURI).
LEMMA PortableOnly ==
  ASSUME NEW n, Node(n), Nodes!Portable(n)
  PROVE  /\ Nodes!Used(n) \subseteq Nodes!FieldsFor(n["type"])
         /\ n["tfo"] = "absent"
         /\ n["type"] # "tuic"
         /\ n["type"] \notin {"vless", "anytls"} => n["udp"] = "absent"
         /\ n["type"] = "vless" => n["udp"] \in {"absent", "true"}
         /\ n["type"] \notin {"hysteria2", "anytls"} => n["skip-cert-verify"] # "true"
<1>1. Nodes!Exportable(n) /\ n["type"] # "tuic"
  BY DEF Nodes!Portable
<1>2. ~Nodes!Has(n, "tfo")
  BY DEF Nodes!Portable
<1>3. Nodes!Has(n, "udp") => n["type"] = "anytls" \/ (n["type"] = "vless" /\ Nodes!Flag(n, "udp"))
  BY DEF Nodes!Portable
<1>4. Nodes!Flag(n, "skip-cert-verify") => n["type"] \in {"hysteria2", "anytls"}
  BY DEF Nodes!Portable
<1>5. Nodes!Used(n) \subseteq Nodes!FieldsFor(n["type"])
  BY <1>1 DEF Nodes!Exportable
<1>. QED
  BY <1>1, <1>2, <1>3, <1>4, <1>5 DEF Nodes!Has, Nodes!None, Nodes!Flag

\* The transports a node may have to be written as a link, and what goes with each.
LEMMA PortableTransport ==
  ASSUME NEW n, Node(n), Nodes!Portable(n)
  PROVE  /\ Nodes!Transport(n) \in {"tcp", "ws", "grpc"}
         /\ n["type"] = "anytls" => Nodes!Transport(n) = "tcp"
         /\ n["type"] = "trojan" => Nodes!Transport(n) # "grpc"
         /\ n["ws-opts"] # "absent" => Nodes!Transport(n) = "ws"
         /\ n["grpc-opts"] # "absent" => Nodes!Transport(n) = "grpc"
         /\ n["type"] \in {"vless", "vmess"} /\ Nodes!Transport(n) = "grpc" => n["grpc-opts"] # "absent"
         /\ n["type"] \in Nodes!Streams \cup {"vmess"} => Nodes!HostOnly(n)
<1>1. Nodes!Exportable(n)
  BY DEF Nodes!Portable
<1>2. /\ n["type"] = "anytls" => Nodes!Transport(n) = "tcp"
      /\ Nodes!Transport(n) \in {"tcp", "ws", "grpc"}
      /\ Nodes!Has(n, "ws-opts") => Nodes!Transport(n) = "ws"
      /\ Nodes!Has(n, "grpc-opts") => Nodes!Transport(n) = "grpc"
  BY <1>1 DEF Nodes!Exportable
<1>3. n["type"] = "vmess" =>
        /\ Nodes!HostOnly(n)
        /\ Nodes!Transport(n) = "grpc" => Nodes!Has(n, "grpc-opts")
  BY DEF Nodes!Portable
<1>4. n["type"] \in Nodes!Streams =>
        /\ Nodes!HostOnly(n)
        /\ Nodes!Transport(n) = "grpc" => n["type"] # "trojan" /\ Nodes!Has(n, "grpc-opts")
  BY DEF Nodes!Portable
<1>. QED
  BY <1>2, <1>3, <1>4 DEF Nodes!Has, Nodes!None, Nodes!Streams

\* What a node may say of TLS to be written as a link, and what it must say.
LEMMA PortableTls ==
  ASSUME NEW n, Node(n), Nodes!Portable(n)
  PROVE  /\ n["type"] \in {"http", "socks5"} => Nodes!ServerName(n) = Nodes!Blank
              /\ n["skip-cert-verify"] = "absent"
         /\ n["type"] = "socks5" => ~Nodes!Secure(n)
         /\ n["type"] \in Nodes!AlwaysSecure => n["tls"] # "false"
         /\ n["type"] = "hysteria2" => n["up"] = "absent" /\ n["down"] = "absent"
         /\ n["type"] = "vmess" => n["reality-opts"] = "absent" /\ n["client-fingerprint"] = "absent"
         /\ n["reality-opts"] # "absent" => Nodes!Secure(n)
         /\ Nodes!Validated(n)
         /\ n["alpn"] # "bad"
         /\ n["packet-encoding"] \in {"absent", "none", "xudp"}
<1>1. Nodes!Exportable(n)
  BY DEF Nodes!Portable
<1>2. /\ n["type"] \in {"http", "socks5"} => Nodes!ServerName(n) = Nodes!Blank /\ ~Nodes!Has(n,
           "skip-cert-verify")
      /\ n["type"] = "socks5" => ~Nodes!Secure(n)
  BY DEF Nodes!Portable
<1>3. n["type"] = "hysteria2" => ~Nodes!Has(n, "up") /\ ~Nodes!Has(n, "down")
  BY DEF Nodes!Portable
<1>4. n["type"] = "vmess" => ~Nodes!Has(n, "reality-opts") /\ ~Nodes!Has(n, "client-fingerprint")
  BY DEF Nodes!Portable
<1>5. /\ Nodes!Validated(n)
      /\ n["type"] \in Nodes!AlwaysSecure => n["tls"] # "false"
  BY <1>1 DEF Nodes!Exportable
<1>6. Nodes!Has(n, "reality-opts") => Nodes!Secure(n)
  BY <1>1 DEF Nodes!Exportable, Nodes!RealityOk
<1>7. Nodes!Text(n, "alpn") # "bad"
  BY <1>1 DEF Nodes!Exportable
<1>8. Nodes!Has(n, "packet-encoding") => n["packet-encoding"] \in {"none", "xudp", "packetaddr"}
  BY <1>1 DEF Nodes!Exportable
<1>9. n["packet-encoding"] \in {"absent", "none", "xudp"}
  BY <1>8, NodeValues DEF Nodes!Has, Nodes!None
<1>10. n["alpn"] # "bad"
  BY <1>7 DEF Nodes!Has, Nodes!None, Nodes!Text
<1>. QED
  BY <1>2, <1>3, <1>4, <1>5, <1>6, <1>9, <1>10 DEF Nodes!Has, Nodes!None

\* The link of a Shadowsocks node has only parts that parseURI knows for its scheme.
LEMMA UsedSs ==
  ASSUME NEW n, Node(n), Nodes!Portable(n), n["type"] = "ss", NEW q, q = Nodes!Link(n)
  PROVE  Nodes!Used(q) \subseteq Nodes!KeysOf(q["scheme"]) \cup {"scheme", "user", "secret"}
<1>1. \A k \in {"udp", "tfo", "packet-encoding", "network", "ws-opts", "reality-opts", "alpn",
        "client-fingerprint", "tls", "servername", "sni", "skip-cert-verify", "uuid", "alterId", "grpc-opts",
        "flow", "username", "obfs", "obfs-password", "up", "down", "udp-relay-mode", "plugin"} : n[k] = "absent"
  BY PortableOnly, AbsentFields
<1>2. \A k \in {"plugin", "sni", "security", "type", "path", "host", "serviceName", "flow", "pbk", "sid", "fp",
        "encryption", "alpn", "packetEncoding", "insecure", "udp", "packet_encoding", "xudp", "obfs",
        "obfs-password", "v", "id", "aid", "scy", "net", "tls"} : q[k] = "absent"
  BY <1>1, LinkAt DEF Nodes!Has, Nodes!None, Nodes!Opt, Nodes!PublicKey, Nodes!Said, Nodes!ServerName,
     Nodes!ShortId, Nodes!Streams, Nodes!Text
<1>3. q["scheme"] \in {"ss"}
  BY LinkAt
<1>4. \A k \in KeyNames : q[k] # "absent" => k \in {"scheme", "user", "secret"}
  BY <1>2 DEF KeyNames
<1>5. Nodes!KeysOf(q["scheme"]) = {}
  BY <1>3 DEF Nodes!KeysOf
<1>. QED
  BY <1>4, <1>5, LinkDomain DEF Nodes!Used, Nodes!Has, Nodes!None

\* The link of a Trojan node has only parts that parseURI knows for its scheme.
LEMMA UsedTrojan ==
  ASSUME NEW n, Node(n), Nodes!Portable(n), n["type"] = "trojan", NEW q, q = Nodes!Link(n)
  PROVE  Nodes!Used(q) \subseteq Nodes!KeysOf(q["scheme"]) \cup {"scheme", "user", "secret"}
<1>1. \A k \in {"cipher", "udp", "tfo", "packet-encoding", "uuid", "alterId", "grpc-opts", "flow", "username",
        "obfs", "obfs-password", "up", "down", "udp-relay-mode", "plugin"} : n[k] = "absent"
  BY PortableOnly, AbsentFields
<1>0. Nodes!Transport(n) # "grpc"
  BY PortableTransport, PortableTls
<1>2. \A k \in {"plugin", "serviceName", "flow", "encryption", "packetEncoding", "insecure", "udp",
        "packet_encoding", "xudp", "obfs", "obfs-password", "v", "id", "aid", "scy", "net",
        "tls"} : q[k] = "absent"
  BY <1>1, <1>0, LinkAt DEF Nodes!Has, Nodes!None, Nodes!Opt, Nodes!Said, Nodes!Text, Nodes!Streams
<1>3. q["scheme"] \in {"trojan"}
  BY LinkAt
<1>4. \A k \in KeyNames : q[k] # "absent" => k \in {"sni", "security", "type", "path", "host", "pbk", "sid",
        "fp", "alpn", "scheme", "user", "secret"}
  BY <1>2 DEF KeyNames
<1>5. Nodes!KeysOf(q["scheme"]) = {"sni", "security", "type", "path", "host", "pbk", "sid", "fp", "alpn"}
  BY <1>3 DEF Nodes!KeysOf
<1>. QED
  BY <1>4, <1>5, LinkDomain DEF Nodes!Used, Nodes!Has, Nodes!None

\* The link of a VLESS node has only parts that parseURI knows for its scheme.
LEMMA UsedVless ==
  ASSUME NEW n, Node(n), Nodes!Portable(n), n["type"] = "vless", NEW q, q = Nodes!Link(n)
  PROVE  Nodes!Used(q) \subseteq Nodes!KeysOf(q["scheme"]) \cup {"scheme", "user", "secret"}
<1>1. \A k \in {"cipher", "password", "tfo", "alterId", "username", "obfs", "obfs-password", "up", "down",
        "udp-relay-mode", "plugin"} : n[k] = "absent"
  BY PortableOnly, AbsentFields
<1>2. \A k \in {"plugin", "insecure", "udp", "packet_encoding", "xudp", "obfs", "obfs-password", "v", "id",
        "aid", "scy", "net", "tls"} : q[k] = "absent"
  BY <1>1, LinkAt DEF Nodes!Has, Nodes!None, Nodes!Opt, Nodes!Said, Nodes!Text, Nodes!Streams
<1>3. q["scheme"] \in {"vless"}
  BY LinkAt
<1>4. \A k \in KeyNames : q[k] # "absent" => k \in {"sni", "security", "type", "path", "host", "serviceName",
        "flow", "pbk", "sid", "fp", "encryption", "alpn", "packetEncoding", "scheme", "user", "secret"}
  BY <1>2 DEF KeyNames
<1>5. Nodes!KeysOf(q["scheme"]) = {"sni", "security", "type", "path", "host", "serviceName", "flow", "pbk",
        "sid", "fp", "encryption", "alpn", "packetEncoding"}
  BY <1>3 DEF Nodes!KeysOf
<1>. QED
  BY <1>4, <1>5, LinkDomain DEF Nodes!Used, Nodes!Has, Nodes!None

\* The link of an AnyTLS node without Reality has only parts that parseURI knows for its scheme.
LEMMA UsedAnytls ==
  ASSUME NEW n, Node(n), Nodes!Portable(n), n["type"] = "anytls", n["reality-opts"] = "absent", NEW q,
         q = Nodes!Link(n)
  PROVE  Nodes!Used(q) \subseteq Nodes!KeysOf(q["scheme"]) \cup {"scheme", "user", "secret"}
<1>1. \A k \in {"cipher", "tfo", "ws-opts", "uuid", "alterId", "grpc-opts", "flow", "username", "obfs",
        "obfs-password", "up", "down", "udp-relay-mode", "plugin"} : n[k] = "absent"
  BY PortableOnly, AbsentFields
<1>0. Nodes!Transport(n) = "tcp"
  BY PortableTransport, PortableTls
<1>2. \A k \in {"plugin", "path", "host", "serviceName", "flow", "pbk", "sid", "encryption", "obfs",
        "obfs-password", "v", "id", "aid", "scy", "net", "tls"} : q[k] = "absent"
  BY <1>0, <1>1, LinkAt DEF Nodes!Has, Nodes!None, Nodes!Opt, Nodes!PublicKey, Nodes!Said, Nodes!ShortId,
     Nodes!Streams, Nodes!Text
<1>3. q["scheme"] \in {"anytls"}
  BY LinkAt
<1>4. \A k \in KeyNames : q[k] # "absent" => k \in {"sni", "security", "type", "insecure", "udp",
        "packetEncoding", "packet_encoding", "xudp", "alpn", "fp", "scheme", "user", "secret"}
  BY <1>2 DEF KeyNames
<1>5. Nodes!KeysOf(q["scheme"]) = {"sni", "security", "type", "insecure", "udp", "packetEncoding",
        "packet_encoding", "xudp", "alpn", "fp"}
  BY <1>3 DEF Nodes!KeysOf
<1>. QED
  BY <1>4, <1>5, LinkDomain DEF Nodes!Used, Nodes!Has, Nodes!None

\* The link of an HTTP proxy has only parts that parseURI knows for its scheme.
LEMMA UsedHttp ==
  ASSUME NEW n, Node(n), Nodes!Portable(n), n["type"] = "http", NEW q, q = Nodes!Link(n)
  PROVE  Nodes!Used(q) \subseteq Nodes!KeysOf(q["scheme"]) \cup {"scheme", "user", "secret"}
<1>1. \A k \in {"cipher", "udp", "tfo", "packet-encoding", "network", "ws-opts", "reality-opts", "alpn",
        "client-fingerprint", "uuid", "alterId", "grpc-opts", "flow", "obfs", "obfs-password", "up", "down",
        "udp-relay-mode", "plugin"} : n[k] = "absent"
  BY PortableOnly, AbsentFields
<1>0. Nodes!ServerName(n) = Nodes!Blank
  BY PortableTransport, PortableTls
<1>2. \A k \in {"plugin", "sni", "security", "type", "path", "host", "serviceName", "flow", "pbk", "sid", "fp",
        "encryption", "alpn", "packetEncoding", "insecure", "udp", "packet_encoding", "xudp", "obfs",
        "obfs-password", "v", "id", "aid", "scy", "net", "tls"} : q[k] = "absent"
  BY <1>0, <1>1, LinkAt DEF Nodes!Has, Nodes!None, Nodes!Opt, Nodes!PublicKey, Nodes!Said, Nodes!ShortId,
     Nodes!Streams, Nodes!Text
<1>3. q["scheme"] \in {"http", "https"}
  BY LinkAt
<1>4. \A k \in KeyNames : q[k] # "absent" => k \in {"scheme", "user", "secret"}
  BY <1>2 DEF KeyNames
<1>5. Nodes!KeysOf(q["scheme"]) = {}
  BY <1>3 DEF Nodes!KeysOf
<1>. QED
  BY <1>4, <1>5, LinkDomain DEF Nodes!Used, Nodes!Has, Nodes!None

\* The link of a SOCKS5 proxy has only parts that parseURI knows for its scheme.
LEMMA UsedSocks5 ==
  ASSUME NEW n, Node(n), Nodes!Portable(n), n["type"] = "socks5", NEW q, q = Nodes!Link(n)
  PROVE  Nodes!Used(q) \subseteq Nodes!KeysOf(q["scheme"]) \cup {"scheme", "user", "secret"}
<1>1. \A k \in {"cipher", "udp", "tfo", "packet-encoding", "network", "ws-opts", "reality-opts", "alpn",
        "client-fingerprint", "uuid", "alterId", "grpc-opts", "flow", "obfs", "obfs-password", "up", "down",
        "udp-relay-mode", "plugin"} : n[k] = "absent"
  BY PortableOnly, AbsentFields
<1>0. Nodes!ServerName(n) = Nodes!Blank
  BY PortableTransport, PortableTls
<1>2. \A k \in {"plugin", "sni", "security", "type", "path", "host", "serviceName", "flow", "pbk", "sid", "fp",
        "encryption", "alpn", "packetEncoding", "insecure", "udp", "packet_encoding", "xudp", "obfs",
        "obfs-password", "v", "id", "aid", "scy", "net", "tls"} : q[k] = "absent"
  BY <1>0, <1>1, LinkAt DEF Nodes!Has, Nodes!None, Nodes!Opt, Nodes!PublicKey, Nodes!Said, Nodes!ShortId,
     Nodes!Streams, Nodes!Text
<1>3. q["scheme"] \in {"socks5"}
  BY LinkAt
<1>4. \A k \in KeyNames : q[k] # "absent" => k \in {"scheme", "user", "secret"}
  BY <1>2 DEF KeyNames
<1>5. Nodes!KeysOf(q["scheme"]) = {}
  BY <1>3 DEF Nodes!KeysOf
<1>. QED
  BY <1>4, <1>5, LinkDomain DEF Nodes!Used, Nodes!Has, Nodes!None

\* The link of a Hysteria2 node has only parts that parseURI knows for its scheme.
LEMMA UsedHysteria2 ==
  ASSUME NEW n, Node(n), Nodes!Portable(n), n["type"] = "hysteria2", NEW q, q = Nodes!Link(n)
  PROVE  Nodes!Used(q) \subseteq Nodes!KeysOf(q["scheme"]) \cup {"scheme", "user", "secret"}
<1>1. \A k \in {"cipher", "udp", "tfo", "packet-encoding", "network", "ws-opts", "reality-opts", "alpn",
        "client-fingerprint", "uuid", "alterId", "grpc-opts", "flow", "username", "udp-relay-mode",
        "plugin"} : n[k] = "absent"
  BY PortableOnly, AbsentFields
<1>2. \A k \in {"plugin", "security", "type", "path", "host", "serviceName", "flow", "pbk", "sid", "fp",
        "encryption", "alpn", "packetEncoding", "udp", "packet_encoding", "xudp", "v", "id", "aid", "scy",
        "net", "tls"} : q[k] = "absent"
  BY <1>1, LinkAt DEF Nodes!Has, Nodes!None, Nodes!Opt, Nodes!PublicKey, Nodes!Said, Nodes!ShortId,
     Nodes!Streams, Nodes!Text
<1>3. q["scheme"] \in {"hysteria2"}
  BY LinkAt
<1>4. \A k \in KeyNames : q[k] # "absent" => k \in {"sni", "insecure", "obfs", "obfs-password", "scheme",
        "user", "secret"}
  BY <1>2 DEF KeyNames
<1>5. Nodes!KeysOf(q["scheme"]) = {"sni", "insecure", "obfs", "obfs-password"}
  BY <1>3 DEF Nodes!KeysOf
<1>. QED
  BY <1>4, <1>5, LinkDomain DEF Nodes!Used, Nodes!Has, Nodes!None

\* A link that is written asks for at most one packet encoding.
LEMMA LinkEncodings ==
  ASSUME NEW n, Node(n), Nodes!Portable(n), NEW q, q = Nodes!Link(n)
  PROVE  /\ Nodes!Encodings(q) = {Nodes!Text(n, "packet-encoding")} \ {Nodes!Blank}
         /\ \A e \in Nodes!Encodings(q) :
               e \in {"none", "xudp", "packetaddr"} /\ \A d \in Nodes!Encodings(q) : d = e
<1>1. /\ q["xudp"] = "absent" /\ q["packet_encoding"] = "absent"
      /\ q["packetEncoding"] = Nodes!Said(Nodes!Text(n, "packet-encoding"))
  BY LinkAt DEF Nodes!None
<1>2. n["packet-encoding"] \in {"absent", "none", "xudp"}
  BY PortableTls
<1>3. Nodes!Text(q, "packetEncoding") = Nodes!Text(n, "packet-encoding")
  BY <1>1, <1>2, BlankIsOther DEF Nodes!Text, Nodes!Has, Nodes!None, Nodes!Said, Nodes!Opt
<1>4. Nodes!Encodings(q) = {Nodes!Text(n, "packet-encoding")} \ {Nodes!Blank}
  BY <1>1, <1>3, BlankIsOther DEF Nodes!Text, Nodes!Has, Nodes!None, Nodes!Encodings
<1>5. Nodes!Text(n, "packet-encoding") \in {Nodes!Blank, "none", "xudp"}
  BY <1>2 DEF Nodes!Text, Nodes!Has, Nodes!None
<1>. QED
  BY <1>4, <1>5

\* A link that is written is accepted by parseURI, unless it is AnyTLS with Reality.
LEMMA LinkAccepted ==
  ASSUME NEW n, Node(n), Nodes!Portable(n), n["type"] # "vmess", NEW q, q = Nodes!Link(n),
         ~(n["type"] = "anytls" /\ n["reality-opts"] # "absent")
  PROVE  Nodes!QueryOk(q)
<1>0. n["type"] \in {"ss", "trojan", "vless", "anytls", "http", "socks5", "hysteria2"}
  BY PortableOnly DEF Node, Nodes!Protocols
<1>1. /\ q["scheme"] \in {"ss", "trojan", "vless", "http", "https", "socks5", "hysteria2", "anytls"}
      /\ n["type"] # "http" => q["scheme"] = n["type"]
      /\ n["type"] = "http" => q["scheme"] \in {"http", "https"}
  BY <1>0, LinkAt
<1>2. Nodes!Used(q) \subseteq Nodes!KeysOf(q["scheme"]) \cup {"scheme", "user", "secret"}
  BY <1>0, UsedSs, UsedTrojan, UsedVless, UsedAnytls, UsedHttp, UsedSocks5, UsedHysteria2
<1>3. q["scheme"] \in Nodes!AlwaysSecure => ~Nodes!Has(q, "secret")
  BY <1>0, <1>1, LinkAt DEF Nodes!AlwaysSecure, Nodes!Secret, Nodes!Login, Nodes!Opt, Nodes!Has
<1>4. q["scheme"] = "ss" => Nodes!Has(q, "secret")
  <2>1. n["type"] = "ss" => Nodes!Given(n, "password")
    BY PortableTls DEF Nodes!Validated, Nodes!Required
  <2>2. n["type"] = "ss" => n["password"] # "absent"
    BY <2>1 DEF Nodes!Given, Nodes!Text, Nodes!Has, Nodes!None
  <2>. QED
    BY <1>0, <1>1, <2>2, LinkAt DEF Nodes!Secret, Nodes!Has, Nodes!None
<1>5. \A e \in Nodes!Encodings(q) :
         e \in {"none", "xudp", "packetaddr"} /\ \A d \in Nodes!Encodings(q) : d = e
  BY LinkEncodings
<1>6. Nodes!Given(q, "encryption") => q["encryption"] = "none"
  BY LinkAt DEF Nodes!Given, Nodes!Opt, Nodes!Text, Nodes!Has, Nodes!None
<1>7. Nodes!Given(q, "security") => q["security"] \in {"none", "tls", "reality"}
  BY LinkAt DEF Nodes!Given, Nodes!Opt, Nodes!Text, Nodes!Has, Nodes!None
<1>8. /\ q["security"] = "reality" => Nodes!Given(q, "pbk")
      /\ q["security"] # "reality" => ~Nodes!Given(q, "pbk") /\ ~Nodes!Given(q, "sid")
  <2>1. n["reality-opts"] # "absent" => Nodes!Secure(n) /\ n["type"] \in Nodes!Streams
    <3>1. n["reality-opts"] # "absent" => Nodes!Secure(n)
      BY PortableTls
    <3>2. n["reality-opts"] # "absent" => n["type"] \in Nodes!Streams
      BY <1>0, AbsentFields, PortableOnly DEF Nodes!Streams
    <3>. QED
      BY <3>1, <3>2
  <2>2. q["security"] = "reality" <=> n["reality-opts"] # "absent"
    BY <2>1, LinkAt DEF Nodes!Opt, Nodes!Has, Nodes!None
  <2>3. n["reality-opts"] # "absent" => q["pbk"] = "key"
    BY LinkAt DEF Nodes!PublicKey, Nodes!Opt, Nodes!Has, Nodes!None
  <2>4. n["reality-opts"] = "absent" => q["pbk"] = "absent" /\ q["sid"] = "absent"
    BY LinkAt DEF Nodes!PublicKey, Nodes!ShortId, Nodes!Opt, Nodes!Has, Nodes!None
  <2>. QED
    BY <2>2, <2>3, <2>4, BlankIsOther DEF Nodes!Given, Nodes!Text, Nodes!Has, Nodes!None
<1>9. q["type"] # "ws" => ~Nodes!Given(q, "path") /\ ~Nodes!Given(q, "host")
  <2>1. q["type"] # "ws" => ~Nodes!Given(q, "path")
    BY LinkAt DEF Nodes!Given, Nodes!Opt, Nodes!Text, Nodes!Has, Nodes!None
  <2>2. q["type"] # "ws" => ~Nodes!Given(q, "host")
    BY LinkAt DEF Nodes!Given, Nodes!Opt, Nodes!Text, Nodes!Has, Nodes!None
  <2>. QED
    BY <2>1, <2>2
<1>10. q["type"] # "grpc" => ~Nodes!Given(q, "serviceName")
  BY LinkAt DEF Nodes!Given, Nodes!Opt, Nodes!Text, Nodes!Has, Nodes!None
<1>. QED
  BY <1>1, <1>2, <1>3, <1>4, <1>5, <1>6, <1>7, <1>8, <1>9, <1>10 DEF Nodes!QueryOk

\* What every field of a node means, one by one.
LEMMA SenseAt ==
  ASSUME NEW t, NEW n
  PROVE  /\ Nodes!Sense(t, n, "type") = (Nodes!Text(n, "type"))
         /\ Nodes!Sense(t, n, "cipher") = (IF n["type"] = "vmess" THEN Nodes!LoonCipher(Nodes!Text(n, "cipher"))
              ELSE Nodes!Text(n, "cipher"))
         /\ Nodes!Sense(t, n, "password") = (Nodes!Text(n, "password"))
         /\ Nodes!Sense(t, n, "udp") = (IF t = "uri" /\ n["type"] \in Nodes!UdpByDefault
              THEN Nodes!Bool(n["udp"] # "false") ELSE Nodes!Bool(Nodes!Flag(n, "udp")))
         /\ Nodes!Sense(t, n, "tfo") = (Nodes!Bool(Nodes!Flag(n, "tfo")))
         /\ Nodes!Sense(t, n, "packet-encoding") = (Nodes!Text(n, "packet-encoding"))
         /\ Nodes!Sense(t, n, "network") = (Nodes!Transport(n))
         /\ Nodes!Sense(t, n, "ws-opts") = (IF ~Nodes!HostOnly(n) THEN "other" ELSE Nodes!WsOf(Nodes!WsPath(n),
              Nodes!WsHost(n)))
         /\ Nodes!Sense(t, n, "reality-opts") = (Nodes!Text(n, "reality-opts"))
         /\ Nodes!Sense(t, n, "alpn") = (Nodes!Text(n, "alpn"))
         /\ Nodes!Sense(t, n, "client-fingerprint") = (Nodes!Text(n, "client-fingerprint"))
         /\ Nodes!Sense(t, n, "tls") = (Nodes!Bool(Nodes!Secure(n)))
         /\ Nodes!Sense(t, n, "servername") = (Nodes!ServerName(n))
         /\ Nodes!Sense(t, n, "sni") = (Nodes!ServerName(n))
         /\ Nodes!Sense(t, n, "skip-cert-verify") = (Nodes!Bool(Nodes!Flag(n, "skip-cert-verify")))
         /\ Nodes!Sense(t, n, "uuid") = (Nodes!Text(n, "uuid"))
         /\ Nodes!Sense(t, n, "alterId") = (IF Nodes!Has(n, "alterId") THEN n["alterId"] ELSE "0")
         /\ Nodes!Sense(t, n, "grpc-opts") = (Nodes!Text(n, "grpc-opts"))
         /\ Nodes!Sense(t, n, "flow") = (Nodes!Text(n, "flow"))
         /\ Nodes!Sense(t, n, "username") = (Nodes!Text(n, "username"))
         /\ Nodes!Sense(t, n, "obfs") = (Nodes!Text(n, "obfs"))
         /\ Nodes!Sense(t, n, "obfs-password") = (Nodes!Text(n, "obfs-password"))
         /\ Nodes!Sense(t, n, "up") = (Nodes!Text(n, "up"))
         /\ Nodes!Sense(t, n, "down") = (Nodes!Text(n, "down"))
         /\ Nodes!Sense(t, n, "udp-relay-mode") = (Nodes!Text(n, "udp-relay-mode"))
         /\ Nodes!Sense(t, n, "plugin") = (Nodes!Text(n, "plugin"))
  BY DEF Nodes!Sense, Nodes!Bool

\* Every field of the node that is read from a written link means what it meant.
LEMMA LinkSense ==
  ASSUME NEW n, Node(n), Nodes!Portable(n), n["type"] # "vmess", NEW q, q = Nodes!Link(n),
         ~(n["type"] = "anytls" /\ n["reality-opts"] # "absent"), NEW m, m = Nodes!FromURI(q)
  PROVE  /\ m["type"] = n["type"]
         /\ \A k \in Nodes!Fields : Nodes!Sense("uri", m, k) = Nodes!Sense("uri", n, k)
<1>0. Nodes!QueryOk(q)
  BY LinkAccepted
<1>t. n["type"] \in {"ss", "trojan", "vless", "anytls", "http", "socks5", "hysteria2"}
  BY PortableOnly DEF Node, Nodes!Protocols
<1>scheme. /\ n["type"] # "http" => q["scheme"] = n["type"]
           /\ n["type"] = "http" => q["scheme"] \in {"http", "https"}
  BY LinkAt
<1>type. m["type"] = n["type"]
  <2>1. m["type"] = IF q["scheme"] = "https" THEN "http" ELSE q["scheme"]
    BY <1>0, FromURIAt
  <2>. QED
    BY <2>1, <1>t, <1>scheme
<1>flow. Nodes!Sense("uri", m, "flow") = Nodes!Sense("uri", n, "flow")
  <2>1. q["flow"] = n["flow"]
    BY LinkAt
  <2>2. m["flow"] = Nodes!Said(Nodes!Text(q, "flow"))
    BY <1>0, FromURIAt
  <2>3. n["flow"] \in {"xtls-rprx-vision", "odd", "absent"}
    BY NodeValues
  <2>4. Nodes!Sense("uri", n, "flow") = Nodes!Text(n, "flow") /\ Nodes!Sense("uri", m, "flow") = Nodes!Text(m,
          "flow")
    BY SenseAt
  <2>. QED
    BY <2>1, <2>2, <2>3, <2>4, BlankIsOther DEF Nodes!Said, Nodes!Opt, Nodes!Text, Nodes!Has, Nodes!None
<1>obfs. Nodes!Sense("uri", m, "obfs") = Nodes!Sense("uri", n, "obfs")
  <2>1. q["obfs"] = n["obfs"]
    BY LinkAt
  <2>2. m["obfs"] = Nodes!Said(Nodes!Text(q, "obfs"))
    BY <1>0, FromURIAt
  <2>3. n["obfs"] \in {"salamander", "odd", "absent"}
    BY NodeValues
  <2>4. Nodes!Sense("uri", n, "obfs") = Nodes!Text(n, "obfs") /\ Nodes!Sense("uri", m, "obfs") = Nodes!Text(m,
          "obfs")
    BY SenseAt
  <2>. QED
    BY <2>1, <2>2, <2>3, <2>4, BlankIsOther DEF Nodes!Said, Nodes!Opt, Nodes!Text, Nodes!Has, Nodes!None
<1>obfspassword. Nodes!Sense("uri", m, "obfs-password") = Nodes!Sense("uri", n, "obfs-password")
  <2>1. q["obfs-password"] = n["obfs-password"]
    BY LinkAt
  <2>2. m["obfs-password"] = Nodes!Said(Nodes!Text(q, "obfs-password"))
    BY <1>0, FromURIAt
  <2>3. n["obfs-password"] \in {"p", "quote", "absent"}
    BY NodeValues
  <2>4. Nodes!Sense("uri", n, "obfs-password") = Nodes!Text(n, "obfs-password") /\ Nodes!Sense("uri", m,
          "obfs-password") = Nodes!Text(m, "obfs-password")
    BY SenseAt
  <2>. QED
    BY <2>1, <2>2, <2>3, <2>4, BlankIsOther DEF Nodes!Said, Nodes!Opt, Nodes!Text, Nodes!Has, Nodes!None
<1>alpn. Nodes!Sense("uri", m, "alpn") = Nodes!Sense("uri", n, "alpn")
  <2>1. q["alpn"] = Nodes!Said(Nodes!Text(n, "alpn"))
    BY LinkAt
  <2>2. m["alpn"] = Nodes!Said(Nodes!Text(q, "alpn"))
    BY <1>0, FromURIAt
  <2>3. n["alpn"] \in {"h2", "bad", "absent"}
    BY NodeValues
  <2>4. Nodes!Sense("uri", n, "alpn") = Nodes!Text(n, "alpn") /\ Nodes!Sense("uri", m, "alpn") = Nodes!Text(m,
          "alpn")
    BY SenseAt
  <2>. QED
    BY <2>1, <2>2, <2>3, <2>4, BlankIsOther DEF Nodes!Said, Nodes!Opt, Nodes!Text, Nodes!Has, Nodes!None
<1>clientfingerprint. Nodes!Sense("uri", m, "client-fingerprint") = Nodes!Sense("uri", n, "client-fingerprint")
  <2>1. q["fp"] = Nodes!Said(Nodes!Text(n, "client-fingerprint"))
    BY LinkAt
  <2>2. m["client-fingerprint"] = Nodes!Said(Nodes!Text(q, "fp"))
    BY <1>0, FromURIAt
  <2>3. n["client-fingerprint"] \in {"chrome", "safari", "absent"}
    BY NodeValues
  <2>4. Nodes!Sense("uri", n, "client-fingerprint") = Nodes!Text(n, "client-fingerprint") /\ Nodes!Sense("uri",
          m, "client-fingerprint") = Nodes!Text(m, "client-fingerprint")
    BY SenseAt
  <2>. QED
    BY <2>1, <2>2, <2>3, <2>4, BlankIsOther DEF Nodes!Said, Nodes!Opt, Nodes!Text, Nodes!Has, Nodes!None
<1>up. Nodes!Sense("uri", m, "up") = Nodes!Sense("uri", n, "up")
  <2>1. n["up"] = "absent"
    BY <1>t, AbsentFields, PortableOnly, PortableTls
  <2>2. m["up"] = Nodes!None
    BY <1>0, FromURIAt
  <2>3. Nodes!Sense("uri", n, "up") = Nodes!Text(n, "up") /\ Nodes!Sense("uri", m, "up") = Nodes!Text(m, "up")
    BY SenseAt
  <2>. QED
    BY <2>1, <2>2, <2>3 DEF Nodes!Text, Nodes!Has, Nodes!None
<1>down. Nodes!Sense("uri", m, "down") = Nodes!Sense("uri", n, "down")
  <2>1. n["down"] = "absent"
    BY <1>t, AbsentFields, PortableOnly, PortableTls
  <2>2. m["down"] = Nodes!None
    BY <1>0, FromURIAt
  <2>3. Nodes!Sense("uri", n, "down") = Nodes!Text(n, "down") /\ Nodes!Sense("uri", m, "down") = Nodes!Text(m,
          "down")
    BY SenseAt
  <2>. QED
    BY <2>1, <2>2, <2>3 DEF Nodes!Text, Nodes!Has, Nodes!None
<1>udprelaymode. Nodes!Sense("uri", m, "udp-relay-mode") = Nodes!Sense("uri", n, "udp-relay-mode")
  <2>1. n["udp-relay-mode"] = "absent"
    BY <1>t, AbsentFields, PortableOnly, PortableTls
  <2>2. m["udp-relay-mode"] = Nodes!None
    BY <1>0, FromURIAt
  <2>3. Nodes!Sense("uri", n, "udp-relay-mode") = Nodes!Text(n, "udp-relay-mode") /\ Nodes!Sense("uri", m,
          "udp-relay-mode") = Nodes!Text(m, "udp-relay-mode")
    BY SenseAt
  <2>. QED
    BY <2>1, <2>2, <2>3 DEF Nodes!Text, Nodes!Has, Nodes!None
<1>plugin. Nodes!Sense("uri", m, "plugin") = Nodes!Sense("uri", n, "plugin")
  <2>1. n["plugin"] = "absent"
    BY <1>t, AbsentFields, PortableOnly, PortableTls
  <2>2. m["plugin"] = Nodes!None
    BY <1>0, FromURIAt
  <2>3. Nodes!Sense("uri", n, "plugin") = Nodes!Text(n, "plugin") /\ Nodes!Sense("uri", m,
          "plugin") = Nodes!Text(m, "plugin")
    BY SenseAt
  <2>. QED
    BY <2>1, <2>2, <2>3 DEF Nodes!Text, Nodes!Has, Nodes!None
<1>tfo. Nodes!Sense("uri", m, "tfo") = Nodes!Sense("uri", n, "tfo")
  BY <1>0, PortableOnly, FromURIAt, SenseAt DEF Nodes!Flag, Nodes!None
<1>alterId. Nodes!Sense("uri", m, "alterId") = Nodes!Sense("uri", n, "alterId")
  <2>1. n["alterId"] = "absent"
    BY <1>t, AbsentFields, PortableOnly
  <2>. QED
    BY <1>0, <2>1, FromURIAt, SenseAt DEF Nodes!Has, Nodes!None
<1>servername. Nodes!ServerName(m) = Nodes!ServerName(n)
  <2>1. q["sni"] = Nodes!Said(Nodes!ServerName(n))
    BY LinkAt
  <2>2. m["servername"] = Nodes!Said(Nodes!Text(q, "sni"))
    BY <1>0, FromURIAt
  <2>3. m["sni"] = Nodes!None
    BY <1>0, FromURIAt
  <2>4. Nodes!ServerName(n) \in {Nodes!Blank, "a", "b"}
    BY NodeValues DEF Nodes!ServerName, Nodes!Said, Nodes!Opt, Nodes!Text, Nodes!Has, Nodes!None, Nodes!Given
  <2>. QED
    BY <2>1, <2>2, <2>3, <2>4, BlankIsOther DEF Nodes!ServerName, Nodes!Said, Nodes!Opt, Nodes!Text, Nodes!Has,
       Nodes!None, Nodes!Given
<1>names. Nodes!Sense("uri", m, "sni") = Nodes!Sense("uri", n, "sni") /\ Nodes!Sense("uri", m,
            "servername") = Nodes!Sense("uri", n, "servername")
  BY <1>servername, SenseAt
<1>transport. Nodes!Transport(m) = Nodes!Transport(n)
  <2>1. q["type"] = Nodes!Opt((n["type"] \in Nodes!Streams) /\ Nodes!Transport(n) # "tcp", Nodes!Transport(n))
    BY LinkAt
  <2>2. m["network"] = Nodes!Opt(Nodes!Text(q, "type") # "tcp", Nodes!Said(Nodes!Text(q, "type")))
    BY <1>0, FromURIAt
  <2>3. Nodes!Transport(n) \in {"tcp", "ws", "grpc"}
    BY PortableTransport
  <2>4. n["type"] \notin Nodes!Streams => Nodes!Transport(n) = "tcp"
    BY <1>t, AbsentFields, PortableOnly DEF Nodes!Streams, Nodes!Transport, Nodes!Said, Nodes!Opt, Nodes!Text,
       Nodes!Has, Nodes!None, Nodes!Given
  <2>. QED
    BY <2>1, <2>2, <2>3, <2>4, BlankIsOther DEF Nodes!Transport, Nodes!Said, Nodes!Opt, Nodes!Text, Nodes!Has,
       Nodes!None, Nodes!Given
<1>network. Nodes!Sense("uri", m, "network") = Nodes!Sense("uri", n, "network")
  BY <1>transport, SenseAt
<1>wsopts. Nodes!Sense("uri", m, "ws-opts") = Nodes!Sense("uri", n, "ws-opts")
  <2>1. q["type"] = Nodes!Opt((n["type"] \in Nodes!Streams) /\ Nodes!Transport(n) # "tcp", Nodes!Transport(n))
    BY LinkAt
  <2>2. q["path"] = Nodes!Opt((n["type"] \in Nodes!Streams) /\ Nodes!Transport(n) = "ws", Nodes!WsPath(n))
    BY LinkAt
  <2>3. q["host"] = Nodes!Opt((n["type"] \in Nodes!Streams) /\ Nodes!Transport(n) = "ws",
          Nodes!Said(Nodes!WsHost(n)))
    BY LinkAt
  <2>4. m["ws-opts"] = Nodes!Opt(q["type"] = "ws", Nodes!WsOf(Nodes!Text(q, "path"), Nodes!Text(q, "host")))
    BY <1>0, FromURIAt
  <2>5. n["type"] \notin Nodes!Streams \/ Nodes!Transport(n) # "ws" => n["ws-opts"] = "absent"
    BY <1>t, AbsentFields, PortableOnly, PortableTransport DEF Nodes!Streams
  <2>6. n["ws-opts"] \in {"none", "path", "host", "both", "absent"}
    BY <1>t, NodeValues, PortableTransport, AbsentFields, PortableOnly DEF Nodes!HostOnly, Nodes!Streams
  <2>7. Nodes!Sense("uri", n, "ws-opts") = (IF ~Nodes!HostOnly(n) THEN "other" ELSE Nodes!WsOf(Nodes!WsPath(n),
          Nodes!WsHost(n))) /\ Nodes!Sense("uri", m, "ws-opts") = (IF ~Nodes!HostOnly(m) THEN "other"
          ELSE Nodes!WsOf(Nodes!WsPath(m), Nodes!WsHost(m)))
    BY SenseAt
  <2>. QED
    BY <2>1, <2>2, <2>3, <2>4, <2>5, <2>6, <2>7, BlankIsOther DEF Nodes!HostOnly, Nodes!WsOf, Nodes!WsPath,
       Nodes!WsHost, Nodes!Said, Nodes!Opt, Nodes!Text, Nodes!Has, Nodes!None, Nodes!Given
<1>grpc. Nodes!Sense("uri", m, "grpc-opts") = Nodes!Sense("uri", n, "grpc-opts")
  <2>1. q["type"] = Nodes!Opt((n["type"] \in Nodes!Streams) /\ Nodes!Transport(n) # "tcp", Nodes!Transport(n))
    BY LinkAt
  <2>2. q["serviceName"] = Nodes!Opt((n["type"] \in Nodes!Streams) /\ Nodes!Transport(n) = "grpc", Nodes!Text(n,
          "grpc-opts"))
    BY LinkAt
  <2>3. m["grpc-opts"] = Nodes!Opt(q["type"] = "grpc", Nodes!Text(q, "serviceName"))
    BY <1>0, FromURIAt
  <2>4. n["type"] \notin Nodes!Streams \/ Nodes!Transport(n) # "grpc" => n["grpc-opts"] = "absent"
    BY <1>t, AbsentFields, PortableOnly, PortableTransport DEF Nodes!Streams
  <2>5. n["grpc-opts"] \in {Nodes!Blank, "s", "absent"}
    BY NodeValues
  <2>6. Nodes!Sense("uri", n, "grpc-opts") = (Nodes!Text(n, "grpc-opts")) /\ Nodes!Sense("uri", m,
          "grpc-opts") = (Nodes!Text(m, "grpc-opts"))
    BY SenseAt
  <2>. QED
    BY <2>1, <2>2, <2>3, <2>4, <2>5, <2>6, BlankIsOther DEF Nodes!Said, Nodes!Opt, Nodes!Text, Nodes!Has,
       Nodes!None, Nodes!Given
<1>reality. Nodes!Sense("uri", m, "reality-opts") = Nodes!Sense("uri", n, "reality-opts")
  <2>1. q["security"] = Nodes!Opt((n["type"] \in Nodes!Streams) /\ Nodes!Secure(n), IF Nodes!Has(n,
          "reality-opts") THEN "reality" ELSE "tls")
    BY LinkAt
  <2>2. q["sid"] = Nodes!ShortId(n)
    BY LinkAt
  <2>3. m["reality-opts"] = Nodes!Opt(q["security"] = "reality", IF Nodes!Given(q, "sid") THEN "both"
          ELSE "key")
    BY <1>0, FromURIAt
  <2>4. n["reality-opts"] # "absent" => n["type"] \in Nodes!Streams /\ Nodes!Secure(n)
    BY <1>t, AbsentFields, PortableOnly, PortableTls DEF Nodes!Streams
  <2>5. n["reality-opts"] \in {"key", "both", "absent"}
    BY NodeValues
  <2>6. Nodes!Sense("uri", n, "reality-opts") = (Nodes!Text(n, "reality-opts")) /\ Nodes!Sense("uri", m,
          "reality-opts") = (Nodes!Text(m, "reality-opts"))
    BY SenseAt
  <2>. QED
    BY <2>1, <2>2, <2>3, <2>4, <2>5, <2>6, BlankIsOther DEF Nodes!ShortId, Nodes!Said, Nodes!Opt, Nodes!Text,
       Nodes!Has, Nodes!None, Nodes!Given
<1>encoding. Nodes!Sense("uri", m, "packet-encoding") = Nodes!Sense("uri", n, "packet-encoding")
  <2>1. Nodes!Encodings(q) = {Nodes!Text(n, "packet-encoding")} \ {Nodes!Blank}
    BY LinkEncodings
  <2>2. m["packet-encoding"] = IF Nodes!Encodings(q) = {} THEN Nodes!None
          ELSE CHOOSE e \in Nodes!Encodings(q) : TRUE
    BY <1>0, FromURIAt
  <2>3. n["packet-encoding"] \in {"absent", "none", "xudp"}
    BY PortableTls
  <2>4. Nodes!Sense("uri", n, "packet-encoding") = (Nodes!Text(n, "packet-encoding")) /\ Nodes!Sense("uri", m,
          "packet-encoding") = (Nodes!Text(m, "packet-encoding"))
    BY SenseAt
  <2>. QED
    BY <2>1, <2>2, <2>3, <2>4, BlankIsOther DEF Nodes!Text, Nodes!Has, Nodes!None
<1>tls. Nodes!Secure(m) = Nodes!Secure(n)
  <2>1. q["security"] = Nodes!Opt((n["type"] \in Nodes!Streams) /\ Nodes!Secure(n), IF Nodes!Has(n,
          "reality-opts") THEN "reality" ELSE "tls")
    BY LinkAt
  <2>2. q["scheme"] = IF n["type"] = "http" /\ Nodes!Secure(n) THEN "https" ELSE n["type"]
    BY LinkAt
  <2>3. m["tls"] = Nodes!Tls(q)
    BY <1>0, FromURIAt
  <2>4. n["type"] \in {"ss", "socks5"} => ~Nodes!Secure(n)
    BY <1>t, AbsentFields, PortableOnly, PortableTls DEF Nodes!Secure, Nodes!AlwaysSecure, Nodes!Flag
  <2>. QED
    BY <2>1, <2>2, <2>3, <2>4, <1>t, <1>type, BlankIsOther DEF Nodes!Streams, Nodes!Secure, Nodes!AlwaysSecure,
       Nodes!Flag, Nodes!Tls, Nodes!Bool, Nodes!Said, Nodes!Opt, Nodes!Text, Nodes!Has, Nodes!None, Nodes!Given
<1>tls1. Nodes!Sense("uri", m, "tls") = Nodes!Sense("uri", n, "tls")
  BY <1>tls, SenseAt
<1>udp. Nodes!Sense("uri", m, "udp") = Nodes!Sense("uri", n, "udp")
  <2>1. q["udp"] = Nodes!Opt(n["type"] = "anytls", n["udp"])
    BY LinkAt
  <2>2. m["udp"] = Nodes!Settled(q, Nodes!Text(q, "udp"), "true")
    BY <1>0, FromURIAt
  <2>3. n["udp"] \in {"true", "false", "absent"}
    BY NodeValues
  <2>4. n["type"] \notin Nodes!UdpByDefault => n["udp"] = "absent"
    BY <1>t, PortableOnly DEF Nodes!UdpByDefault
  <2>5. n["type"] = "vless" => n["udp"] \in {"absent", "true"}
    BY PortableOnly
  <2>6. n["type"] \in Nodes!UdpByDefault <=> q["scheme"] \in Nodes!UdpByDefault
    BY <1>scheme, <1>t DEF Nodes!UdpByDefault
  <2>7. n["type"] = "anytls" \/ n["type"] = "vless" \/ n["type"] \notin Nodes!UdpByDefault
    BY DEF Nodes!UdpByDefault
  <2>8. Nodes!Sense("uri", n, "udp") = (IF n["type"] \in Nodes!UdpByDefault THEN Nodes!Bool(n["udp"] # "false")
          ELSE Nodes!Bool(Nodes!Flag(n, "udp"))) /\ Nodes!Sense("uri", m,
          "udp") = (IF m["type"] \in Nodes!UdpByDefault THEN Nodes!Bool(m["udp"] # "false")
          ELSE Nodes!Bool(Nodes!Flag(m, "udp")))
    BY SenseAt
  <2>. QED
    BY <2>1, <2>2, <2>3, <2>4, <2>5, <2>6, <2>7, <2>8, <1>type, BlankIsOther DEF Nodes!Bool, Nodes!Flag,
       Nodes!Settled, Nodes!Said, Nodes!Opt, Nodes!Text, Nodes!Has, Nodes!None, Nodes!Given
<1>skip. Nodes!Sense("uri", m, "skip-cert-verify") = Nodes!Sense("uri", n, "skip-cert-verify")
  <2>1. q["insecure"] = IF n["type"] = "anytls" THEN n["skip-cert-verify"]
          ELSE Nodes!Opt(n["type"] = "hysteria2" /\ Nodes!Flag(n, "skip-cert-verify"), "true")
    BY LinkAt
  <2>2. m["skip-cert-verify"] = Nodes!Settled(q, Nodes!Text(q, "insecure"), Nodes!Opt(Nodes!Tls(q) = "true",
          "false"))
    BY <1>0, FromURIAt
  <2>3. n["skip-cert-verify"] \in {"true", "false", "absent"}
    BY NodeValues
  <2>4. n["type"] \notin {"hysteria2", "anytls"} => n["skip-cert-verify"] # "true"
    BY PortableOnly
  <2>5. Nodes!Sense("uri", n, "skip-cert-verify") = (Nodes!Bool(Nodes!Flag(n, "skip-cert-verify")))
          /\ Nodes!Sense("uri", m, "skip-cert-verify") = (Nodes!Bool(Nodes!Flag(m, "skip-cert-verify")))
    BY SenseAt
  <2>. QED
    BY <2>1, <2>2, <2>3, <2>4, <2>5, <1>type, BlankIsOther DEF Nodes!Bool, Nodes!Flag, Nodes!Settled,
       Nodes!Said, Nodes!Opt, Nodes!Text, Nodes!Has, Nodes!None, Nodes!Given
<1>given. \A k \in Nodes!Required(n["type"]) : n[k] # "absent" /\ n[k] # Nodes!Blank
  <2>1. Nodes!Validated(n)
    BY PortableTls
  <2>. QED
    BY <2>1 DEF Nodes!Validated, Nodes!Given, Nodes!Text, Nodes!Has, Nodes!None
<1>cipher. Nodes!Sense("uri", m, "cipher") = Nodes!Sense("uri", n, "cipher")
  <2>1. q["user"] = Nodes!User(n)
    BY LinkAt
  <2>2. m["cipher"] = Nodes!Opt(q["scheme"] = "ss", Nodes!Text(q, "user"))
    BY <1>0, FromURIAt
  <2>3. n["type"] # "ss" => n["cipher"] = "absent"
    BY <1>t, AbsentFields, PortableOnly
  <2>4. n["type"] = "ss" => n["cipher"] # "absent"
    BY <1>given DEF Nodes!Required
  <2>5. Nodes!Sense("uri", n, "cipher") = (IF n["type"] = "vmess" THEN Nodes!LoonCipher(Nodes!Text(n, "cipher"))
          ELSE Nodes!Text(n, "cipher")) /\ Nodes!Sense("uri", m, "cipher") = (IF m["type"] = "vmess"
          THEN Nodes!LoonCipher(Nodes!Text(m, "cipher")) ELSE Nodes!Text(m, "cipher"))
    BY SenseAt
  <2>. QED
    BY <2>1, <2>2, <2>3, <2>4, <2>5, <1>t, <1>type, <1>scheme DEF Nodes!User, Nodes!AlwaysSecure, Nodes!Opt,
       Nodes!Text, Nodes!Has, Nodes!None
<1>uuid. Nodes!Sense("uri", m, "uuid") = Nodes!Sense("uri", n, "uuid")
  <2>1. q["user"] = Nodes!User(n)
    BY LinkAt
  <2>2. m["uuid"] = Nodes!Opt(q["scheme"] = "vless", Nodes!Text(q, "user"))
    BY <1>0, FromURIAt
  <2>3. n["type"] # "vless" => n["uuid"] = "absent"
    BY <1>t, AbsentFields, PortableOnly
  <2>4. n["type"] = "vless" => n["uuid"] # "absent"
    BY <1>given DEF Nodes!Required
  <2>5. Nodes!Sense("uri", n, "uuid") = (Nodes!Text(n, "uuid")) /\ Nodes!Sense("uri", m,
          "uuid") = (Nodes!Text(m, "uuid"))
    BY SenseAt
  <2>. QED
    BY <2>1, <2>2, <2>3, <2>4, <2>5, <1>t, <1>type, <1>scheme DEF Nodes!User, Nodes!AlwaysSecure, Nodes!Opt,
       Nodes!Text, Nodes!Has, Nodes!None
<1>username. Nodes!Sense("uri", m, "username") = Nodes!Sense("uri", n, "username")
  <2>1. q["user"] = Nodes!User(n)
    BY LinkAt
  <2>2. m["username"] = Nodes!Opt(q["scheme"] \in {"http", "https", "socks5"}, Nodes!Said(Nodes!Text(q,
          "user")))
    BY <1>0, FromURIAt
  <2>3. n["type"] \notin {"http", "socks5"} => n["username"] = "absent"
    BY <1>t, AbsentFields, PortableOnly
  <2>4. n["username"] \in {"p", "quote", "absent"}
    BY NodeValues
  <2>5. Nodes!Sense("uri", n, "username") = (Nodes!Text(n, "username")) /\ Nodes!Sense("uri", m,
          "username") = (Nodes!Text(m, "username"))
    BY SenseAt
  <2>. QED
    BY <2>1, <2>2, <2>3, <2>4, <2>5, <1>t, <1>type, <1>scheme, BlankIsOther DEF Nodes!User, Nodes!Login,
       Nodes!AlwaysSecure, Nodes!Said, Nodes!Opt, Nodes!Text, Nodes!Has, Nodes!None, Nodes!Given
<1>password. Nodes!Sense("uri", m, "password") = Nodes!Sense("uri", n, "password")
  <2>1. q["user"] = Nodes!User(n)
    BY LinkAt
  <2>2. q["secret"] = Nodes!Secret(n)
    BY LinkAt
  <2>3. m["password"] = CASE q["scheme"] \in Nodes!AlwaysSecure -> Nodes!Text(q, "user")
          [] q["scheme"] = "vless" -> Nodes!None [] OTHER -> q["secret"]
    BY <1>0, FromURIAt
  <2>4. n["type"] = "vless" => n["password"] = "absent"
    BY <1>t, AbsentFields, PortableOnly
  <2>5. n["type"] \in {"ss", "trojan", "hysteria2", "anytls"} => n["password"] # "absent"
    BY <1>given DEF Nodes!Required
  <2>6. n["password"] \in {"p", "quote", "absent"}
    BY NodeValues
  <2>7. Nodes!Sense("uri", n, "password") = (Nodes!Text(n, "password")) /\ Nodes!Sense("uri", m,
          "password") = (Nodes!Text(m, "password"))
    BY SenseAt
  <2>. QED
    BY <2>1, <2>2, <2>3, <2>4, <2>5, <2>6, <2>7, <1>t, <1>type, <1>scheme, BlankIsOther DEF Nodes!User,
       Nodes!Secret, Nodes!Login, Nodes!AlwaysSecure, Nodes!Said, Nodes!Opt, Nodes!Text, Nodes!Has, Nodes!None,
       Nodes!Given
<1>same. Nodes!Sense("uri", m, "type") = Nodes!Sense("uri", n, "type")
  BY <1>type, SenseAt DEF Nodes!Text, Nodes!Has, Nodes!None
<1>. QED
  BY <1>same, <1>type, <1>flow, <1>obfs, <1>obfspassword, <1>alpn, <1>clientfingerprint, <1>up, <1>down,
     <1>udprelaymode,
     <1>plugin, <1>tfo, <1>alterId, <1>names, <1>network, <1>wsopts, <1>grpc, <1>reality, <1>encoding, <1>tls1,
     <1>udp, <1>skip, <1>cipher, <1>uuid, <1>username, <1>password, FieldsAre DEF FieldNames

\* What is read from a link has a text or None for every field.
LEMMA FromURIDomain ==
  ASSUME NEW q, Nodes!QueryOk(q)
  PROVE  DOMAIN Nodes!FromURI(q) = Nodes!Fields
  BY DEF Nodes!FromURI

\* What has a text or None for every field, or every part, is no failure.
LEMMA NotFail ==
  ASSUME NEW f, DOMAIN f = Nodes!Fields \/ DOMAIN f = Nodes!Keys
  PROVE  f # Nodes!Fail
<1>1. DOMAIN Nodes!Fail = {"error"}
  BY DEF Nodes!Fail
<1>2. "type" \in DOMAIN f
  BY FieldsAre, KeysAre DEF FieldNames, KeyNames
<1>. QED
  BY <1>1, <1>2

\* Nodes of a type with the same sense of every field that is no hint have the same meaning.
LEMMA SameMeaning ==
  ASSUME NEW t, NEW n, NEW m, m["type"] = n["type"],
         \A k \in Nodes!Fields \ Nodes!Hints(t, n["type"]) : Nodes!Sense(t, m, k) = Nodes!Sense(t, n, k)
  PROVE  Nodes!Meaning(t, m) = Nodes!Meaning(t, n)
  BY DEF Nodes!Meaning

\* A link that is written is read back with its meaning, unless it is VMess.
LEMMA LinkReadBack ==
  ASSUME NEW n, Node(n), Nodes!Portable(n), n["type"] # "vmess",
         ~(n["type"] = "anytls" /\ n["reality-opts"] # "absent"), NEW q, q = Nodes!Link(n)
  PROVE  Nodes!Parse(q) # Nodes!Fail /\ Nodes!Meaning("uri", Nodes!Parse(q)) = Nodes!Meaning("uri", n)
<1> DEFINE m == Nodes!FromURI(q)
<1>0. Nodes!QueryOk(q)
  BY LinkAccepted
<1>1. /\ m["type"] = n["type"]
      /\ \A k \in Nodes!Fields : Nodes!Sense("uri", m, k) = Nodes!Sense("uri", n, k)
  BY LinkSense
<1>2. m # Nodes!Fail
  BY <1>0, FromURIDomain, NotFail
<1>3. Nodes!Validated(m)
  <2>1. Nodes!Validated(n)
    BY PortableTls
  <2>2. ASSUME NEW k \in Nodes!Required(n["type"]) PROVE Nodes!Given(m, k)
    <3>1. n["type"] \in {"ss", "trojan", "vless", "anytls", "http", "socks5", "hysteria2"}
      BY PortableOnly DEF Node, Nodes!Protocols
    <3>2. k \in {"cipher", "password", "uuid"} /\ (k = "cipher" => n["type"] = "ss")
      BY <3>1 DEF Nodes!Required
    <3>3. Nodes!Sense("uri", n, k) = Nodes!Text(n, k) /\ Nodes!Sense("uri", m, k) = Nodes!Text(m, k)
      BY <1>1, <3>2, SenseAt
    <3>4. k \in Nodes!Fields
      BY <3>2, FieldsAre DEF FieldNames
    <3>5. Nodes!Text(n, k) # Nodes!Blank
      BY <2>1 DEF Nodes!Validated, Nodes!Given
    <3>. QED
      BY <1>1, <3>3, <3>4, <3>5 DEF Nodes!Given
  <2>. QED
    BY <1>1, <2>2 DEF Nodes!Validated
<1>4. q["scheme"] # "vmess"
  BY LinkAt
<1>5. Nodes!Parse(q) = m
  BY <1>2, <1>3, <1>4 DEF Nodes!Parse
<1>6. Nodes!Meaning("uri", m) = Nodes!Meaning("uri", n)
  BY <1>1, SameMeaning
<1>. QED
  BY <1>2, <1>5, <1>6

\* A VMess document, and what is read from it, have a text or None for every key and field.
LEMMA VMessDomains ==
  ASSUME NEW n
  PROVE  /\ DOMAIN Nodes!VMessLink(n) = KeyNames
         /\ DOMAIN Nodes!FromVMess(n) = Nodes!Fields \/ ~Nodes!VMessOk(n)
<1>1. DOMAIN Nodes!VMessLink(n) = Nodes!Keys
  BY DEF Nodes!VMessLink
<1>2. DOMAIN Nodes!FromVMess(n) = Nodes!Fields \/ ~Nodes!VMessOk(n)
  BY DEF Nodes!FromVMess
<1>. QED
  BY <1>1, <1>2, KeysAre

\* A VMess link that is written is accepted by parseVMess.
LEMMA VMessAccepted ==
  ASSUME NEW n, Node(n), Nodes!Portable(n), n["type"] = "vmess", NEW q, q = Nodes!VMessLink(n)
  PROVE  Nodes!VMessOk(q)
<1>1. Nodes!Used(q) \subseteq Nodes!KeysOf("vmess") \cup {"scheme"}
  <2>1. \A k \in {"user", "secret", "plugin", "security", "serviceName", "flow", "pbk", "sid", "encryption",
          "packetEncoding", "insecure", "udp", "packet_encoding", "xudp", "obfs",
          "obfs-password"} : q[k] = "absent"
    BY VMessLinkAt DEF Nodes!None
  <2>2. \A k \in KeyNames : q[k] # "absent" => k \in {"v", "id", "aid", "scy", "net", "type", "host", "path",
          "tls", "sni", "alpn", "fp", "scheme"}
    BY <2>1 DEF KeyNames
  <2>3. Nodes!KeysOf("vmess") = {"v", "id", "aid", "scy", "net", "type", "host", "path", "tls", "sni", "alpn",
          "fp"}
    BY DEF Nodes!KeysOf
  <2>. QED
    BY <2>2, <2>3, VMessDomains DEF Nodes!Used, Nodes!Has, Nodes!None
<1>2. q["v"] = "2" /\ q["type"] = "none"
  BY VMessLinkAt
<1>3. Nodes!Given(q, "tls") => q["tls"] \in {"none", "tls"}
  <2>1. q["tls"] = IF Nodes!Secure(n) THEN "tls" ELSE Nodes!Blank
    BY VMessLinkAt
  <2>. QED
    BY <2>1 DEF Nodes!Given, Nodes!Text, Nodes!Has
<1>4. q["net"] \notin {"ws", "grpc"} => ~Nodes!Given(q, "path") /\ ~Nodes!Given(q, "host")
  <2>1. q["net"] = Nodes!Transport(n)
    BY VMessLinkAt
  <2>2. q["path"] = IF Nodes!Transport(n) = "ws" THEN Nodes!WsPath(n)
          ELSE Nodes!Opt(Nodes!Transport(n) = "grpc", Nodes!Text(n, "grpc-opts"))
    BY VMessLinkAt
  <2>3. q["host"] = Nodes!Opt(Nodes!Transport(n) = "ws", Nodes!WsHost(n))
    BY VMessLinkAt
  <2>. QED
    BY <2>1, <2>2, <2>3 DEF Nodes!Given, Nodes!Text, Nodes!Has, Nodes!Opt
<1>. QED
  BY <1>1, <1>2, <1>3, <1>4 DEF Nodes!VMessOk, Nodes!Given, Nodes!Text, Nodes!Has

\* Every field of the node that is read from a written VMess link means what it meant.
LEMMA VMessSense ==
  ASSUME NEW n, Node(n), Nodes!Portable(n), n["type"] = "vmess", NEW q, q = Nodes!VMessLink(n), NEW m,
         m = Nodes!FromVMess(q)
  PROVE  /\ m["type"] = n["type"]
         /\ \A k \in Nodes!Fields : Nodes!Sense("uri", m, k) = Nodes!Sense("uri", n, k)
<1>0. Nodes!VMessOk(q)
  BY VMessAccepted
<1>type. m["type"] = n["type"]
  BY <1>0, FromVMessAt
<1>clientfingerprint. Nodes!Sense("uri", m, "client-fingerprint") = Nodes!Sense("uri", n, "client-fingerprint")
  <2>1. n["client-fingerprint"] = "absent"
    BY AbsentFields, PortableOnly, PortableTls
  <2>2. m["client-fingerprint"] = Nodes!Said(Nodes!Text(q, "fp"))
    BY <1>0, FromVMessAt
  <2>3. q["fp"] = Nodes!None
    BY VMessLinkAt
  <2>4. Nodes!Sense("uri", n, "client-fingerprint") = (Nodes!Text(n, "client-fingerprint"))
          /\ Nodes!Sense("uri", m, "client-fingerprint") = (Nodes!Text(m, "client-fingerprint"))
    BY SenseAt
  <2>. QED
    BY <2>1, <2>2, <2>3, <2>4, BlankIsOther DEF Nodes!Said, Nodes!Opt, Nodes!Text, Nodes!Has, Nodes!None,
       Nodes!Given
<1>up. Nodes!Sense("uri", m, "up") = Nodes!Sense("uri", n, "up")
  <2>1. n["up"] = "absent"
    BY AbsentFields, PortableOnly, PortableTls
  <2>2. m["up"] = Nodes!None
    BY <1>0, FromVMessAt
  <2>3. Nodes!Sense("uri", n, "up") = (Nodes!Text(n, "up")) /\ Nodes!Sense("uri", m, "up") = (Nodes!Text(m,
          "up"))
    BY SenseAt
  <2>. QED
    BY <2>1, <2>2, <2>3 DEF Nodes!Said, Nodes!Opt, Nodes!Text, Nodes!Has, Nodes!None, Nodes!Given
<1>down. Nodes!Sense("uri", m, "down") = Nodes!Sense("uri", n, "down")
  <2>1. n["down"] = "absent"
    BY AbsentFields, PortableOnly, PortableTls
  <2>2. m["down"] = Nodes!None
    BY <1>0, FromVMessAt
  <2>3. Nodes!Sense("uri", n, "down") = (Nodes!Text(n, "down")) /\ Nodes!Sense("uri", m,
          "down") = (Nodes!Text(m, "down"))
    BY SenseAt
  <2>. QED
    BY <2>1, <2>2, <2>3 DEF Nodes!Said, Nodes!Opt, Nodes!Text, Nodes!Has, Nodes!None, Nodes!Given
<1>udprelaymode. Nodes!Sense("uri", m, "udp-relay-mode") = Nodes!Sense("uri", n, "udp-relay-mode")
  <2>1. n["udp-relay-mode"] = "absent"
    BY AbsentFields, PortableOnly, PortableTls
  <2>2. m["udp-relay-mode"] = Nodes!None
    BY <1>0, FromVMessAt
  <2>3. Nodes!Sense("uri", n, "udp-relay-mode") = (Nodes!Text(n, "udp-relay-mode")) /\ Nodes!Sense("uri", m,
          "udp-relay-mode") = (Nodes!Text(m, "udp-relay-mode"))
    BY SenseAt
  <2>. QED
    BY <2>1, <2>2, <2>3 DEF Nodes!Said, Nodes!Opt, Nodes!Text, Nodes!Has, Nodes!None, Nodes!Given
<1>plugin. Nodes!Sense("uri", m, "plugin") = Nodes!Sense("uri", n, "plugin")
  <2>1. n["plugin"] = "absent"
    BY AbsentFields, PortableOnly, PortableTls
  <2>2. m["plugin"] = Nodes!None
    BY <1>0, FromVMessAt
  <2>3. Nodes!Sense("uri", n, "plugin") = (Nodes!Text(n, "plugin")) /\ Nodes!Sense("uri", m,
          "plugin") = (Nodes!Text(m, "plugin"))
    BY SenseAt
  <2>. QED
    BY <2>1, <2>2, <2>3 DEF Nodes!Said, Nodes!Opt, Nodes!Text, Nodes!Has, Nodes!None, Nodes!Given
<1>username. Nodes!Sense("uri", m, "username") = Nodes!Sense("uri", n, "username")
  <2>1. n["username"] = "absent"
    BY AbsentFields, PortableOnly, PortableTls
  <2>2. m["username"] = Nodes!None
    BY <1>0, FromVMessAt
  <2>3. Nodes!Sense("uri", n, "username") = (Nodes!Text(n, "username")) /\ Nodes!Sense("uri", m,
          "username") = (Nodes!Text(m, "username"))
    BY SenseAt
  <2>. QED
    BY <2>1, <2>2, <2>3 DEF Nodes!Said, Nodes!Opt, Nodes!Text, Nodes!Has, Nodes!None, Nodes!Given
<1>password. Nodes!Sense("uri", m, "password") = Nodes!Sense("uri", n, "password")
  <2>1. n["password"] = "absent"
    BY AbsentFields, PortableOnly, PortableTls
  <2>2. m["password"] = Nodes!None
    BY <1>0, FromVMessAt
  <2>3. Nodes!Sense("uri", n, "password") = (Nodes!Text(n, "password")) /\ Nodes!Sense("uri", m,
          "password") = (Nodes!Text(m, "password"))
    BY SenseAt
  <2>. QED
    BY <2>1, <2>2, <2>3 DEF Nodes!Said, Nodes!Opt, Nodes!Text, Nodes!Has, Nodes!None, Nodes!Given
<1>flow. Nodes!Sense("uri", m, "flow") = Nodes!Sense("uri", n, "flow")
  <2>1. n["flow"] = "absent"
    BY AbsentFields, PortableOnly, PortableTls
  <2>2. m["flow"] = Nodes!None
    BY <1>0, FromVMessAt
  <2>3. Nodes!Sense("uri", n, "flow") = (Nodes!Text(n, "flow")) /\ Nodes!Sense("uri", m,
          "flow") = (Nodes!Text(m, "flow"))
    BY SenseAt
  <2>. QED
    BY <2>1, <2>2, <2>3 DEF Nodes!Said, Nodes!Opt, Nodes!Text, Nodes!Has, Nodes!None, Nodes!Given
<1>obfs. Nodes!Sense("uri", m, "obfs") = Nodes!Sense("uri", n, "obfs")
  <2>1. n["obfs"] = "absent"
    BY AbsentFields, PortableOnly, PortableTls
  <2>2. m["obfs"] = Nodes!None
    BY <1>0, FromVMessAt
  <2>3. Nodes!Sense("uri", n, "obfs") = (Nodes!Text(n, "obfs")) /\ Nodes!Sense("uri", m,
          "obfs") = (Nodes!Text(m, "obfs"))
    BY SenseAt
  <2>. QED
    BY <2>1, <2>2, <2>3 DEF Nodes!Said, Nodes!Opt, Nodes!Text, Nodes!Has, Nodes!None, Nodes!Given
<1>obfspassword. Nodes!Sense("uri", m, "obfs-password") = Nodes!Sense("uri", n, "obfs-password")
  <2>1. n["obfs-password"] = "absent"
    BY AbsentFields, PortableOnly, PortableTls
  <2>2. m["obfs-password"] = Nodes!None
    BY <1>0, FromVMessAt
  <2>3. Nodes!Sense("uri", n, "obfs-password") = (Nodes!Text(n, "obfs-password")) /\ Nodes!Sense("uri", m,
          "obfs-password") = (Nodes!Text(m, "obfs-password"))
    BY SenseAt
  <2>. QED
    BY <2>1, <2>2, <2>3 DEF Nodes!Said, Nodes!Opt, Nodes!Text, Nodes!Has, Nodes!None, Nodes!Given
<1>packetencoding. Nodes!Sense("uri", m, "packet-encoding") = Nodes!Sense("uri", n, "packet-encoding")
  <2>1. n["packet-encoding"] = "absent"
    BY AbsentFields, PortableOnly, PortableTls
  <2>2. m["packet-encoding"] = Nodes!None
    BY <1>0, FromVMessAt
  <2>3. Nodes!Sense("uri", n, "packet-encoding") = (Nodes!Text(n, "packet-encoding")) /\ Nodes!Sense("uri", m,
          "packet-encoding") = (Nodes!Text(m, "packet-encoding"))
    BY SenseAt
  <2>. QED
    BY <2>1, <2>2, <2>3 DEF Nodes!Said, Nodes!Opt, Nodes!Text, Nodes!Has, Nodes!None, Nodes!Given
<1>realityopts. Nodes!Sense("uri", m, "reality-opts") = Nodes!Sense("uri", n, "reality-opts")
  <2>1. n["reality-opts"] = "absent"
    BY AbsentFields, PortableOnly, PortableTls
  <2>2. m["reality-opts"] = Nodes!None
    BY <1>0, FromVMessAt
  <2>3. Nodes!Sense("uri", n, "reality-opts") = (Nodes!Text(n, "reality-opts")) /\ Nodes!Sense("uri", m,
          "reality-opts") = (Nodes!Text(m, "reality-opts"))
    BY SenseAt
  <2>. QED
    BY <2>1, <2>2, <2>3 DEF Nodes!Said, Nodes!Opt, Nodes!Text, Nodes!Has, Nodes!None, Nodes!Given
<1>alpn. Nodes!Sense("uri", m, "alpn") = Nodes!Sense("uri", n, "alpn")
  <2>1. q["alpn"] = Nodes!Said(Nodes!Text(n, "alpn"))
    BY VMessLinkAt
  <2>2. m["alpn"] = Nodes!Said(Nodes!Text(q, "alpn"))
    BY <1>0, FromVMessAt
  <2>3. n["alpn"] \in {"h2", "bad", "absent"}
    BY NodeValues
  <2>4. Nodes!Sense("uri", n, "alpn") = (Nodes!Text(n, "alpn")) /\ Nodes!Sense("uri", m,
          "alpn") = (Nodes!Text(m, "alpn"))
    BY SenseAt
  <2>. QED
    BY <2>1, <2>2, <2>3, <2>4, BlankIsOther DEF Nodes!Said, Nodes!Opt, Nodes!Text, Nodes!Has, Nodes!None,
       Nodes!Given
<1>tfo. Nodes!Sense("uri", m, "tfo") = Nodes!Sense("uri", n, "tfo")
  <2>1. n["tfo"] = "absent"
    BY PortableOnly
  <2>2. m["tfo"] = Nodes!None
    BY <1>0, FromVMessAt
  <2>3. Nodes!Sense("uri", n, "tfo") = (Nodes!Bool(Nodes!Flag(n, "tfo"))) /\ Nodes!Sense("uri", m,
          "tfo") = (Nodes!Bool(Nodes!Flag(m, "tfo")))
    BY SenseAt
  <2>. QED
    BY <2>1, <2>2, <2>3 DEF Nodes!Flag, Nodes!None
<1>skip. Nodes!Sense("uri", m, "skip-cert-verify") = Nodes!Sense("uri", n, "skip-cert-verify")
  <2>1. n["skip-cert-verify"] # "true"
    BY PortableOnly
  <2>2. m["skip-cert-verify"] = Nodes!None
    BY <1>0, FromVMessAt
  <2>3. Nodes!Sense("uri", n, "skip-cert-verify") = (Nodes!Bool(Nodes!Flag(n, "skip-cert-verify")))
          /\ Nodes!Sense("uri", m, "skip-cert-verify") = (Nodes!Bool(Nodes!Flag(m, "skip-cert-verify")))
    BY SenseAt
  <2>. QED
    BY <2>1, <2>2, <2>3 DEF Nodes!Flag, Nodes!Bool, Nodes!None
<1>udp. Nodes!Sense("uri", m, "udp") = Nodes!Sense("uri", n, "udp")
  <2>1. n["udp"] = "absent"
    BY PortableOnly
  <2>2. m["udp"] = Nodes!None
    BY <1>0, FromVMessAt
  <2>3. Nodes!Sense("uri", n, "udp") = Nodes!Bool(Nodes!Flag(n, "udp")) /\ Nodes!Sense("uri", m,
          "udp") = Nodes!Bool(Nodes!Flag(m, "udp"))
    BY <1>type, SenseAt DEF Nodes!UdpByDefault
  <2>. QED
    BY <2>1, <2>2, <2>3 DEF Nodes!Flag, Nodes!None
<1>alterId. Nodes!Sense("uri", m, "alterId") = Nodes!Sense("uri", n, "alterId")
  <2>1. q["aid"] = IF Nodes!Has(n, "alterId") THEN n["alterId"] ELSE "0"
    BY VMessLinkAt
  <2>2. m["alterId"] = q["aid"]
    BY <1>0, FromVMessAt
  <2>3. n["alterId"] \in {"0", "4", "absent"}
    BY NodeValues
  <2>4. Nodes!Sense("uri", n, "alterId") = (IF Nodes!Has(n, "alterId") THEN n["alterId"] ELSE "0")
          /\ Nodes!Sense("uri", m, "alterId") = (IF Nodes!Has(m, "alterId") THEN m["alterId"] ELSE "0")
    BY SenseAt
  <2>. QED
    BY <2>1, <2>2, <2>3, <2>4 DEF Nodes!Said, Nodes!Opt, Nodes!Text, Nodes!Has, Nodes!None, Nodes!Given
<1>cipher. Nodes!Sense("uri", m, "cipher") = Nodes!Sense("uri", n, "cipher")
  <2>1. q["scy"] = IF Nodes!Given(n, "cipher") THEN n["cipher"] ELSE "auto"
    BY VMessLinkAt
  <2>2. m["cipher"] = q["scy"]
    BY <1>0, FromVMessAt
  <2>3. n["cipher"] \in {"auto", "aes-128-gcm", "chacha20-poly1305", "odd", "absent"}
    BY NodeValues
  <2>4. Nodes!Sense("uri", n, "cipher") = (IF n["type"] = "vmess" THEN Nodes!LoonCipher(Nodes!Text(n, "cipher"))
          ELSE Nodes!Text(n, "cipher")) /\ Nodes!Sense("uri", m, "cipher") = (IF m["type"] = "vmess"
          THEN Nodes!LoonCipher(Nodes!Text(m, "cipher")) ELSE Nodes!Text(m, "cipher"))
    BY SenseAt
  <2>. QED
    BY <2>1, <2>2, <2>3, <2>4, <1>type, BlankIsOther DEF Nodes!LoonCipher, Nodes!Said, Nodes!Opt, Nodes!Text,
       Nodes!Has, Nodes!None, Nodes!Given
<1>given. n["uuid"] # "absent" /\ n["uuid"] # Nodes!Blank
  <2>1. Nodes!Validated(n)
    BY PortableTls
  <2>. QED
    BY <2>1 DEF Nodes!Validated, Nodes!Required, Nodes!Given, Nodes!Text, Nodes!Has, Nodes!None
<1>uuid. Nodes!Sense("uri", m, "uuid") = Nodes!Sense("uri", n, "uuid")
  <2>1. q["id"] = n["uuid"]
    BY VMessLinkAt
  <2>2. m["uuid"] = Nodes!Text(q, "id")
    BY <1>0, FromVMessAt
  <2>3. Nodes!Sense("uri", n, "uuid") = (Nodes!Text(n, "uuid")) /\ Nodes!Sense("uri", m,
          "uuid") = (Nodes!Text(m, "uuid"))
    BY SenseAt
  <2>. QED
    BY <2>1, <2>2, <2>3, <1>given DEF Nodes!Text, Nodes!Has, Nodes!None
<1>servername. Nodes!ServerName(m) = Nodes!ServerName(n)
  <2>1. q["sni"] = Nodes!Said(Nodes!ServerName(n))
    BY VMessLinkAt
  <2>2. m["servername"] = Nodes!Said(Nodes!Text(q, "sni"))
    BY <1>0, FromVMessAt
  <2>3. m["sni"] = Nodes!None
    BY <1>0, FromVMessAt
  <2>4. Nodes!ServerName(n) \in {Nodes!Blank, "a", "b"}
    BY NodeValues DEF Nodes!ServerName, Nodes!Said, Nodes!Opt, Nodes!Text, Nodes!Has, Nodes!None, Nodes!Given
  <2>. QED
    BY <2>1, <2>2, <2>3, <2>4, BlankIsOther DEF Nodes!ServerName, Nodes!Said, Nodes!Opt, Nodes!Text, Nodes!Has,
       Nodes!None, Nodes!Given
<1>names. Nodes!Sense("uri", m, "sni") = Nodes!Sense("uri", n, "sni") /\ Nodes!Sense("uri", m,
            "servername") = Nodes!Sense("uri", n, "servername")
  BY <1>servername, SenseAt
<1>transport. Nodes!Transport(m) = Nodes!Transport(n)
  <2>1. q["net"] = Nodes!Transport(n)
    BY VMessLinkAt
  <2>2. m["network"] = Nodes!Opt(Nodes!Text(q, "net") # "tcp", Nodes!Said(Nodes!Text(q, "net")))
    BY <1>0, FromVMessAt
  <2>3. Nodes!Transport(n) \in {"tcp", "ws", "grpc"}
    BY PortableTransport
  <2>. QED
    BY <2>1, <2>2, <2>3, BlankIsOther DEF Nodes!Transport, Nodes!Said, Nodes!Opt, Nodes!Text, Nodes!Has,
       Nodes!None, Nodes!Given
<1>network. Nodes!Sense("uri", m, "network") = Nodes!Sense("uri", n, "network")
  BY <1>transport, SenseAt
<1>wsopts. Nodes!Sense("uri", m, "ws-opts") = Nodes!Sense("uri", n, "ws-opts")
  <2>1. q["net"] = Nodes!Transport(n)
    BY VMessLinkAt
  <2>2. q["path"] = IF Nodes!Transport(n) = "ws" THEN Nodes!WsPath(n)
          ELSE Nodes!Opt(Nodes!Transport(n) = "grpc", Nodes!Text(n, "grpc-opts"))
    BY VMessLinkAt
  <2>3. q["host"] = Nodes!Opt(Nodes!Transport(n) = "ws", Nodes!WsHost(n))
    BY VMessLinkAt
  <2>4. m["ws-opts"] = Nodes!Opt(q["net"] = "ws", Nodes!WsOf(Nodes!Text(q, "path"), Nodes!Text(q, "host")))
    BY <1>0, FromVMessAt
  <2>5. Nodes!Transport(n) # "ws" => n["ws-opts"] = "absent"
    BY PortableTransport
  <2>6. n["ws-opts"] \in {"none", "path", "host", "both", "absent"}
    BY NodeValues, PortableTransport DEF Nodes!HostOnly
  <2>7. Nodes!Sense("uri", n, "ws-opts") = (IF ~Nodes!HostOnly(n) THEN "other" ELSE Nodes!WsOf(Nodes!WsPath(n),
          Nodes!WsHost(n))) /\ Nodes!Sense("uri", m, "ws-opts") = (IF ~Nodes!HostOnly(m) THEN "other"
          ELSE Nodes!WsOf(Nodes!WsPath(m), Nodes!WsHost(m)))
    BY SenseAt
  <2>. QED
    BY <2>1, <2>2, <2>3, <2>4, <2>5, <2>6, <2>7, BlankIsOther DEF Nodes!HostOnly, Nodes!WsOf, Nodes!WsPath,
       Nodes!WsHost, Nodes!Said, Nodes!Opt, Nodes!Text, Nodes!Has, Nodes!None, Nodes!Given
<1>grpc. Nodes!Sense("uri", m, "grpc-opts") = Nodes!Sense("uri", n, "grpc-opts")
  <2>1. q["net"] = Nodes!Transport(n)
    BY VMessLinkAt
  <2>2. q["path"] = IF Nodes!Transport(n) = "ws" THEN Nodes!WsPath(n)
          ELSE Nodes!Opt(Nodes!Transport(n) = "grpc", Nodes!Text(n, "grpc-opts"))
    BY VMessLinkAt
  <2>3. m["grpc-opts"] = Nodes!Opt(q["net"] = "grpc", Nodes!Text(q, "path"))
    BY <1>0, FromVMessAt
  <2>4. Nodes!Transport(n) # "grpc" => n["grpc-opts"] = "absent"
    BY PortableTransport
  <2>5. n["grpc-opts"] \in {Nodes!Blank, "s", "absent"}
    BY NodeValues
  <2>6. Nodes!Sense("uri", n, "grpc-opts") = (Nodes!Text(n, "grpc-opts")) /\ Nodes!Sense("uri", m,
          "grpc-opts") = (Nodes!Text(m, "grpc-opts"))
    BY SenseAt
  <2>. QED
    BY <2>1, <2>2, <2>3, <2>4, <2>5, <2>6, BlankIsOther DEF Nodes!Said, Nodes!Opt, Nodes!Text, Nodes!Has,
       Nodes!None, Nodes!Given
<1>tls. Nodes!Secure(m) = Nodes!Secure(n)
  <2>1. q["tls"] = IF Nodes!Secure(n) THEN "tls" ELSE Nodes!Blank
    BY VMessLinkAt
  <2>2. m["tls"] = Nodes!Opt(q["tls"] = "tls", "true")
    BY <1>0, FromVMessAt
  <2>. QED
    BY <2>1, <2>2, <1>type, BlankIsOther DEF Nodes!Secure, Nodes!AlwaysSecure, Nodes!Flag, Nodes!Said,
       Nodes!Opt, Nodes!Text, Nodes!Has, Nodes!None, Nodes!Given
<1>tls1. Nodes!Sense("uri", m, "tls") = Nodes!Sense("uri", n, "tls")
  BY <1>tls, SenseAt
<1>same. Nodes!Sense("uri", m, "type") = Nodes!Sense("uri", n, "type")
  BY <1>type, SenseAt DEF Nodes!Text, Nodes!Has, Nodes!None
<1>. QED
  BY <1>same, <1>type, <1>flow, <1>obfs, <1>obfspassword, <1>alpn, <1>clientfingerprint, <1>up, <1>down,
     <1>udprelaymode,
     <1>plugin, <1>tfo, <1>alterId, <1>names, <1>network, <1>wsopts, <1>grpc, <1>realityopts, <1>packetencoding,
       <1>tls1,
     <1>udp, <1>skip, <1>cipher, <1>uuid, <1>username, <1>password, FieldsAre DEF FieldNames

\* A VMess link that is written is read back with its meaning.
LEMMA VMessReadBack ==
  ASSUME NEW n, Node(n), Nodes!Portable(n), n["type"] = "vmess", NEW q, q = Nodes!VMessLink(n)
  PROVE  Nodes!Parse(q) # Nodes!Fail /\ Nodes!Meaning("uri", Nodes!Parse(q)) = Nodes!Meaning("uri", n)
<1> DEFINE m == Nodes!FromVMess(q)
<1>0. Nodes!VMessOk(q)
  BY VMessAccepted
<1>1. /\ m["type"] = n["type"]
      /\ \A k \in Nodes!Fields : Nodes!Sense("uri", m, k) = Nodes!Sense("uri", n, k)
  BY VMessSense
<1>2. m # Nodes!Fail
  BY <1>0, VMessDomains, NotFail
<1>3. Nodes!Validated(m)
  <2>1. Nodes!Given(n, "uuid")
    BY PortableTls DEF Nodes!Validated, Nodes!Required
  <2>2. Nodes!Sense("uri", n, "uuid") = Nodes!Text(n, "uuid") /\ Nodes!Sense("uri", m, "uuid") = Nodes!Text(m,
          "uuid")
    BY SenseAt
  <2>3. "uuid" \in Nodes!Fields
    BY FieldsAre DEF FieldNames
  <2>4. Nodes!Text(m, "uuid") = Nodes!Text(n, "uuid")
    BY <1>1, <2>2, <2>3
  <2>5. Nodes!Given(m, "uuid")
    BY <2>1, <2>4 DEF Nodes!Given
  <2>. QED
    BY <1>1, <2>5 DEF Nodes!Validated, Nodes!Required
<1>4. q["scheme"] = "vmess"
  BY VMessLinkAt
<1>5. Nodes!Parse(q) = m
  BY <1>2, <1>3, <1>4 DEF Nodes!Parse
<1>6. Nodes!Meaning("uri", m) = Nodes!Meaning("uri", n)
  BY <1>1, SameMeaning
<1>. QED
  BY <1>2, <1>5, <1>6

\* A node that can be written as a link is read back from it with the same meaning.
LEMMA NodeReadBack ==
  ASSUME NEW n, Node(n), ~(n["type"] = "anytls" /\ Nodes!Has(n, "reality-opts")), Nodes!ToURI(n) # Nodes!Fail
  PROVE  LET q == Nodes!ToURI(n) IN
         Nodes!Parse(q) # Nodes!Fail /\ Nodes!Meaning("uri", Nodes!Parse(q)) = Nodes!Meaning("uri", n)
<1>1. Nodes!Portable(n)
  BY DEF Nodes!ToURI
<1>2. CASE n["type"] = "vmess"
  <2>1. Nodes!ToURI(n) = Nodes!VMessLink(n)
    BY <1>1, <1>2 DEF Nodes!ToURI
  <2>. QED
    BY <1>1, <1>2, <2>1, VMessReadBack
<1>3. CASE n["type"] # "vmess"
  <2>1. Nodes!ToURI(n) = Nodes!Link(n)
    BY <1>1, <1>3 DEF Nodes!ToURI
  <2>2. ~(n["type"] = "anytls" /\ n["reality-opts"] # "absent")
    BY DEF Nodes!Has, Nodes!None
  <2>. QED
    BY <1>1, <1>3, <2>1, <2>2, LinkReadBack
<1>. QED
  BY <1>2, <1>3

\* What nodes begin with are nodes.
LEMMA BasesAreNodes ==
  ASSUME NEW t \in Nodes!Protocols, NEW n \in Nodes!Bases(t)
  PROVE  Node(n)
<1> DEFINE base == [k \in Nodes!Fields |->
                      IF k = "type" THEN t
                      ELSE Nodes!Opt(k \in Nodes!Required(t), IF k = "cipher" THEN "aes-128-gcm" ELSE "p")]
<1>1. Node(base)
  <2>1. Nodes!Required(t) \subseteq {"cipher", "password", "uuid"}
    BY DEF Nodes!Protocols, Nodes!Required
  <2>2. "aes-128-gcm" \in Nodes!Values("cipher") /\ "p" \in Nodes!Values("password")
          /\ "p" \in Nodes!Values("uuid")
    BY DEF Nodes!Values
  <2>3. ASSUME NEW k \in Nodes!Fields \ {"type"} PROVE base[k] \in Nodes!Values(k) \cup {Nodes!None}
    BY <2>1, <2>2 DEF Nodes!Opt
  <2>4. "type" \in Nodes!Fields
    BY FieldsAre DEF FieldNames
  <2>. QED
    BY <2>3, <2>4 DEF Node
<1>2. /\ n = base
      \/ /\ t \in {"vmess", "vless", "trojan"}
         /\ \/ n = [base EXCEPT !["tls"] = "true", !["network"] = "ws", !["ws-opts"] = "both"]
            \/ n = [base EXCEPT !["tls"] = "true", !["network"] = "grpc", !["grpc-opts"] = "s"]
            \/ n = [base EXCEPT !["tls"] = "true", !["reality-opts"] = "both"]
  BY DEF Nodes!Bases
<1>3. /\ "true" \in Nodes!Values("tls") /\ "ws" \in Nodes!Values("network")
           /\ "grpc" \in Nodes!Values("network")
      /\ "both" \in Nodes!Values("ws-opts") /\ "s" \in Nodes!Values("grpc-opts")
      /\ "both" \in Nodes!Values("reality-opts")
  BY DEF Nodes!Values
<1>4. ASSUME NEW m, Node(m), NEW k \in Nodes!Fields \ {"type"}, NEW v \in Nodes!Values(k)
      PROVE  Node([m EXCEPT ![k] = v])
  BY <1>4 DEF Node
<1>5. {"tls", "network", "ws-opts", "grpc-opts", "reality-opts"} \subseteq Nodes!Fields \ {"type"}
  BY FieldsAre DEF FieldNames
<1>. HIDE DEF base
<1>6. Node([base EXCEPT !["tls"] = "true"])
  BY <1>1, <1>3, <1>4, <1>5
<1>7. /\ Node([base EXCEPT !["tls"] = "true", !["network"] = "ws"])
      /\ Node([base EXCEPT !["tls"] = "true", !["network"] = "grpc"])
  BY <1>6, <1>3, <1>4, <1>5
<1>8. /\ Node([base EXCEPT !["tls"] = "true", !["network"] = "ws", !["ws-opts"] = "both"])
      /\ Node([base EXCEPT !["tls"] = "true", !["network"] = "grpc", !["grpc-opts"] = "s"])
      /\ Node([base EXCEPT !["tls"] = "true", !["reality-opts"] = "both"])
  BY <1>6, <1>7, <1>3, <1>4, <1>5
<1>. QED
  BY <1>1, <1>2, <1>8

\* What nodes become when they get a field are nodes.
LEMMA FieldsKeepNodes ==
  ASSUME Node(doc), form = "node", Nodes!AddField
  PROVE  Node(doc') /\ form' = "node" /\ doc'["type"] = doc["type"]
<1>1. PICK k \in Nodes!FieldsFor(doc["type"]) \cup {"plugin"} : Nodes!Add(k, Nodes!Values(k))
  BY DEF Nodes!AddField
<1>2. k \in Nodes!Fields
  BY <1>1 DEF Node, Nodes!Fields
<1>3. "type" \in Nodes!Fields /\ doc["type"] # Nodes!None
  BY FieldsAre DEF FieldNames, Node, Nodes!Protocols, Nodes!None
<1>4. k # "type"
  BY <1>1, <1>3 DEF Nodes!Add, Nodes!Has
<1>5. PICK v \in Nodes!Values(k) : doc' = [doc EXCEPT ![k] = v]
  BY <1>1 DEF Nodes!Add
<1>6. Node(doc')
  BY <1>2, <1>3, <1>4, <1>5 DEF Node
<1>7. doc'["type"] = doc["type"]
  BY <1>3, <1>4, <1>5 DEF Node
<1>. QED
  BY <1>6, <1>7 DEF Nodes!AddField

\* The invariant: a document is a node or a link, and a node is one.
DocumentInv == form \in {"node", "link"} /\ (form = "node" => Node(doc))

\* A document is a node or a link at every moment, and a node has a legal value for every field.
THEOREM DocumentInvariant == Nodes!Spec => []DocumentInv
<1>1. Nodes!Init => DocumentInv
  BY BasesAreNodes, TypesAssumption DEF Nodes!Init, DocumentInv
<1>2. DocumentInv /\ [Nodes!Next]_(Nodes!vars) => DocumentInv'
  <2> SUFFICES ASSUME DocumentInv, [Nodes!Next]_(Nodes!vars) PROVE DocumentInv'
    OBVIOUS
  <2>1. CASE Nodes!AddField
    <3>1. form = "node" /\ Node(doc)
      BY <2>1 DEF Nodes!AddField, DocumentInv
    <3>2. Node(doc)' /\ form' = "node"
      BY <2>1, <3>1, FieldsKeepNodes DEF Node
    <3>. QED
      BY <3>2 DEF DocumentInv
  <2>2. CASE Nodes!AddParameter
    BY <2>2 DEF Nodes!AddParameter, DocumentInv
  <2>3. CASE UNCHANGED Nodes!vars
    BY <2>3 DEF Nodes!vars, DocumentInv, Node
  <2>. QED
    BY <2>1, <2>2, <2>3 DEF Nodes!Next
<1>. QED
  BY <1>1, <1>2, PTL DEF Nodes!Spec

\* A node that is written as a link (toURI) is read again as the same node (parseURI,
\* parseVMess), whatever its fields are and however many it was given.
THEOREM LinksReadBack == Nodes!Spec => []RoundTrip
<1>1. DocumentInv => RoundTrip
  <2> SUFFICES ASSUME form = "node", Node(doc), ~(doc["type"] = "anytls" /\ Nodes!Has(doc, "reality-opts")),
                      Nodes!ToURI(doc) # Nodes!Fail
               PROVE  /\ Nodes!Parse(Nodes!ToURI(doc)) # Nodes!Fail
                      /\ Nodes!Meaning("uri", Nodes!Parse(Nodes!ToURI(doc))) = Nodes!Meaning("uri", doc)
    BY DEF RoundTrip, Nodes!RoundTrip, DocumentInv
  <2>. QED
    BY NodeReadBack
<1>. QED
  BY <1>1, DocumentInvariant, PTL

\* What validateTransport leaves of a node.
LEMMA ExportableFacts ==
  ASSUME NEW n, Node(n), Nodes!Exportable(n)
  PROVE  /\ Nodes!Used(n) \subseteq Nodes!FieldsFor(n["type"])
         /\ Nodes!Validated(n)
         /\ Nodes!Transport(n) \in {"tcp", "ws", "grpc"}
         /\ n["type"] = "anytls" => Nodes!Transport(n) = "tcp"
         /\ n["ws-opts"] # "absent" => Nodes!Transport(n) = "ws"
         /\ n["grpc-opts"] # "absent" => Nodes!Transport(n) = "grpc"
         /\ n["type"] = "hysteria2" /\ n["obfs"] # "absent" => n["obfs-password"] # "absent"
         /\ n["type"] \in Nodes!AlwaysSecure => n["tls"] # "false"
<1>1. n["type"] = "hysteria2" /\ Nodes!Given(n, "obfs") => Nodes!Given(n, "obfs-password")
  BY DEF Nodes!Exportable
<1>2. n["obfs"] # "absent" => Nodes!Given(n, "obfs")
  BY NodeValues, BlankIsOther DEF Nodes!Given, Nodes!Text, Nodes!Has, Nodes!None
<1>3. Nodes!Given(n, "obfs-password") => n["obfs-password"] # "absent"
  BY DEF Nodes!Given, Nodes!Text, Nodes!Has, Nodes!None
<1>4. /\ Nodes!Used(n) \subseteq Nodes!FieldsFor(n["type"])
      /\ Nodes!Validated(n)
  BY DEF Nodes!Exportable
<1>5. /\ Nodes!Transport(n) \in {"tcp", "ws", "grpc"}
      /\ n["type"] = "anytls" => Nodes!Transport(n) = "tcp"
      /\ Nodes!Has(n, "ws-opts") => Nodes!Transport(n) = "ws"
      /\ Nodes!Has(n, "grpc-opts") => Nodes!Transport(n) = "grpc"
  BY DEF Nodes!Exportable
<1>6. n["type"] \in Nodes!AlwaysSecure => n["tls"] # "false"
  BY DEF Nodes!Exportable
<1>. QED
  BY <1>1, <1>2, <1>3, <1>4, <1>5, <1>6 DEF Nodes!Has, Nodes!None

\* The types that a field belongs to, for the fields few types have.
LEMMA OnlyFor ==
  ASSUME NEW n, Node(n), Nodes!Used(n) \subseteq Nodes!FieldsFor(n["type"])
  PROVE  /\ n["type"] \notin {"ss", "vmess"} => n["cipher"] = "absent"
         /\ n["type"] \notin {"http", "socks5"} => n["username"] = "absent"
         /\ n["type"] \notin {"vmess", "vless", "tuic"} => n["uuid"] = "absent"
         /\ n["type"] \notin {"vmess"} => n["alterId"] = "absent"
         /\ n["type"] \notin {"hysteria2"} => n["obfs"] = "absent"
         /\ n["type"] \notin {"hysteria2"} => n["obfs-password"] = "absent"
         /\ n["type"] \notin {"hysteria2"} => n["up"] = "absent"
         /\ n["type"] \notin {"hysteria2"} => n["down"] = "absent"
         /\ n["type"] \notin {"tuic"} => n["udp-relay-mode"] = "absent"
         /\ n["plugin"] = "absent"
         /\ n["type"] \notin {"trojan", "vmess", "vless", "anytls"} => n["network"] = "absent"
<1>0. \A k \in FieldNames : k \notin Nodes!FieldsFor(n["type"]) => n[k] = "absent"
  BY FieldsAre DEF Node, Nodes!Used, Nodes!Has, Nodes!None
<1>t. n["type"] \in Nodes!Protocols
  BY DEF Node
<1>. QED
  BY <1>0, <1>t, FieldsOfTypes DEF FieldNames, Nodes!Protocols

\* toLoon: every part of a line, one by one.
LEMMA LoonLineAt ==
  ASSUME NEW n
  PROVE  /\ Nodes!LoonLine(n)["kind"] = (IF n["type"] = "http" /\ Nodes!Secure(n) THEN "https" ELSE n["type"])
         /\ Nodes!LoonLine(n)["user"] = (IF Nodes!Login(n) THEN Nodes!Text(n, "username")
              ELSE Nodes!Said(Nodes!Text(n, "uuid")))
         /\ Nodes!LoonLine(n)["password"] = (IF Nodes!Login(n) THEN Nodes!Text(n, "password")
              ELSE Nodes!Said(Nodes!Text(n, "password")))
         /\ Nodes!LoonLine(n)["cipher"] = (CASE n["type"] = "vmess" -> Nodes!LoonCipher(Nodes!Text(n, "cipher"))
              [] n["type"] = "ss" -> n["cipher"] [] OTHER -> Nodes!None)
         /\ Nodes!LoonLine(n)["alterId"] = (Nodes!Opt(n["type"] = "vmess", IF Nodes!Has(n, "alterId")
              THEN n["alterId"] ELSE "0"))
         /\ Nodes!LoonLine(n)["flow"] = (Nodes!Said(Nodes!Text(n, "flow")))
         /\ Nodes!LoonLine(n)["alpn"] = (Nodes!Said(Nodes!Text(n, "alpn")))
         /\ Nodes!LoonLine(n)["download-bandwidth"] = (Nodes!Said(Nodes!Text(n, "down")))
         /\ Nodes!LoonLine(n)["salamander-password"] = (n["obfs-password"])
         /\ Nodes!LoonLine(n)["transport"] = (Nodes!Opt(n["type"] \in {"vmess", "vless", "trojan"},
              Nodes!Transport(n)))
         /\ Nodes!LoonLine(n)["path"] = (Nodes!Opt(Nodes!Transport(n) = "ws", Nodes!WsPath(n)))
         /\ Nodes!LoonLine(n)["host"] = (Nodes!Opt(Nodes!Transport(n) = "ws", Nodes!Said(Nodes!WsHost(n))))
         /\ Nodes!LoonLine(n)["over-tls"] = (Nodes!Opt(n["type"] \in {"vmess", "vless", "socks5"}
              /\ Nodes!Has(n, "tls"), Nodes!Bool(Nodes!Secure(n))))
         /\ Nodes!LoonLine(n)["sni"] = (Nodes!Said(Nodes!ServerName(n)))
         /\ Nodes!LoonLine(n)["tls-profile"] = (Nodes!Opt(Nodes!Has(n, "client-fingerprint"), "chrome"))
         /\ Nodes!LoonLine(n)["public-key"] = (Nodes!PublicKey(n))
         /\ Nodes!LoonLine(n)["short-id"] = (Nodes!ShortId(n))
         /\ Nodes!LoonLine(n)["udp"] = (n["udp"])
         /\ Nodes!LoonLine(n)["tfo"] = (n["tfo"])
         /\ Nodes!LoonLine(n)["skip-cert-verify"] = (n["skip-cert-verify"])
  BY DEF Nodes!LoonLine, Nodes!LoonKeys

\* toEgern: every part of a proxy, one by one.
LEMMA EgernProxyAt ==
  ASSUME NEW n
  PROVE  /\ Nodes!EgernProxy(n)["protocol"] = (Nodes!EgernProtocol(n))
         /\ Nodes!EgernProxy(n)["udp_relay"] = (n["udp"])
         /\ Nodes!EgernProxy(n)["tfo"] = (n["tfo"])
         /\ Nodes!EgernProxy(n)["flow"] = (n["flow"])
         /\ Nodes!EgernProxy(n)["username"] = (n["username"])
         /\ Nodes!EgernProxy(n)["password"] = (n["password"])
         /\ Nodes!EgernProxy(n)["udp-relay-mode"] = (n["udp-relay-mode"])
         /\ Nodes!EgernProxy(n)["obfs"] = (n["obfs"])
         /\ Nodes!EgernProxy(n)["obfs-password"] = (n["obfs-password"])
         /\ Nodes!EgernProxy(n)["user_id"] = (n["uuid"])
         /\ Nodes!EgernProxy(n)["bandwidth"] = (Nodes!Said(Nodes!Text(n, "up")))
         /\ Nodes!EgernProxy(n)["method"] = (Nodes!Opt(n["type"] = "ss", n["cipher"]))
         /\ Nodes!EgernProxy(n)["security"] = (Nodes!Opt(n["type"] = "vmess", IF Nodes!Given(n, "cipher")
              THEN n["cipher"] ELSE "auto"))
         /\ Nodes!EgernProxy(n)["sni"] = (Nodes!Said(Nodes!ServerName(n)))
         /\ Nodes!EgernProxy(n)["skip_tls_verify"] = (IF n["type"] = "anytls" /\ ~Nodes!Has(n,
              "skip-cert-verify") THEN "false" ELSE n["skip-cert-verify"])
         /\ Nodes!EgernProxy(n)["public_key"] = (Nodes!PublicKey(n))
         /\ Nodes!EgernProxy(n)["short_id"] = (Nodes!ShortId(n))
         /\ Nodes!EgernProxy(n)["alpn"] = (Nodes!Opt(n["type"] = "tuic", n["alpn"]))
         /\ Nodes!EgernProxy(n)["path"] = (Nodes!EgernPath(n))
         /\ Nodes!EgernProxy(n)["host"] = (Nodes!Opt(Nodes!Transport(n) = "ws", Nodes!WsHost(n)))
         /\ Nodes!EgernProxy(n)["more"] = (Nodes!Opt(Nodes!Transport(n) = "ws", Nodes!Bool(~Nodes!HostOnly(n))))
         /\ Nodes!EgernProxy(n)["transport"] = (Nodes!EgernTransport(n))
         /\ Nodes!EgernProxy(n)["service_name"] = (Nodes!Opt(Nodes!Transport(n) = "grpc", Nodes!Text(n,
              "grpc-opts")))
  BY DEF Nodes!EgernProxy, Nodes!EgernKeys

\* What a line for Loon says of the node it was made from.
LEMMA LoonSays ==
  ASSUME NEW n, Node(n), Nodes!LoonOk(n), NEW q, q = Nodes!LoonLine(n)
  PROVE  /\ Nodes!Sense("loon", n, "type") = (n["type"])
         /\ Nodes!Sense("loon", n, "cipher") = (Nodes!Text(q, "cipher"))
         /\ Nodes!Sense("loon", n, "password") = (Nodes!Text(q, "password"))
         /\ Nodes!Sense("loon", n, "username") = (IF n["type"] \in {"http", "socks5"} THEN Nodes!Text(q, "user")
              ELSE Nodes!Blank)
         /\ Nodes!Sense("loon", n, "uuid") = (IF n["type"] \in {"http", "socks5"} THEN Nodes!Blank
              ELSE Nodes!Text(q, "user"))
         /\ Nodes!Sense("loon", n, "udp") = (Nodes!Bool(Nodes!Flag(q, "udp")))
         /\ Nodes!Sense("loon", n, "tfo") = (Nodes!Bool(Nodes!Flag(q, "tfo")))
         /\ Nodes!Sense("loon", n, "skip-cert-verify") = (Nodes!Bool(Nodes!Flag(q, "skip-cert-verify")))
         /\ Nodes!Sense("loon", n, "network") = (IF Nodes!Has(q, "transport") THEN q["transport"] ELSE "tcp")
         /\ Nodes!Sense("loon", n, "ws-opts") = (Nodes!WsOf(Nodes!Text(q, "path"), Nodes!Text(q, "host")))
         /\ Nodes!Sense("loon", n, "reality-opts") = (IF Nodes!Has(q, "short-id") THEN "both" ELSE Nodes!Text(q,
              "public-key"))
         /\ Nodes!Sense("loon", n, "alpn") = (Nodes!Text(q, "alpn"))
         /\ Nodes!Sense("loon", n, "flow") = (Nodes!Text(q, "flow"))
         /\ Nodes!Sense("loon", n, "client-fingerprint") = (Nodes!Text(q, "tls-profile"))
         /\ Nodes!Sense("loon", n, "tls") = (Nodes!Bool(q["over-tls"] = "true" \/ q["kind"] = "https"
              \/ n["type"] \in Nodes!AlwaysSecure))
         /\ Nodes!Sense("loon", n, "servername") = (Nodes!Text(q, "sni"))
         /\ Nodes!Sense("loon", n, "sni") = (Nodes!Text(q, "sni"))
         /\ Nodes!Sense("loon", n, "alterId") = (IF Nodes!Has(q, "alterId") THEN q["alterId"] ELSE "0")
         /\ Nodes!Sense("loon", n, "grpc-opts") = (Nodes!Blank)
         /\ Nodes!Sense("loon", n, "obfs") = (IF Nodes!Has(q, "salamander-password") THEN "salamander"
              ELSE Nodes!Blank)
         /\ Nodes!Sense("loon", n, "obfs-password") = (Nodes!Text(q, "salamander-password"))
         /\ Nodes!Sense("loon", n, "up") = (Nodes!Blank)
         /\ Nodes!Sense("loon", n, "down") = (Nodes!Text(q, "download-bandwidth"))
         /\ Nodes!Sense("loon", n, "udp-relay-mode") = (Nodes!Blank)
         /\ Nodes!Sense("loon", n, "plugin") = (Nodes!Blank)
<1>t. n["type"] \in Nodes!Protocols
  BY DEF Node
<1>ok. Nodes!Exportable(n)
  BY DEF Nodes!LoonOk
<1>only. /\ n["type"] \notin {"ss", "vmess"} => n["cipher"] = "absent"
         /\ n["type"] \notin {"http", "socks5"} => n["username"] = "absent"
         /\ n["type"] \notin {"vmess", "vless", "tuic"} => n["uuid"] = "absent"
         /\ n["type"] \notin {"vmess"} => n["alterId"] = "absent"
         /\ n["type"] \notin {"hysteria2"} => n["obfs"] = "absent"
         /\ n["type"] \notin {"hysteria2"} => n["obfs-password"] = "absent"
         /\ n["type"] \notin {"hysteria2"} => n["up"] = "absent"
         /\ n["type"] \notin {"hysteria2"} => n["down"] = "absent"
         /\ n["type"] \notin {"tuic"} => n["udp-relay-mode"] = "absent"
         /\ n["plugin"] = "absent"
         /\ n["type"] \notin {"trojan", "vmess", "vless", "anytls"} => n["network"] = "absent"
  BY <1>ok, ExportableFacts, OnlyFor
<1>tcp. n["type"] \notin {"vmess", "vless", "trojan"} => Nodes!Transport(n) = "tcp"
  <2>1. n["type"] \in {"ss", "http", "socks5", "hysteria2", "tuic"} => n["network"] = "absent"
    BY <1>only
  <2>. QED
    BY <1>t, <1>ok, <2>1, ExportableFacts DEF Nodes!Transport, Nodes!Given, Nodes!Text, Nodes!Has, Nodes!None,
       Nodes!Protocols
<1>name. Nodes!ServerName(n) \in {Nodes!Blank, "a", "b"}
  BY NodeValues DEF Nodes!ServerName, Nodes!Said, Nodes!Opt, Nodes!Text, Nodes!Has, Nodes!None, Nodes!Given
<1>loon. /\ n["type"] = "hysteria2" => ~Nodes!Has(n, "up") /\ Nodes!ObfsOk(n)
         /\ n["type"] \in {"vmess", "vless", "trojan"} => Nodes!HostOnly(n)
         /\ Nodes!Given(n, "client-fingerprint") => n["client-fingerprint"] = "chrome"
         /\ Nodes!Transport(n) # "grpc" /\ n["type"] # "tuic"
  BY DEF Nodes!LoonOk
<1>ftype. Nodes!Sense("loon", n, "type") = (n["type"])
  BY <1>t, SenseAt DEF Nodes!Text, Nodes!Has, Nodes!None, Nodes!Protocols
<1>fcipher. Nodes!Sense("loon", n, "cipher") = (Nodes!Text(q, "cipher"))
  <2>1. q["cipher"] = (CASE n["type"] = "vmess" -> Nodes!LoonCipher(Nodes!Text(n, "cipher"))
          [] n["type"] = "ss" -> n["cipher"] [] OTHER -> Nodes!None)
    BY LoonLineAt
  <2>2. n["cipher"] \in {"auto", "aes-128-gcm", "chacha20-poly1305", "odd", "absent"}
    BY NodeValues
  <2>3. n["type"] \notin {"ss", "vmess"} => n["cipher"] = "absent"
    BY <1>only
  <2>4. Nodes!Sense("loon", n, "cipher") = (IF n["type"] = "vmess" THEN Nodes!LoonCipher(Nodes!Text(n,
          "cipher")) ELSE Nodes!Text(n, "cipher"))
    BY SenseAt
  <2>. QED
    BY <2>1, <2>2, <2>3, <2>4, BlankIsOther DEF Nodes!Said, Nodes!Opt, Nodes!Text, Nodes!Has, Nodes!None,
       Nodes!Given, Nodes!LoonCipher
<1>fpassword. Nodes!Sense("loon", n, "password") = (Nodes!Text(q, "password"))
  <2>1. q["password"] = (IF Nodes!Login(n) THEN Nodes!Text(n, "password") ELSE Nodes!Said(Nodes!Text(n,
          "password")))
    BY LoonLineAt
  <2>2. n["password"] \in {"p", "quote", "absent"}
    BY NodeValues
  <2>3. Nodes!Sense("loon", n, "password") = (Nodes!Text(n, "password"))
    BY SenseAt
  <2>. QED
    BY <2>1, <2>2, <2>3, BlankIsOther DEF Nodes!Said, Nodes!Opt, Nodes!Text, Nodes!Has, Nodes!None, Nodes!Given,
       Nodes!Login
<1>fusername. Nodes!Sense("loon", n, "username") = (IF n["type"] \in {"http", "socks5"} THEN Nodes!Text(q,
                "user") ELSE Nodes!Blank)
  <2>1. q["user"] = (IF Nodes!Login(n) THEN Nodes!Text(n, "username") ELSE Nodes!Said(Nodes!Text(n, "uuid")))
    BY LoonLineAt
  <2>2. n["type"] \notin {"http", "socks5"} => n["username"] = "absent"
    BY <1>only
  <2>3. n["username"] \in {"p", "quote", "absent"}
    BY NodeValues
  <2>4. n["type"] \in {"http", "socks5"} => n["uuid"] = "absent"
    BY <1>only
  <2>5. Nodes!Sense("loon", n, "username") = (Nodes!Text(n, "username"))
    BY SenseAt
  <2>. QED
    BY <2>1, <2>2, <2>3, <2>4, <2>5, BlankIsOther DEF Nodes!Said, Nodes!Opt, Nodes!Text, Nodes!Has, Nodes!None,
       Nodes!Given, Nodes!Login
<1>fuuid. Nodes!Sense("loon", n, "uuid") = (IF n["type"] \in {"http", "socks5"} THEN Nodes!Blank
            ELSE Nodes!Text(q, "user"))
  <2>1. q["user"] = (IF Nodes!Login(n) THEN Nodes!Text(n, "username") ELSE Nodes!Said(Nodes!Text(n, "uuid")))
    BY LoonLineAt
  <2>2. n["uuid"] \in {"p", "quote", "absent"}
    BY NodeValues
  <2>3. n["type"] \in {"http", "socks5"} => n["uuid"] = "absent"
    BY <1>only
  <2>4. Nodes!Sense("loon", n, "uuid") = (Nodes!Text(n, "uuid"))
    BY SenseAt
  <2>. QED
    BY <2>1, <2>2, <2>3, <2>4, BlankIsOther DEF Nodes!Said, Nodes!Opt, Nodes!Text, Nodes!Has, Nodes!None,
       Nodes!Given, Nodes!Login
<1>fudp. Nodes!Sense("loon", n, "udp") = (Nodes!Bool(Nodes!Flag(q, "udp")))
  <2>1. q["udp"] = (n["udp"])
    BY LoonLineAt
  <2>2. Nodes!Sense("loon", n, "udp") = Nodes!Bool(Nodes!Flag(n, "udp"))
    BY SenseAt
  <2>. QED
    BY <2>1, <2>2, BlankIsOther DEF Nodes!Said, Nodes!Opt, Nodes!Text, Nodes!Has, Nodes!None, Nodes!Given,
       Nodes!Flag
<1>ftfo. Nodes!Sense("loon", n, "tfo") = (Nodes!Bool(Nodes!Flag(q, "tfo")))
  <2>1. q["tfo"] = (n["tfo"])
    BY LoonLineAt
  <2>2. Nodes!Sense("loon", n, "tfo") = (Nodes!Bool(Nodes!Flag(n, "tfo")))
    BY SenseAt
  <2>. QED
    BY <2>1, <2>2, BlankIsOther DEF Nodes!Said, Nodes!Opt, Nodes!Text, Nodes!Has, Nodes!None, Nodes!Given,
       Nodes!Flag
<1>fskipcertverify. Nodes!Sense("loon", n, "skip-cert-verify") = (Nodes!Bool(Nodes!Flag(q, "skip-cert-verify")))
  <2>1. q["skip-cert-verify"] = (n["skip-cert-verify"])
    BY LoonLineAt
  <2>2. Nodes!Sense("loon", n, "skip-cert-verify") = (Nodes!Bool(Nodes!Flag(n, "skip-cert-verify")))
    BY SenseAt
  <2>. QED
    BY <2>1, <2>2, BlankIsOther DEF Nodes!Said, Nodes!Opt, Nodes!Text, Nodes!Has, Nodes!None, Nodes!Given,
       Nodes!Flag
<1>fnetwork. Nodes!Sense("loon", n, "network") = (IF Nodes!Has(q, "transport") THEN q["transport"] ELSE "tcp")
  <2>1. q["transport"] = (Nodes!Opt(n["type"] \in {"vmess", "vless", "trojan"}, Nodes!Transport(n)))
    BY LoonLineAt
  <2>2. n["type"] \notin {"vmess", "vless", "trojan"} => Nodes!Transport(n) = "tcp"
    BY <1>tcp
  <2>3. Nodes!Transport(n) \in {"tcp", "ws", "grpc"}
    BY <1>ok, ExportableFacts
  <2>4. Nodes!Sense("loon", n, "network") = (Nodes!Transport(n))
    BY SenseAt
  <2>. QED
    BY <2>1, <2>2, <2>3, <2>4, BlankIsOther DEF Nodes!Said, Nodes!Opt, Nodes!Text, Nodes!Has, Nodes!None,
       Nodes!Given
<1>fwsopts. Nodes!Sense("loon", n, "ws-opts") = (Nodes!WsOf(Nodes!Text(q, "path"), Nodes!Text(q, "host")))
  <2>1. q["path"] = (Nodes!Opt(Nodes!Transport(n) = "ws", Nodes!WsPath(n)))
    BY LoonLineAt
  <2>2. q["host"] = (Nodes!Opt(Nodes!Transport(n) = "ws", Nodes!Said(Nodes!WsHost(n))))
    BY LoonLineAt
  <2>3. n["type"] \notin {"vmess", "vless", "trojan"} => Nodes!Transport(n) = "tcp"
    BY <1>tcp
  <2>4. Nodes!Transport(n) # "ws" => n["ws-opts"] = "absent"
    BY <1>ok, ExportableFacts
  <2>5. n["ws-opts"] \in {"none", "path", "host", "both", "other", "absent"}
    BY NodeValues
  <2>6. n["type"] \in {"vmess", "vless", "trojan"} => n["ws-opts"] # "other"
    BY <1>loon DEF Nodes!HostOnly
  <2>7. Nodes!Sense("loon", n, "ws-opts") = (IF ~Nodes!HostOnly(n) THEN "other" ELSE Nodes!WsOf(Nodes!WsPath(n),
          Nodes!WsHost(n)))
    BY SenseAt
  <2>. QED
    BY <2>1, <2>2, <2>3, <2>4, <2>5, <2>6, <2>7, BlankIsOther DEF Nodes!Said, Nodes!Opt, Nodes!Text, Nodes!Has,
       Nodes!None, Nodes!Given, Nodes!HostOnly, Nodes!WsOf, Nodes!WsPath, Nodes!WsHost
<1>frealityopts. Nodes!Sense("loon", n, "reality-opts") = (IF Nodes!Has(q, "short-id") THEN "both"
                   ELSE Nodes!Text(q, "public-key"))
  <2>1. q["public-key"] = (Nodes!PublicKey(n))
    BY LoonLineAt
  <2>2. q["short-id"] = (Nodes!ShortId(n))
    BY LoonLineAt
  <2>3. n["reality-opts"] \in {"key", "both", "absent"}
    BY NodeValues
  <2>4. Nodes!Sense("loon", n, "reality-opts") = (Nodes!Text(n, "reality-opts"))
    BY SenseAt
  <2>. QED
    BY <2>1, <2>2, <2>3, <2>4, BlankIsOther DEF Nodes!Said, Nodes!Opt, Nodes!Text, Nodes!Has, Nodes!None,
       Nodes!Given, Nodes!PublicKey, Nodes!ShortId
<1>falpn. Nodes!Sense("loon", n, "alpn") = (Nodes!Text(q, "alpn"))
  <2>1. q["alpn"] = (Nodes!Said(Nodes!Text(n, "alpn")))
    BY LoonLineAt
  <2>2. n["alpn"] \in {"h2", "bad", "absent"}
    BY NodeValues
  <2>3. Nodes!Sense("loon", n, "alpn") = (Nodes!Text(n, "alpn"))
    BY SenseAt
  <2>. QED
    BY <2>1, <2>2, <2>3, BlankIsOther DEF Nodes!Said, Nodes!Opt, Nodes!Text, Nodes!Has, Nodes!None, Nodes!Given
<1>fflow. Nodes!Sense("loon", n, "flow") = (Nodes!Text(q, "flow"))
  <2>1. q["flow"] = (Nodes!Said(Nodes!Text(n, "flow")))
    BY LoonLineAt
  <2>2. n["flow"] \in {"xtls-rprx-vision", "odd", "absent"}
    BY NodeValues
  <2>3. Nodes!Sense("loon", n, "flow") = (Nodes!Text(n, "flow"))
    BY SenseAt
  <2>. QED
    BY <2>1, <2>2, <2>3, BlankIsOther DEF Nodes!Said, Nodes!Opt, Nodes!Text, Nodes!Has, Nodes!None, Nodes!Given
<1>fclientfingerprint. Nodes!Sense("loon", n, "client-fingerprint") = (Nodes!Text(q, "tls-profile"))
  <2>1. q["tls-profile"] = (Nodes!Opt(Nodes!Has(n, "client-fingerprint"), "chrome"))
    BY LoonLineAt
  <2>2. n["client-fingerprint"] \in {"chrome", "safari", "absent"}
    BY NodeValues
  <2>3. Nodes!Given(n, "client-fingerprint") => n["client-fingerprint"] = "chrome"
    BY <1>loon
  <2>4. Nodes!Sense("loon", n, "client-fingerprint") = (Nodes!Text(n, "client-fingerprint"))
    BY SenseAt
  <2>. QED
    BY <2>1, <2>2, <2>3, <2>4, BlankIsOther DEF Nodes!Said, Nodes!Opt, Nodes!Text, Nodes!Has, Nodes!None,
       Nodes!Given
<1>ftls. Nodes!Sense("loon", n, "tls") = (Nodes!Bool(q["over-tls"] = "true" \/ q["kind"] = "https"
           \/ n["type"] \in Nodes!AlwaysSecure))
  <2>1. q["over-tls"] = (Nodes!Opt(n["type"] \in {"vmess", "vless", "socks5"} /\ Nodes!Has(n, "tls"),
          Nodes!Bool(Nodes!Secure(n))))
    BY LoonLineAt
  <2>2. q["kind"] = (IF n["type"] = "http" /\ Nodes!Secure(n) THEN "https" ELSE n["type"])
    BY LoonLineAt
  <2>3. n["tls"] \in {"true", "false", "absent"}
    BY NodeValues
  <2>4. n["type"] \in {"ss"} => n["tls"] = "absent"
    BY <1>ok, ExportableFacts, AbsentFields
  <2>5. n["type"] \in Nodes!Protocols
    BY DEF Node
  <2>6. Nodes!Sense("loon", n, "tls") = (Nodes!Bool(Nodes!Secure(n)))
    BY SenseAt
  <2>. QED
    BY <2>1, <2>2, <2>3, <2>4, <2>5, <2>6, BlankIsOther DEF Nodes!Said, Nodes!Opt, Nodes!Text, Nodes!Has,
       Nodes!None, Nodes!Given, Nodes!Secure, Nodes!Bool, Nodes!Flag, Nodes!AlwaysSecure, Nodes!Protocols
<1>fservername. Nodes!Sense("loon", n, "servername") = (Nodes!Text(q, "sni"))
  <2>1. q["sni"] = (Nodes!Said(Nodes!ServerName(n)))
    BY LoonLineAt
  <2>2. Nodes!ServerName(n) \in {Nodes!Blank, "a", "b"}
    BY <1>name
  <2>3. Nodes!Sense("loon", n, "servername") = (Nodes!ServerName(n))
    BY SenseAt
  <2>. QED
    BY <2>1, <2>2, <2>3, BlankIsOther DEF Nodes!Said, Nodes!Opt, Nodes!Text, Nodes!Has, Nodes!None, Nodes!Given
<1>fsni. Nodes!Sense("loon", n, "sni") = (Nodes!Text(q, "sni"))
  <2>1. q["sni"] = (Nodes!Said(Nodes!ServerName(n)))
    BY LoonLineAt
  <2>2. Nodes!ServerName(n) \in {Nodes!Blank, "a", "b"}
    BY <1>name
  <2>3. Nodes!Sense("loon", n, "sni") = (Nodes!ServerName(n))
    BY SenseAt
  <2>. QED
    BY <2>1, <2>2, <2>3, BlankIsOther DEF Nodes!Said, Nodes!Opt, Nodes!Text, Nodes!Has, Nodes!None, Nodes!Given
<1>falterId. Nodes!Sense("loon", n, "alterId") = (IF Nodes!Has(q, "alterId") THEN q["alterId"] ELSE "0")
  <2>1. q["alterId"] = (Nodes!Opt(n["type"] = "vmess", IF Nodes!Has(n, "alterId") THEN n["alterId"] ELSE "0"))
    BY LoonLineAt
  <2>2. n["type"] # "vmess" => n["alterId"] = "absent"
    BY <1>only
  <2>3. Nodes!Sense("loon", n, "alterId") = (IF Nodes!Has(n, "alterId") THEN n["alterId"] ELSE "0")
    BY SenseAt
  <2>. QED
    BY <2>1, <2>2, <2>3, BlankIsOther DEF Nodes!Said, Nodes!Opt, Nodes!Text, Nodes!Has, Nodes!None, Nodes!Given
<1>fgrpcopts. Nodes!Sense("loon", n, "grpc-opts") = (Nodes!Blank)
  <2>1. n["grpc-opts"] = "absent"
    BY <1>ok, <1>loon, ExportableFacts
  <2>2. Nodes!Sense("loon", n, "grpc-opts") = (Nodes!Text(n, "grpc-opts"))
    BY SenseAt
  <2>. QED
    BY <2>1, <2>2, BlankIsOther DEF Nodes!Said, Nodes!Opt, Nodes!Text, Nodes!Has, Nodes!None, Nodes!Given
<1>fobfs. Nodes!Sense("loon", n, "obfs") = (IF Nodes!Has(q, "salamander-password") THEN "salamander"
            ELSE Nodes!Blank)
  <2>1. q["salamander-password"] = (n["obfs-password"])
    BY LoonLineAt
  <2>2. n["type"] # "hysteria2" => n["obfs"] = "absent" /\ n["obfs-password"] = "absent"
    BY <1>only
  <2>3. n["type"] = "hysteria2" => Nodes!ObfsOk(n)
    BY <1>loon
  <2>4. n["type"] = "hysteria2" /\ n["obfs"] # "absent" => n["obfs-password"] # "absent"
    BY <1>ok, ExportableFacts
  <2>5. Nodes!Sense("loon", n, "obfs") = (Nodes!Text(n, "obfs"))
    BY SenseAt
  <2>. QED
    BY <2>1, <2>2, <2>3, <2>4, <2>5, BlankIsOther DEF Nodes!Said, Nodes!Opt, Nodes!Text, Nodes!Has, Nodes!None,
       Nodes!Given, Nodes!ObfsOk
<1>fobfspassword. Nodes!Sense("loon", n, "obfs-password") = (Nodes!Text(q, "salamander-password"))
  <2>1. q["salamander-password"] = (n["obfs-password"])
    BY LoonLineAt
  <2>2. Nodes!Sense("loon", n, "obfs-password") = (Nodes!Text(n, "obfs-password"))
    BY SenseAt
  <2>. QED
    BY <2>1, <2>2, BlankIsOther DEF Nodes!Said, Nodes!Opt, Nodes!Text, Nodes!Has, Nodes!None, Nodes!Given
<1>fup. Nodes!Sense("loon", n, "up") = (Nodes!Blank)
  <2>1. n["type"] # "hysteria2" => n["up"] = "absent"
    BY <1>only
  <2>2. n["type"] = "hysteria2" => ~Nodes!Has(n, "up")
    BY <1>loon
  <2>3. Nodes!Sense("loon", n, "up") = (Nodes!Text(n, "up"))
    BY SenseAt
  <2>. QED
    BY <2>1, <2>2, <2>3, BlankIsOther DEF Nodes!Said, Nodes!Opt, Nodes!Text, Nodes!Has, Nodes!None, Nodes!Given
<1>fdown. Nodes!Sense("loon", n, "down") = (Nodes!Text(q, "download-bandwidth"))
  <2>1. q["download-bandwidth"] = (Nodes!Said(Nodes!Text(n, "down")))
    BY LoonLineAt
  <2>2. n["down"] \in {"50", "absent"}
    BY NodeValues
  <2>3. Nodes!Sense("loon", n, "down") = (Nodes!Text(n, "down"))
    BY SenseAt
  <2>. QED
    BY <2>1, <2>2, <2>3, BlankIsOther DEF Nodes!Said, Nodes!Opt, Nodes!Text, Nodes!Has, Nodes!None, Nodes!Given
<1>fudprelaymode. Nodes!Sense("loon", n, "udp-relay-mode") = (Nodes!Blank)
  <2>1. n["udp-relay-mode"] = "absent"
    BY <1>only, <1>loon
  <2>2. Nodes!Sense("loon", n, "udp-relay-mode") = (Nodes!Text(n, "udp-relay-mode"))
    BY SenseAt
  <2>. QED
    BY <2>1, <2>2, BlankIsOther DEF Nodes!Said, Nodes!Opt, Nodes!Text, Nodes!Has, Nodes!None, Nodes!Given
<1>fplugin. Nodes!Sense("loon", n, "plugin") = (Nodes!Blank)
  <2>1. n["plugin"] = "absent"
    BY <1>only, <1>loon
  <2>2. Nodes!Sense("loon", n, "plugin") = (Nodes!Text(n, "plugin"))
    BY SenseAt
  <2>. QED
    BY <2>1, <2>2, BlankIsOther DEF Nodes!Said, Nodes!Opt, Nodes!Text, Nodes!Has, Nodes!None, Nodes!Given
<1>. QED
  BY <1>ftype, <1>fcipher, <1>fpassword, <1>fusername, <1>fuuid, <1>fudp, <1>ftfo, <1>fskipcertverify,
     <1>fnetwork, <1>fwsopts, <1>frealityopts, <1>falpn, <1>fflow, <1>fclientfingerprint, <1>ftls,
     <1>fservername, <1>fsni, <1>falterId, <1>fgrpcopts, <1>fobfs, <1>fobfspassword, <1>fup, <1>fdown,
     <1>fudprelaymode, <1>fplugin

\* What a proxy for Egern says of the node it was made from.
LEMMA EgernSays ==
  ASSUME NEW n, Node(n), Nodes!EgernOk(n), NEW q, q = Nodes!EgernProxy(n)
  PROVE  /\ Nodes!Sense("egern", n, "type") = (n["type"])
         /\ Nodes!Sense("egern", n, "cipher") = (IF n["type"] = "vmess" THEN Nodes!LoonCipher(q["security"])
              ELSE Nodes!Text(q, "method"))
         /\ Nodes!Sense("egern", n, "password") = (Nodes!Text(q, "password"))
         /\ Nodes!Sense("egern", n, "username") = (Nodes!Text(q, "username"))
         /\ Nodes!Sense("egern", n, "flow") = (Nodes!Text(q, "flow"))
         /\ Nodes!Sense("egern", n, "obfs") = (Nodes!Text(q, "obfs"))
         /\ Nodes!Sense("egern", n, "obfs-password") = (Nodes!Text(q, "obfs-password"))
         /\ Nodes!Sense("egern", n, "udp-relay-mode") = (Nodes!Text(q, "udp-relay-mode"))
         /\ Nodes!Sense("egern", n, "uuid") = (Nodes!Text(q, "user_id"))
         /\ Nodes!Sense("egern", n, "tfo") = (Nodes!Bool(Nodes!Flag(q, "tfo")))
         /\ Nodes!Sense("egern", n, "udp") = (Nodes!Bool(Nodes!Flag(q, "udp_relay")))
         /\ Nodes!Sense("egern", n, "skip-cert-verify") = (Nodes!Bool(Nodes!Flag(q, "skip_tls_verify")))
         /\ Nodes!Sense("egern", n, "network") = (IF q["transport"] = "grpc" THEN "grpc" ELSE IF Nodes!Has(q,
              "path") THEN "ws" ELSE "tcp")
         /\ Nodes!Sense("egern", n, "ws-opts") = (IF q["more"] = "true" THEN "other"
              ELSE Nodes!WsOf(Nodes!Text(q, "path"), Nodes!Text(q, "host")))
         /\ Nodes!Sense("egern", n, "reality-opts") = (IF Nodes!Has(q, "short_id") THEN "both"
              ELSE Nodes!Text(q, "public_key"))
         /\ n["type"] = "tuic" => Nodes!Sense("egern", n, "alpn") = (Nodes!Text(q, "alpn"))
         /\ Nodes!Sense("egern", n, "tls") = (Nodes!Bool(q["transport"] \in {"tls", "wss", "grpc"}
              \/ q["protocol"] \in {"https", "socks5_tls"} \/ n["type"] \in Nodes!AlwaysSecure))
         /\ Nodes!Sense("egern", n, "servername") = (Nodes!Text(q, "sni"))
         /\ Nodes!Sense("egern", n, "sni") = (Nodes!Text(q, "sni"))
         /\ Nodes!Sense("egern", n, "alterId") = ("0")
         /\ Nodes!Sense("egern", n, "grpc-opts") = (Nodes!Text(q, "service_name"))
         /\ Nodes!Sense("egern", n, "up") = (Nodes!Text(q, "bandwidth"))
         /\ Nodes!Sense("egern", n, "down") = (Nodes!Blank)
         /\ Nodes!Sense("egern", n, "plugin") = (Nodes!Blank)
<1>t. n["type"] \in Nodes!Protocols
  BY DEF Node
<1>ok. Nodes!Exportable(n)
  BY DEF Nodes!EgernOk
<1>only. /\ n["type"] \notin {"ss", "vmess"} => n["cipher"] = "absent"
         /\ n["type"] \notin {"http", "socks5"} => n["username"] = "absent"
         /\ n["type"] \notin {"vmess", "vless", "tuic"} => n["uuid"] = "absent"
         /\ n["type"] \notin {"vmess"} => n["alterId"] = "absent"
         /\ n["type"] \notin {"hysteria2"} => n["obfs"] = "absent"
         /\ n["type"] \notin {"hysteria2"} => n["obfs-password"] = "absent"
         /\ n["type"] \notin {"hysteria2"} => n["up"] = "absent"
         /\ n["type"] \notin {"hysteria2"} => n["down"] = "absent"
         /\ n["type"] \notin {"tuic"} => n["udp-relay-mode"] = "absent"
         /\ n["plugin"] = "absent"
         /\ n["type"] \notin {"trojan", "vmess", "vless", "anytls"} => n["network"] = "absent"
  BY <1>ok, ExportableFacts, OnlyFor
<1>tcp. n["type"] \notin {"vmess", "vless", "trojan"} => Nodes!Transport(n) = "tcp"
  <2>1. n["type"] \in {"ss", "http", "socks5", "hysteria2", "tuic"} => n["network"] = "absent"
    BY <1>only
  <2>. QED
    BY <1>t, <1>ok, <2>1, ExportableFacts DEF Nodes!Transport, Nodes!Given, Nodes!Text, Nodes!Has, Nodes!None,
       Nodes!Protocols
<1>name. Nodes!ServerName(n) \in {Nodes!Blank, "a", "b"}
  BY NodeValues DEF Nodes!ServerName, Nodes!Said, Nodes!Opt, Nodes!Text, Nodes!Has, Nodes!None, Nodes!Given
<1>egern. /\ n["type"] = "vmess" => (Nodes!Given(n, "alterId") => n["alterId"] = "0")
          /\ Nodes!Transport(n) = "grpc" => n["type"] \in {"vmess", "vless"} /\ Nodes!Secure(n) /\ Nodes!Has(n,
               "grpc-opts")
          /\ n["type"] = "hysteria2" => ~Nodes!Has(n, "down") /\ Nodes!ObfsOk(n)
  BY DEF Nodes!EgernOk
<1>ftype. Nodes!Sense("egern", n, "type") = (n["type"])
  BY <1>t, SenseAt DEF Nodes!Text, Nodes!Has, Nodes!None, Nodes!Protocols
<1>fcipher. Nodes!Sense("egern", n, "cipher") = (IF n["type"] = "vmess" THEN Nodes!LoonCipher(q["security"])
              ELSE Nodes!Text(q, "method"))
  <2>1. q["method"] = (Nodes!Opt(n["type"] = "ss", n["cipher"]))
    BY EgernProxyAt
  <2>2. q["security"] = (Nodes!Opt(n["type"] = "vmess", IF Nodes!Given(n, "cipher") THEN n["cipher"]
          ELSE "auto"))
    BY EgernProxyAt
  <2>3. n["cipher"] \in {"auto", "aes-128-gcm", "chacha20-poly1305", "odd", "absent"}
    BY NodeValues
  <2>4. n["type"] \notin {"ss", "vmess"} => n["cipher"] = "absent"
    BY <1>only
  <2>5. Nodes!Sense("egern", n, "cipher") = (IF n["type"] = "vmess" THEN Nodes!LoonCipher(Nodes!Text(n,
          "cipher")) ELSE Nodes!Text(n, "cipher"))
    BY SenseAt
  <2>. QED
    BY <2>1, <2>2, <2>3, <2>4, <2>5, BlankIsOther DEF Nodes!Said, Nodes!Opt, Nodes!Text, Nodes!Has, Nodes!None,
       Nodes!Given, Nodes!LoonCipher
<1>fpassword. Nodes!Sense("egern", n, "password") = (Nodes!Text(q, "password"))
  <2>1. q["password"] = (n["password"])
    BY EgernProxyAt
  <2>2. Nodes!Sense("egern", n, "password") = (Nodes!Text(n, "password"))
    BY SenseAt
  <2>. QED
    BY <2>1, <2>2, BlankIsOther DEF Nodes!Said, Nodes!Opt, Nodes!Text, Nodes!Has, Nodes!None, Nodes!Given
<1>fusername. Nodes!Sense("egern", n, "username") = (Nodes!Text(q, "username"))
  <2>1. q["username"] = (n["username"])
    BY EgernProxyAt
  <2>2. Nodes!Sense("egern", n, "username") = (Nodes!Text(n, "username"))
    BY SenseAt
  <2>. QED
    BY <2>1, <2>2, BlankIsOther DEF Nodes!Said, Nodes!Opt, Nodes!Text, Nodes!Has, Nodes!None, Nodes!Given
<1>fflow. Nodes!Sense("egern", n, "flow") = (Nodes!Text(q, "flow"))
  <2>1. q["flow"] = (n["flow"])
    BY EgernProxyAt
  <2>2. Nodes!Sense("egern", n, "flow") = (Nodes!Text(n, "flow"))
    BY SenseAt
  <2>. QED
    BY <2>1, <2>2, BlankIsOther DEF Nodes!Said, Nodes!Opt, Nodes!Text, Nodes!Has, Nodes!None, Nodes!Given
<1>fobfs. Nodes!Sense("egern", n, "obfs") = (Nodes!Text(q, "obfs"))
  <2>1. q["obfs"] = (n["obfs"])
    BY EgernProxyAt
  <2>2. Nodes!Sense("egern", n, "obfs") = (Nodes!Text(n, "obfs"))
    BY SenseAt
  <2>. QED
    BY <2>1, <2>2, BlankIsOther DEF Nodes!Said, Nodes!Opt, Nodes!Text, Nodes!Has, Nodes!None, Nodes!Given
<1>fobfspassword. Nodes!Sense("egern", n, "obfs-password") = (Nodes!Text(q, "obfs-password"))
  <2>1. q["obfs-password"] = (n["obfs-password"])
    BY EgernProxyAt
  <2>2. Nodes!Sense("egern", n, "obfs-password") = (Nodes!Text(n, "obfs-password"))
    BY SenseAt
  <2>. QED
    BY <2>1, <2>2, BlankIsOther DEF Nodes!Said, Nodes!Opt, Nodes!Text, Nodes!Has, Nodes!None, Nodes!Given
<1>fudprelaymode. Nodes!Sense("egern", n, "udp-relay-mode") = (Nodes!Text(q, "udp-relay-mode"))
  <2>1. q["udp-relay-mode"] = (n["udp-relay-mode"])
    BY EgernProxyAt
  <2>2. Nodes!Sense("egern", n, "udp-relay-mode") = (Nodes!Text(n, "udp-relay-mode"))
    BY SenseAt
  <2>. QED
    BY <2>1, <2>2, BlankIsOther DEF Nodes!Said, Nodes!Opt, Nodes!Text, Nodes!Has, Nodes!None, Nodes!Given
<1>fuuid. Nodes!Sense("egern", n, "uuid") = (Nodes!Text(q, "user_id"))
  <2>1. q["user_id"] = (n["uuid"])
    BY EgernProxyAt
  <2>2. Nodes!Sense("egern", n, "uuid") = (Nodes!Text(n, "uuid"))
    BY SenseAt
  <2>. QED
    BY <2>1, <2>2, BlankIsOther DEF Nodes!Said, Nodes!Opt, Nodes!Text, Nodes!Has, Nodes!None, Nodes!Given
<1>ftfo. Nodes!Sense("egern", n, "tfo") = (Nodes!Bool(Nodes!Flag(q, "tfo")))
  <2>1. q["tfo"] = (n["tfo"])
    BY EgernProxyAt
  <2>2. Nodes!Sense("egern", n, "tfo") = (Nodes!Bool(Nodes!Flag(n, "tfo")))
    BY SenseAt
  <2>. QED
    BY <2>1, <2>2, BlankIsOther DEF Nodes!Said, Nodes!Opt, Nodes!Text, Nodes!Has, Nodes!None, Nodes!Given,
       Nodes!Flag
<1>fudp. Nodes!Sense("egern", n, "udp") = (Nodes!Bool(Nodes!Flag(q, "udp_relay")))
  <2>1. q["udp_relay"] = (n["udp"])
    BY EgernProxyAt
  <2>2. Nodes!Sense("egern", n, "udp") = Nodes!Bool(Nodes!Flag(n, "udp"))
    BY SenseAt
  <2>. QED
    BY <2>1, <2>2, BlankIsOther DEF Nodes!Said, Nodes!Opt, Nodes!Text, Nodes!Has, Nodes!None, Nodes!Given,
       Nodes!Flag
<1>fskipcertverify. Nodes!Sense("egern", n, "skip-cert-verify") = (Nodes!Bool(Nodes!Flag(q, "skip_tls_verify")))
  <2>1. q["skip_tls_verify"] = (IF n["type"] = "anytls" /\ ~Nodes!Has(n, "skip-cert-verify") THEN "false"
          ELSE n["skip-cert-verify"])
    BY EgernProxyAt
  <2>2. Nodes!Sense("egern", n, "skip-cert-verify") = (Nodes!Bool(Nodes!Flag(n, "skip-cert-verify")))
    BY SenseAt
  <2>. QED
    BY <2>1, <2>2, BlankIsOther DEF Nodes!Said, Nodes!Opt, Nodes!Text, Nodes!Has, Nodes!None, Nodes!Given,
       Nodes!Flag
<1>fnetwork. Nodes!Sense("egern", n, "network") = (IF q["transport"] = "grpc" THEN "grpc" ELSE IF Nodes!Has(q,
               "path") THEN "ws" ELSE "tcp")
  <2>1. q["transport"] = (Nodes!EgernTransport(n))
    BY EgernProxyAt
  <2>2. q["path"] = (Nodes!EgernPath(n))
    BY EgernProxyAt
  <2>3. n["type"] \notin {"vmess", "vless", "trojan"} => Nodes!Transport(n) = "tcp"
    BY <1>tcp
  <2>4. Nodes!Transport(n) \in {"tcp", "ws", "grpc"}
    BY <1>ok, ExportableFacts
  <2>5. Nodes!Transport(n) = "grpc" => n["type"] \in {"vmess", "vless"} /\ Nodes!Secure(n) /\ Nodes!Has(n,
          "grpc-opts")
    BY <1>egern
  <2>6. Nodes!Sense("egern", n, "network") = (Nodes!Transport(n))
    BY SenseAt
  <2>. QED
    BY <2>1, <2>2, <2>3, <2>4, <2>5, <2>6, BlankIsOther DEF Nodes!Said, Nodes!Opt, Nodes!Text, Nodes!Has,
       Nodes!None, Nodes!Given, Nodes!EgernTransport, Nodes!EgernPath, Nodes!WsPath
<1>fwsopts. Nodes!Sense("egern", n, "ws-opts") = (IF q["more"] = "true" THEN "other"
              ELSE Nodes!WsOf(Nodes!Text(q, "path"), Nodes!Text(q, "host")))
  <2>1. q["path"] = (Nodes!EgernPath(n))
    BY EgernProxyAt
  <2>2. q["host"] = (Nodes!Opt(Nodes!Transport(n) = "ws", Nodes!WsHost(n)))
    BY EgernProxyAt
  <2>3. q["more"] = (Nodes!Opt(Nodes!Transport(n) = "ws", Nodes!Bool(~Nodes!HostOnly(n))))
    BY EgernProxyAt
  <2>4. Nodes!Transport(n) # "ws" => n["ws-opts"] = "absent"
    BY <1>ok, ExportableFacts
  <2>5. n["ws-opts"] \in {"none", "path", "host", "both", "other", "absent"}
    BY NodeValues
  <2>6. Nodes!Sense("egern", n, "ws-opts") = (IF ~Nodes!HostOnly(n) THEN "other"
          ELSE Nodes!WsOf(Nodes!WsPath(n), Nodes!WsHost(n)))
    BY SenseAt
  <2>. QED
    BY <2>1, <2>2, <2>3, <2>4, <2>5, <2>6, BlankIsOther DEF Nodes!Said, Nodes!Opt, Nodes!Text, Nodes!Has,
       Nodes!None, Nodes!Given, Nodes!HostOnly, Nodes!WsOf, Nodes!WsPath, Nodes!WsHost, Nodes!EgernPath,
       Nodes!Bool
<1>frealityopts. Nodes!Sense("egern", n, "reality-opts") = (IF Nodes!Has(q, "short_id") THEN "both"
                   ELSE Nodes!Text(q, "public_key"))
  <2>1. q["public_key"] = (Nodes!PublicKey(n))
    BY EgernProxyAt
  <2>2. q["short_id"] = (Nodes!ShortId(n))
    BY EgernProxyAt
  <2>3. n["reality-opts"] \in {"key", "both", "absent"}
    BY NodeValues
  <2>4. Nodes!Sense("egern", n, "reality-opts") = (Nodes!Text(n, "reality-opts"))
    BY SenseAt
  <2>. QED
    BY <2>1, <2>2, <2>3, <2>4, BlankIsOther DEF Nodes!Said, Nodes!Opt, Nodes!Text, Nodes!Has, Nodes!None,
       Nodes!Given, Nodes!PublicKey, Nodes!ShortId
<1>falpn. n["type"] = "tuic" => Nodes!Sense("egern", n, "alpn") = (Nodes!Text(q, "alpn"))
  <2>1. q["alpn"] = (Nodes!Opt(n["type"] = "tuic", n["alpn"]))
    BY EgernProxyAt
  <2>2. Nodes!Sense("egern", n, "alpn") = (Nodes!Text(n, "alpn"))
    BY SenseAt
  <2>. QED
    BY <2>1, <2>2, BlankIsOther DEF Nodes!Said, Nodes!Opt, Nodes!Text, Nodes!Has, Nodes!None, Nodes!Given
<1>ftls. Nodes!Sense("egern", n, "tls") = (Nodes!Bool(q["transport"] \in {"tls", "wss", "grpc"}
           \/ q["protocol"] \in {"https", "socks5_tls"} \/ n["type"] \in Nodes!AlwaysSecure))
  <2>1. q["transport"] = (Nodes!EgernTransport(n))
    BY EgernProxyAt
  <2>2. q["protocol"] = (Nodes!EgernProtocol(n))
    BY EgernProxyAt
  <2>3. n["type"] \notin {"vmess", "vless", "trojan"} => Nodes!Transport(n) = "tcp"
    BY <1>tcp
  <2>4. Nodes!Transport(n) \in {"tcp", "ws", "grpc"}
    BY <1>ok, ExportableFacts
  <2>5. Nodes!Transport(n) = "grpc" => n["type"] \in {"vmess", "vless"} /\ Nodes!Secure(n) /\ Nodes!Has(n,
          "grpc-opts")
    BY <1>egern
  <2>6. n["type"] \in {"ss"} => ~Nodes!Secure(n)
    BY <1>ok, ExportableFacts, AbsentFields DEF Nodes!Secure, Nodes!Flag, Nodes!AlwaysSecure
  <2>7. n["type"] \in Nodes!Protocols
    BY DEF Node
  <2>8. n["type"] \in Nodes!AlwaysSecure => Nodes!Secure(n)
    BY DEF Nodes!Secure
  <2>9. Nodes!Sense("egern", n, "tls") = (Nodes!Bool(Nodes!Secure(n)))
    BY SenseAt
  <2>. QED
    BY <2>1, <2>2, <2>3, <2>4, <2>5, <2>6, <2>7, <2>8, <2>9, BlankIsOther DEF Nodes!Said, Nodes!Opt, Nodes!Text,
       Nodes!Has, Nodes!None, Nodes!Given, Nodes!Bool, Nodes!EgernTransport, Nodes!EgernProtocol,
       Nodes!AlwaysSecure, Nodes!Protocols
<1>fservername. Nodes!Sense("egern", n, "servername") = (Nodes!Text(q, "sni"))
  <2>1. q["sni"] = (Nodes!Said(Nodes!ServerName(n)))
    BY EgernProxyAt
  <2>2. Nodes!ServerName(n) \in {Nodes!Blank, "a", "b"}
    BY <1>name
  <2>3. Nodes!Sense("egern", n, "servername") = (Nodes!ServerName(n))
    BY SenseAt
  <2>. QED
    BY <2>1, <2>2, <2>3, BlankIsOther DEF Nodes!Said, Nodes!Opt, Nodes!Text, Nodes!Has, Nodes!None, Nodes!Given
<1>fsni. Nodes!Sense("egern", n, "sni") = (Nodes!Text(q, "sni"))
  <2>1. q["sni"] = (Nodes!Said(Nodes!ServerName(n)))
    BY EgernProxyAt
  <2>2. Nodes!ServerName(n) \in {Nodes!Blank, "a", "b"}
    BY <1>name
  <2>3. Nodes!Sense("egern", n, "sni") = (Nodes!ServerName(n))
    BY SenseAt
  <2>. QED
    BY <2>1, <2>2, <2>3, BlankIsOther DEF Nodes!Said, Nodes!Opt, Nodes!Text, Nodes!Has, Nodes!None, Nodes!Given
<1>falterId. Nodes!Sense("egern", n, "alterId") = ("0")
  <2>1. n["type"] # "vmess" => n["alterId"] = "absent"
    BY <1>only
  <2>2. n["alterId"] \in {"0", "4", "absent"}
    BY NodeValues
  <2>3. n["type"] = "vmess" => (Nodes!Given(n, "alterId") => n["alterId"] = "0")
    BY <1>egern
  <2>4. Nodes!Sense("egern", n, "alterId") = (IF Nodes!Has(n, "alterId") THEN n["alterId"] ELSE "0")
    BY SenseAt
  <2>. QED
    BY <2>1, <2>2, <2>3, <2>4, BlankIsOther DEF Nodes!Said, Nodes!Opt, Nodes!Text, Nodes!Has, Nodes!None,
       Nodes!Given
<1>fgrpcopts. Nodes!Sense("egern", n, "grpc-opts") = (Nodes!Text(q, "service_name"))
  <2>1. q["service_name"] = (Nodes!Opt(Nodes!Transport(n) = "grpc", Nodes!Text(n, "grpc-opts")))
    BY EgernProxyAt
  <2>2. n["grpc-opts"] \in {Nodes!Blank, "s", "absent"}
    BY NodeValues
  <2>3. Nodes!Transport(n) # "grpc" => n["grpc-opts"] = "absent"
    BY <1>ok, ExportableFacts
  <2>4. Nodes!Sense("egern", n, "grpc-opts") = (Nodes!Text(n, "grpc-opts"))
    BY SenseAt
  <2>. QED
    BY <2>1, <2>2, <2>3, <2>4, BlankIsOther DEF Nodes!Said, Nodes!Opt, Nodes!Text, Nodes!Has, Nodes!None,
       Nodes!Given
<1>fup. Nodes!Sense("egern", n, "up") = (Nodes!Text(q, "bandwidth"))
  <2>1. q["bandwidth"] = (Nodes!Said(Nodes!Text(n, "up")))
    BY EgernProxyAt
  <2>2. n["up"] \in {"50", "absent"}
    BY NodeValues
  <2>3. Nodes!Sense("egern", n, "up") = (Nodes!Text(n, "up"))
    BY SenseAt
  <2>. QED
    BY <2>1, <2>2, <2>3, BlankIsOther DEF Nodes!Said, Nodes!Opt, Nodes!Text, Nodes!Has, Nodes!None, Nodes!Given
<1>fdown. Nodes!Sense("egern", n, "down") = (Nodes!Blank)
  <2>1. n["type"] # "hysteria2" => n["down"] = "absent"
    BY <1>only
  <2>2. n["type"] = "hysteria2" => ~Nodes!Has(n, "down")
    BY <1>egern
  <2>3. Nodes!Sense("egern", n, "down") = (Nodes!Text(n, "down"))
    BY SenseAt
  <2>. QED
    BY <2>1, <2>2, <2>3, BlankIsOther DEF Nodes!Said, Nodes!Opt, Nodes!Text, Nodes!Has, Nodes!None, Nodes!Given
<1>fplugin. Nodes!Sense("egern", n, "plugin") = (Nodes!Blank)
  <2>1. n["plugin"] = "absent"
    BY <1>only
  <2>2. Nodes!Sense("egern", n, "plugin") = (Nodes!Text(n, "plugin"))
    BY SenseAt
  <2>. QED
    BY <2>1, <2>2, BlankIsOther DEF Nodes!Said, Nodes!Opt, Nodes!Text, Nodes!Has, Nodes!None, Nodes!Given
<1>. QED
  BY <1>ftype, <1>fcipher, <1>fpassword, <1>fusername, <1>fflow, <1>fobfs, <1>fobfspassword, <1>fudprelaymode,
     <1>fuuid, <1>ftfo, <1>fudp, <1>fskipcertverify, <1>fnetwork, <1>fwsopts, <1>frealityopts, <1>falpn,
     <1>ftls, <1>fservername, <1>fsni, <1>falterId, <1>fgrpcopts, <1>fup, <1>fdown, <1>fplugin

\* What the link of an AnyTLS node says of it, with Reality or without.
LEMMA AnytlsSays ==
  ASSUME NEW n, Node(n), Nodes!Portable(n), n["type"] = "anytls", NEW q, q = Nodes!Link(n)
  PROVE  /\ Nodes!Sense("uri", n, "type") = ("anytls")
         /\ Nodes!Sense("uri", n, "password") = (Nodes!Text(q, "user"))
         /\ Nodes!Sense("uri", n, "udp") = (Nodes!Bool(q["udp"] # "false"))
         /\ Nodes!Sense("uri", n, "skip-cert-verify") = (Nodes!Bool(q["insecure"] = "true"))
         /\ Nodes!Sense("uri", n, "tfo") = ("false")
         /\ Nodes!Sense("uri", n, "packet-encoding") = (Nodes!Text(q, "packetEncoding"))
         /\ Nodes!Sense("uri", n, "network") = ("tcp")
         /\ Nodes!Sense("uri", n, "ws-opts") = ("none")
         /\ Nodes!Sense("uri", n, "reality-opts") = (IF Nodes!Has(q, "sid") THEN "both" ELSE Nodes!Text(q,
              "pbk"))
         /\ Nodes!Sense("uri", n, "alpn") = (Nodes!Text(q, "alpn"))
         /\ Nodes!Sense("uri", n, "client-fingerprint") = (Nodes!Text(q, "fp"))
         /\ Nodes!Sense("uri", n, "tls") = ("true")
         /\ Nodes!Sense("uri", n, "servername") = (Nodes!Text(q, "sni"))
         /\ Nodes!Sense("uri", n, "sni") = (Nodes!Text(q, "sni"))
         /\ Nodes!Sense("uri", n, "alterId") = ("0")
         /\ Nodes!Sense("uri", n, "cipher") = (Nodes!Blank)
         /\ Nodes!Sense("uri", n, "uuid") = (Nodes!Blank)
         /\ Nodes!Sense("uri", n, "grpc-opts") = (Nodes!Blank)
         /\ Nodes!Sense("uri", n, "flow") = (Nodes!Blank)
         /\ Nodes!Sense("uri", n, "username") = (Nodes!Blank)
         /\ Nodes!Sense("uri", n, "obfs") = (Nodes!Blank)
         /\ Nodes!Sense("uri", n, "obfs-password") = (Nodes!Blank)
         /\ Nodes!Sense("uri", n, "up") = (Nodes!Blank)
         /\ Nodes!Sense("uri", n, "down") = (Nodes!Blank)
         /\ Nodes!Sense("uri", n, "udp-relay-mode") = (Nodes!Blank)
         /\ Nodes!Sense("uri", n, "plugin") = (Nodes!Blank)
<1>only. \A k \in {"cipher", "uuid", "grpc-opts", "flow", "username", "obfs", "obfs-password", "up", "down",
           "udp-relay-mode", "plugin", "alterId"} : n[k] = "absent"
  BY PortableOnly, AbsentFields
<1>given. n["password"] # "absent"
  <2>1. Nodes!Given(n, "password")
    BY PortableTls DEF Nodes!Validated, Nodes!Required
  <2>. QED
    BY <2>1 DEF Nodes!Given, Nodes!Text, Nodes!Has, Nodes!None
<1>name. Nodes!ServerName(n) \in {Nodes!Blank, "a", "b"}
  BY NodeValues DEF Nodes!ServerName, Nodes!Said, Nodes!Opt, Nodes!Text, Nodes!Has, Nodes!None, Nodes!Given
<1>ftype. Nodes!Sense("uri", n, "type") = ("anytls")
  BY SenseAt DEF Nodes!Text, Nodes!Has, Nodes!None
<1>fpassword. Nodes!Sense("uri", n, "password") = (Nodes!Text(q, "user"))
  <2>1. q["user"] = Nodes!User(n)
    BY LinkAt
  <2>2. n["password"] # "absent"
    BY <1>given
  <2>3. Nodes!Sense("uri", n, "password") = (Nodes!Text(n, "password"))
    BY SenseAt
  <2>. QED
    BY <2>1, <2>2, <2>3, BlankIsOther DEF Nodes!Said, Nodes!Opt, Nodes!Text, Nodes!Has, Nodes!None, Nodes!Given,
       Nodes!User, Nodes!AlwaysSecure
<1>fudp. Nodes!Sense("uri", n, "udp") = (Nodes!Bool(q["udp"] # "false"))
  <2>1. q["udp"] = Nodes!Opt(n["type"] = "anytls", n["udp"])
    BY LinkAt
  <2>2. Nodes!Sense("uri", n, "udp") = Nodes!Bool(n["udp"] # "false")
    BY SenseAt DEF Nodes!UdpByDefault
  <2>. QED
    BY <2>1, <2>2, BlankIsOther DEF Nodes!Said, Nodes!Opt, Nodes!Text, Nodes!Has, Nodes!None, Nodes!Given
<1>fskipcertverify. Nodes!Sense("uri", n, "skip-cert-verify") = (Nodes!Bool(q["insecure"] = "true"))
  <2>1. q["insecure"] = IF n["type"] = "anytls" THEN n["skip-cert-verify"]
          ELSE Nodes!Opt(n["type"] = "hysteria2" /\ Nodes!Flag(n, "skip-cert-verify"), "true")
    BY LinkAt
  <2>2. Nodes!Sense("uri", n, "skip-cert-verify") = (Nodes!Bool(Nodes!Flag(n, "skip-cert-verify")))
    BY SenseAt
  <2>. QED
    BY <2>1, <2>2, BlankIsOther DEF Nodes!Said, Nodes!Opt, Nodes!Text, Nodes!Has, Nodes!None, Nodes!Given,
       Nodes!Flag
<1>ftfo. Nodes!Sense("uri", n, "tfo") = ("false")
  <2>1. n["tfo"] = "absent"
    BY PortableOnly
  <2>2. Nodes!Sense("uri", n, "tfo") = (Nodes!Bool(Nodes!Flag(n, "tfo")))
    BY SenseAt
  <2>. QED
    BY <2>1, <2>2, BlankIsOther DEF Nodes!Said, Nodes!Opt, Nodes!Text, Nodes!Has, Nodes!None, Nodes!Given,
       Nodes!Flag, Nodes!Bool
<1>fpacketencoding. Nodes!Sense("uri", n, "packet-encoding") = (Nodes!Text(q, "packetEncoding"))
  <2>1. q["packetEncoding"] = Nodes!Said(Nodes!Text(n, "packet-encoding"))
    BY LinkAt
  <2>2. n["packet-encoding"] \in {"xudp", "none", "odd", "absent"}
    BY NodeValues
  <2>3. Nodes!Sense("uri", n, "packet-encoding") = (Nodes!Text(n, "packet-encoding"))
    BY SenseAt
  <2>. QED
    BY <2>1, <2>2, <2>3, BlankIsOther DEF Nodes!Said, Nodes!Opt, Nodes!Text, Nodes!Has, Nodes!None, Nodes!Given
<1>fnetwork. Nodes!Sense("uri", n, "network") = ("tcp")
  <2>1. Nodes!Transport(n) = "tcp"
    BY PortableTransport
  <2>2. Nodes!Sense("uri", n, "network") = (Nodes!Transport(n))
    BY SenseAt
  <2>. QED
    BY <2>1, <2>2, BlankIsOther DEF Nodes!Said, Nodes!Opt, Nodes!Text, Nodes!Has, Nodes!None, Nodes!Given
<1>fwsopts. Nodes!Sense("uri", n, "ws-opts") = ("none")
  <2>1. n["ws-opts"] = "absent"
    BY PortableTransport
  <2>2. Nodes!Sense("uri", n, "ws-opts") = (IF ~Nodes!HostOnly(n) THEN "other" ELSE Nodes!WsOf(Nodes!WsPath(n),
          Nodes!WsHost(n)))
    BY SenseAt
  <2>. QED
    BY <2>1, <2>2, BlankIsOther DEF Nodes!Said, Nodes!Opt, Nodes!Text, Nodes!Has, Nodes!None, Nodes!Given,
       Nodes!HostOnly, Nodes!WsOf, Nodes!WsPath, Nodes!WsHost
<1>frealityopts. Nodes!Sense("uri", n, "reality-opts") = (IF Nodes!Has(q, "sid") THEN "both" ELSE Nodes!Text(q,
                   "pbk"))
  <2>1. q["pbk"] = Nodes!PublicKey(n)
    BY LinkAt
  <2>2. q["sid"] = Nodes!ShortId(n)
    BY LinkAt
  <2>3. n["reality-opts"] \in {"key", "both", "absent"}
    BY NodeValues
  <2>4. Nodes!Sense("uri", n, "reality-opts") = (Nodes!Text(n, "reality-opts"))
    BY SenseAt
  <2>. QED
    BY <2>1, <2>2, <2>3, <2>4, BlankIsOther DEF Nodes!Said, Nodes!Opt, Nodes!Text, Nodes!Has, Nodes!None,
       Nodes!Given, Nodes!PublicKey, Nodes!ShortId
<1>falpn. Nodes!Sense("uri", n, "alpn") = (Nodes!Text(q, "alpn"))
  <2>1. q["alpn"] = Nodes!Said(Nodes!Text(n, "alpn"))
    BY LinkAt
  <2>2. n["alpn"] \in {"h2", "bad", "absent"}
    BY NodeValues
  <2>3. Nodes!Sense("uri", n, "alpn") = (Nodes!Text(n, "alpn"))
    BY SenseAt
  <2>. QED
    BY <2>1, <2>2, <2>3, BlankIsOther DEF Nodes!Said, Nodes!Opt, Nodes!Text, Nodes!Has, Nodes!None, Nodes!Given
<1>fclientfingerprint. Nodes!Sense("uri", n, "client-fingerprint") = (Nodes!Text(q, "fp"))
  <2>1. q["fp"] = Nodes!Said(Nodes!Text(n, "client-fingerprint"))
    BY LinkAt
  <2>2. n["client-fingerprint"] \in {"chrome", "safari", "absent"}
    BY NodeValues
  <2>3. Nodes!Sense("uri", n, "client-fingerprint") = (Nodes!Text(n, "client-fingerprint"))
    BY SenseAt
  <2>. QED
    BY <2>1, <2>2, <2>3, BlankIsOther DEF Nodes!Said, Nodes!Opt, Nodes!Text, Nodes!Has, Nodes!None, Nodes!Given
<1>ftls. Nodes!Sense("uri", n, "tls") = ("true")
  <2>1. Nodes!Sense("uri", n, "tls") = (Nodes!Bool(Nodes!Secure(n)))
    BY SenseAt
  <2>. QED
    BY <2>1, BlankIsOther DEF Nodes!Said, Nodes!Opt, Nodes!Text, Nodes!Has, Nodes!None, Nodes!Given,
       Nodes!Secure, Nodes!Bool, Nodes!AlwaysSecure
<1>fservername. Nodes!Sense("uri", n, "servername") = (Nodes!Text(q, "sni"))
  <2>1. q["sni"] = Nodes!Said(Nodes!ServerName(n))
    BY LinkAt
  <2>2. Nodes!ServerName(n) \in {Nodes!Blank, "a", "b"}
    BY <1>name
  <2>3. Nodes!Sense("uri", n, "servername") = (Nodes!ServerName(n))
    BY SenseAt
  <2>. QED
    BY <2>1, <2>2, <2>3, BlankIsOther DEF Nodes!Said, Nodes!Opt, Nodes!Text, Nodes!Has, Nodes!None, Nodes!Given
<1>fsni. Nodes!Sense("uri", n, "sni") = (Nodes!Text(q, "sni"))
  <2>1. q["sni"] = Nodes!Said(Nodes!ServerName(n))
    BY LinkAt
  <2>2. Nodes!ServerName(n) \in {Nodes!Blank, "a", "b"}
    BY <1>name
  <2>3. Nodes!Sense("uri", n, "sni") = (Nodes!ServerName(n))
    BY SenseAt
  <2>. QED
    BY <2>1, <2>2, <2>3, BlankIsOther DEF Nodes!Said, Nodes!Opt, Nodes!Text, Nodes!Has, Nodes!None, Nodes!Given
<1>falterId. Nodes!Sense("uri", n, "alterId") = ("0")
  <2>1. n["alterId"] = "absent"
    BY <1>only
  <2>2. Nodes!Sense("uri", n, "alterId") = (IF Nodes!Has(n, "alterId") THEN n["alterId"] ELSE "0")
    BY SenseAt
  <2>. QED
    BY <2>1, <2>2, BlankIsOther DEF Nodes!Said, Nodes!Opt, Nodes!Text, Nodes!Has, Nodes!None, Nodes!Given
<1>fcipher. Nodes!Sense("uri", n, "cipher") = (Nodes!Blank)
  <2>1. n["cipher"] = "absent"
    BY <1>only
  <2>2. Nodes!Sense("uri", n, "cipher") = (IF n["type"] = "vmess" THEN Nodes!LoonCipher(Nodes!Text(n, "cipher"))
          ELSE Nodes!Text(n, "cipher"))
    BY SenseAt
  <2>. QED
    BY <2>1, <2>2, BlankIsOther DEF Nodes!Said, Nodes!Opt, Nodes!Text, Nodes!Has, Nodes!None, Nodes!Given
<1>fuuid. Nodes!Sense("uri", n, "uuid") = (Nodes!Blank)
  <2>1. n["uuid"] = "absent"
    BY <1>only
  <2>2. Nodes!Sense("uri", n, "uuid") = (Nodes!Text(n, "uuid"))
    BY SenseAt
  <2>. QED
    BY <2>1, <2>2, BlankIsOther DEF Nodes!Said, Nodes!Opt, Nodes!Text, Nodes!Has, Nodes!None, Nodes!Given
<1>fgrpcopts. Nodes!Sense("uri", n, "grpc-opts") = (Nodes!Blank)
  <2>1. n["grpc-opts"] = "absent"
    BY <1>only
  <2>2. Nodes!Sense("uri", n, "grpc-opts") = (Nodes!Text(n, "grpc-opts"))
    BY SenseAt
  <2>. QED
    BY <2>1, <2>2, BlankIsOther DEF Nodes!Said, Nodes!Opt, Nodes!Text, Nodes!Has, Nodes!None, Nodes!Given
<1>fflow. Nodes!Sense("uri", n, "flow") = (Nodes!Blank)
  <2>1. n["flow"] = "absent"
    BY <1>only
  <2>2. Nodes!Sense("uri", n, "flow") = (Nodes!Text(n, "flow"))
    BY SenseAt
  <2>. QED
    BY <2>1, <2>2, BlankIsOther DEF Nodes!Said, Nodes!Opt, Nodes!Text, Nodes!Has, Nodes!None, Nodes!Given
<1>fusername. Nodes!Sense("uri", n, "username") = (Nodes!Blank)
  <2>1. n["username"] = "absent"
    BY <1>only
  <2>2. Nodes!Sense("uri", n, "username") = (Nodes!Text(n, "username"))
    BY SenseAt
  <2>. QED
    BY <2>1, <2>2, BlankIsOther DEF Nodes!Said, Nodes!Opt, Nodes!Text, Nodes!Has, Nodes!None, Nodes!Given
<1>fobfs. Nodes!Sense("uri", n, "obfs") = (Nodes!Blank)
  <2>1. n["obfs"] = "absent"
    BY <1>only
  <2>2. Nodes!Sense("uri", n, "obfs") = (Nodes!Text(n, "obfs"))
    BY SenseAt
  <2>. QED
    BY <2>1, <2>2, BlankIsOther DEF Nodes!Said, Nodes!Opt, Nodes!Text, Nodes!Has, Nodes!None, Nodes!Given
<1>fobfspassword. Nodes!Sense("uri", n, "obfs-password") = (Nodes!Blank)
  <2>1. n["obfs-password"] = "absent"
    BY <1>only
  <2>2. Nodes!Sense("uri", n, "obfs-password") = (Nodes!Text(n, "obfs-password"))
    BY SenseAt
  <2>. QED
    BY <2>1, <2>2, BlankIsOther DEF Nodes!Said, Nodes!Opt, Nodes!Text, Nodes!Has, Nodes!None, Nodes!Given
<1>fup. Nodes!Sense("uri", n, "up") = (Nodes!Blank)
  <2>1. n["up"] = "absent"
    BY <1>only
  <2>2. Nodes!Sense("uri", n, "up") = (Nodes!Text(n, "up"))
    BY SenseAt
  <2>. QED
    BY <2>1, <2>2, BlankIsOther DEF Nodes!Said, Nodes!Opt, Nodes!Text, Nodes!Has, Nodes!None, Nodes!Given
<1>fdown. Nodes!Sense("uri", n, "down") = (Nodes!Blank)
  <2>1. n["down"] = "absent"
    BY <1>only
  <2>2. Nodes!Sense("uri", n, "down") = (Nodes!Text(n, "down"))
    BY SenseAt
  <2>. QED
    BY <2>1, <2>2, BlankIsOther DEF Nodes!Said, Nodes!Opt, Nodes!Text, Nodes!Has, Nodes!None, Nodes!Given
<1>fudprelaymode. Nodes!Sense("uri", n, "udp-relay-mode") = (Nodes!Blank)
  <2>1. n["udp-relay-mode"] = "absent"
    BY <1>only
  <2>2. Nodes!Sense("uri", n, "udp-relay-mode") = (Nodes!Text(n, "udp-relay-mode"))
    BY SenseAt
  <2>. QED
    BY <2>1, <2>2, BlankIsOther DEF Nodes!Said, Nodes!Opt, Nodes!Text, Nodes!Has, Nodes!None, Nodes!Given
<1>fplugin. Nodes!Sense("uri", n, "plugin") = (Nodes!Blank)
  <2>1. n["plugin"] = "absent"
    BY <1>only
  <2>2. Nodes!Sense("uri", n, "plugin") = (Nodes!Text(n, "plugin"))
    BY SenseAt
  <2>. QED
    BY <2>1, <2>2, BlankIsOther DEF Nodes!Said, Nodes!Opt, Nodes!Text, Nodes!Has, Nodes!None, Nodes!Given
<1>. QED
  BY <1>ftype, <1>fpassword, <1>fudp, <1>fskipcertverify, <1>ftfo, <1>fpacketencoding, <1>fnetwork, <1>fwsopts,
     <1>frealityopts, <1>falpn, <1>fclientfingerprint, <1>ftls, <1>fservername, <1>fsni, <1>falterId,
     <1>fcipher, <1>fuuid, <1>fgrpcopts, <1>fflow, <1>fusername, <1>fobfs, <1>fobfspassword, <1>fup, <1>fdown,
     <1>fudprelaymode, <1>fplugin

\* Two nodes of a type that are exported as the same mean the same.
LEMMA SameExport ==
  ASSUME NEW t \in Nodes!Formats, NEW n, NEW m, Node(n), Node(m), m["type"] = n["type"],
         Nodes!Export(t, n) = Nodes!Export(t, m), Nodes!Export(t, n) # Nodes!Fail
  PROVE  Nodes!Meaning(t, n) = Nodes!Meaning(t, m)
<1>1. CASE t = "loon"
  <2>1. Nodes!ToLoon(n) = Nodes!ToLoon(m) /\ Nodes!ToLoon(n) # Nodes!Fail
    BY <1>1 DEF Nodes!Export
  <2>2. Nodes!LoonOk(n) /\ Nodes!LoonOk(m) /\ Nodes!LoonLine(n) = Nodes!LoonLine(m)
    BY <2>1 DEF Nodes!ToLoon
  <2>3. \A k \in FieldNames \ {"packet-encoding"} : Nodes!Sense("loon", n, k) = Nodes!Sense("loon", m, k)
    BY <2>2, LoonSays DEF FieldNames
  <2>4. Nodes!Hints("loon", n["type"]) = {"packet-encoding"}
    BY DEF Nodes!Hints
  <2>. QED
    BY <1>1, <2>3, <2>4, FieldsAre, SameMeaning
<1>2. CASE t = "egern"
  <2>1. Nodes!ToEgern(n) = Nodes!ToEgern(m) /\ Nodes!ToEgern(n) # Nodes!Fail
    BY <1>2 DEF Nodes!Export
  <2>2. Nodes!EgernOk(n) /\ Nodes!EgernOk(m) /\ Nodes!EgernProxy(n) = Nodes!EgernProxy(m)
    BY <2>1 DEF Nodes!ToEgern
  <2>3. \A k \in FieldNames \ {"packet-encoding", "client-fingerprint", "alpn"} :
           Nodes!Sense("egern", n, k) = Nodes!Sense("egern", m, k)
    BY <2>2, EgernSays DEF FieldNames
  <2>4. n["type"] = "tuic" => Nodes!Sense("egern", n, "alpn") = Nodes!Sense("egern", m, "alpn")
    BY <2>2, EgernSays
  <2>5. Nodes!Hints("egern", n["type"]) = {"packet-encoding", "client-fingerprint"} \cup (IF n["type"] = "tuic"
          THEN {} ELSE {"alpn"})
    BY DEF Nodes!Hints
  <2>6. \A k \in Nodes!Fields \ Nodes!Hints("egern", n["type"]) : Nodes!Sense("egern", n,
          k) = Nodes!Sense("egern", m, k)
    BY <2>3, <2>4, <2>5, FieldsAre
  <2>. QED
    BY <1>2, <2>6, SameMeaning
<1>3. CASE t = "uri"
  <2>1. Nodes!ToURI(n) = Nodes!ToURI(m) /\ Nodes!ToURI(n) # Nodes!Fail
    BY <1>3 DEF Nodes!Export
  <2>2. Nodes!Portable(n) /\ Nodes!Portable(m)
    BY <2>1 DEF Nodes!ToURI
  <2>3. CASE n["type"] = "anytls"
    <3>1. Nodes!Link(n) = Nodes!Link(m)
      BY <2>1, <2>2, <2>3 DEF Nodes!ToURI
    <3>2. \A k \in FieldNames : Nodes!Sense("uri", n, k) = Nodes!Sense("uri", m, k)
      BY <2>2, <2>3, <3>1, AnytlsSays DEF FieldNames
    <3>. QED
      BY <1>3, <3>2, FieldsAre, SameMeaning
  <2>4. CASE n["type"] # "anytls"
    <3>1. Nodes!Meaning("uri", Nodes!Parse(Nodes!ToURI(n))) = Nodes!Meaning("uri", n)
      BY <2>1, <2>4, NodeReadBack
    <3>2. Nodes!Meaning("uri", Nodes!Parse(Nodes!ToURI(m))) = Nodes!Meaning("uri", m)
      BY <2>1, <2>4, NodeReadBack
    <3>. QED
      BY <1>3, <2>1, <3>1, <3>2
  <2>. QED
    BY <2>3, <2>4
<1>. QED
  BY <1>1, <1>2, <1>3 DEF Nodes!Formats

\* No export drops a field silently: when a field is added to a node, what is written for a target
\* changes, or nothing is written, or the node means the same as before (toURI, toLoon, toEgern).
THEOREM ExportsDropNothing == Nodes!Spec => NothingDropped
<1>1. DocumentInv /\ [Nodes!Next]_(Nodes!vars) => [form # "idle" => Nodes!KeepsMeaning]_<<form, doc, extra>>
  <2> SUFFICES ASSUME DocumentInv, Nodes!Next, form = "node",
                      NEW t \in Nodes!Formats, Nodes!Export(t, doc) = Nodes!Export(t, doc'), Nodes!Export(t,
                        doc) # Nodes!Fail
               PROVE  Nodes!Meaning(t, doc) = Nodes!Meaning(t, doc')
    BY DEF Nodes!KeepsMeaning, Nodes!vars
  <2>1. Nodes!AddField
    BY DEF Nodes!Next, Nodes!AddParameter
  <2>2. Node(doc) /\ Node(doc') /\ doc'["type"] = doc["type"]
    BY <2>1, FieldsKeepNodes DEF DocumentInv
  <2>. QED
    BY <2>2, SameExport
<1>. QED
  BY <1>1, DocumentInvariant, PTL DEF Nodes!Spec, NothingDropped

\* What a link is: a text or None for every part.
LinkDoc(q) ==
    /\ DOMAIN q = Nodes!Keys
    /\ q["scheme"] \in Nodes!Protocols \cup {"https"}
    /\ \A k \in Nodes!Keys \ {"scheme", "user", "secret"} : q[k] \in Nodes!LinkValues(k) \cup {Nodes!None}

\* What every part of a link may say, one by one.
LEMMA LinkValuesAre ==
  /\ Nodes!LinkValues("plugin") = {"p", "quote"}
  /\ Nodes!LinkValues("sni") = {"a", "b"}
  /\ Nodes!LinkValues("security") = {"none", "tls", "reality", "odd"}
  /\ Nodes!LinkValues("type") = {"none", "tcp", "ws", "grpc"}
  /\ Nodes!LinkValues("path") = {"/", "/p"}
  /\ Nodes!LinkValues("host") = {"p", "quote"}
  /\ Nodes!LinkValues("serviceName") = {"s"}
  /\ Nodes!LinkValues("flow") = {"xtls-rprx-vision", "odd"}
  /\ Nodes!LinkValues("pbk") = {"key"}
  /\ Nodes!LinkValues("sid") = {"id"}
  /\ Nodes!LinkValues("fp") = {"chrome", "safari"}
  /\ Nodes!LinkValues("encryption") = {"none", "odd"}
  /\ Nodes!LinkValues("alpn") = {"h2", "bad"}
  /\ Nodes!LinkValues("packetEncoding") = {"xudp", "none", "odd"}
  /\ Nodes!LinkValues("insecure") = {"true", "false"}
  /\ Nodes!LinkValues("udp") = {"true", "false"}
  /\ Nodes!LinkValues("packet_encoding") = {"xudp", "none", "odd"}
  /\ Nodes!LinkValues("xudp") = {"true", "false"}
  /\ Nodes!LinkValues("obfs") = {"salamander", "odd"}
  /\ Nodes!LinkValues("obfs-password") = {"p", "quote"}
  /\ Nodes!LinkValues("v") = {"1", "2"}
  /\ Nodes!LinkValues("id") = {"p", "quote"}
  /\ Nodes!LinkValues("aid") = {"0", "4"}
  /\ Nodes!LinkValues("scy") = {"auto", "aes-128-gcm", "chacha20-poly1305", "odd"}
  /\ Nodes!LinkValues("net") = {"tcp", "ws", "grpc"}
  /\ Nodes!LinkValues("tls") = {"none", "tls"}
  BY DEF Nodes!LinkValues, Nodes!Values

\* What links begin with are links.
LEMMA LinkBasesAreLinks ==
  ASSUME NEW t \in Nodes!Protocols, NEW q \in Nodes!LinkBases(t)
  PROVE  LinkDoc(q)
<1> DEFINE empty == [[k \in Nodes!Keys |-> Nodes!None] EXCEPT !["scheme"] = t]
           user  == [empty EXCEPT !["user"] = "p"]
<1>0. {"scheme", "user", "secret", "id", "net", "type", "security", "pbk"} \subseteq Nodes!Keys
  BY KeysAre DEF KeyNames
<1>1. LinkDoc(empty)
  BY <1>0 DEF LinkDoc
<1>2. ASSUME NEW m, LinkDoc(m), NEW k \in Nodes!Keys \ {"scheme"}, NEW v,
             v \in Nodes!LinkValues(k) \/ k \in {"user", "secret"}
      PROVE  LinkDoc([m EXCEPT ![k] = v])
  BY <1>0, <1>2 DEF LinkDoc
<1>3. ASSUME NEW m, LinkDoc(m) PROVE LinkDoc([m EXCEPT !["scheme"] = "https"])
  BY <1>0, <1>3 DEF LinkDoc
<1>. HIDE DEF empty
<1>4. LinkDoc(user)
  BY <1>0, <1>1, <1>2
<1>5. /\ "p" \in Nodes!LinkValues("id") /\ "ws" \in Nodes!LinkValues("net") /\ "ws" \in Nodes!LinkValues("type")
      /\ "reality" \in Nodes!LinkValues("security") /\ "key" \in Nodes!LinkValues("pbk")
  BY LinkValuesAre
<1>6. LinkDoc([empty EXCEPT !["user"] = "aes-128-gcm"])
  BY <1>0, <1>1, <1>2
<1>7. LinkDoc([empty EXCEPT !["id"] = "p"])
  BY <1>0, <1>1, <1>2, <1>5
<1>. HIDE DEF user
<1>8. LinkDoc([user EXCEPT !["security"] = "reality"])
  BY <1>0, <1>4, <1>2, <1>5
<1>9. /\ LinkDoc([empty EXCEPT !["id"] = "p", !["net"] = "ws"])
      /\ LinkDoc([user EXCEPT !["scheme"] = "https"])
      /\ LinkDoc([empty EXCEPT !["user"] = "aes-128-gcm", !["secret"] = "p"])
      /\ LinkDoc([user EXCEPT !["type"] = "ws"])
      /\ LinkDoc([user EXCEPT !["security"] = "reality", !["pbk"] = "key"])
  BY <1>0, <1>2, <1>3, <1>4, <1>5, <1>6, <1>7, <1>8
<1>10. \/ q = empty \/ q = user
       \/ q = [empty EXCEPT !["id"] = "p"] \/ q = [empty EXCEPT !["id"] = "p", !["net"] = "ws"]
       \/ q = [user EXCEPT !["scheme"] = "https"]
       \/ q = [empty EXCEPT !["user"] = "aes-128-gcm", !["secret"] = "p"]
       \/ q = [user EXCEPT !["type"] = "ws"] \/ q = [user EXCEPT !["security"] = "reality", !["pbk"] = "key"]
  BY DEF Nodes!LinkBases, Nodes!Protocols, empty, user
<1>. QED
  BY <1>1, <1>4, <1>7, <1>9, <1>10

\* What links become when they get a parameter are links.
LEMMA ParametersKeepLinks ==
  ASSUME LinkDoc(doc), form = "link", Nodes!AddParameter
  PROVE  /\ LinkDoc(doc') /\ form' = "link"
         /\ \E k \in Nodes!KeysOf(doc["scheme"]) \cup {"plugin"} : \E v \in Nodes!LinkValues(k) :
               k \in KeyNames \ {"scheme", "user", "secret"} /\ doc[k] = "absent"
                 /\ doc' = [doc EXCEPT ![k] = v]
<1>1. PICK k \in Nodes!KeysOf(doc["scheme"]) \cup {"plugin"} : Nodes!Add(k, Nodes!LinkValues(k))
  BY DEF Nodes!AddParameter
<1>2. k \in Nodes!Keys
  BY <1>1, KeysAre DEF LinkDoc, Nodes!Protocols, Nodes!KeysOf, KeyNames
<1>3. k \notin {"scheme", "user", "secret"}
  BY <1>1 DEF LinkDoc, Nodes!Protocols, Nodes!KeysOf
<1>4. PICK v \in Nodes!LinkValues(k) : doc' = [doc EXCEPT ![k] = v]
  BY <1>1 DEF Nodes!Add
<1>5. "scheme" \in Nodes!Keys
  BY KeysAre DEF KeyNames
<1>6. LinkDoc(doc')
  BY <1>2, <1>3, <1>4, <1>5 DEF LinkDoc
<1>7. doc[k] = "absent"
  BY <1>1 DEF Nodes!Add, Nodes!Has, Nodes!None
<1>. QED
  BY <1>1, <1>2, <1>3, <1>4, <1>6, <1>7, KeysAre DEF Nodes!AddParameter

\* A parameter that is added to a link of another type than VMess shows in the node.
LEMMA QueryShows ==
  ASSUME NEW q, LinkDoc(q), NEW k \in KeyNames \ {"scheme", "user", "secret"}, q[k] = "absent",
         k \in Nodes!KeysOf(q["scheme"]) \cup {"plugin"}, NEW v \in Nodes!LinkValues(k), NEW p,
           p = [q EXCEPT ![k] = v],
         q["scheme"] # "vmess", Nodes!QueryOk(q), Nodes!QueryOk(p), Nodes!FromURI(q) = Nodes!FromURI(p)
  PROVE  Nodes!Needless(p, k)
<1>p. /\ p[k] = v
      /\ \A j \in KeyNames \ {k} : p[j] = q[j]
      /\ p["scheme"] = q["scheme"]
  BY KeysAre DEF LinkDoc, KeyNames
<1>s. q["scheme"] \in {"ss", "trojan", "vless", "http", "https", "socks5", "hysteria2", "anytls"}
  BY DEF Nodes!QueryOk
<1>given. /\ k \in {"path", "host"} => p["type"] = "ws"
          /\ k = "serviceName" => p["type"] = "grpc"
          /\ k = "sid" => p["security"] = "reality"
  <2>1. k \in {"path", "host", "serviceName", "sid"} => Nodes!Given(p, k)
    BY <1>p, LinkValuesAre, BlankIsOther DEF Nodes!Given, Nodes!Text, Nodes!Has, Nodes!None
  <2>. QED
    BY <2>1 DEF Nodes!QueryOk
<1>fsni. CASE k = "sni"
  <2>1. q["sni"] = "absent" /\ p["sni"] = v /\ v \in {"a", "b"}
    BY <1>fsni, <1>p, LinkValuesAre
  <2>2. Nodes!FromURI(q)["servername"] = (Nodes!Said(Nodes!Text(q, "sni")))
    BY FromURIAt
  <2>3. Nodes!FromURI(p)["servername"] = (Nodes!Said(Nodes!Text(p, "sni")))
    BY FromURIAt
  <2>4. p["scheme"] = q["scheme"]
    BY <1>p
  <2>. QED
    BY <2>1, <2>2, <2>3, <2>4, <1>fsni, BlankIsOther DEF Nodes!Needless, Nodes!Default, Nodes!Said, Nodes!Opt,
       Nodes!Text, Nodes!Has, Nodes!None, Nodes!Given
<1>fflow. CASE k = "flow"
  <2>1. q["flow"] = "absent" /\ p["flow"] = v /\ v \in {"xtls-rprx-vision", "odd"}
    BY <1>fflow, <1>p, LinkValuesAre
  <2>2. Nodes!FromURI(q)["flow"] = (Nodes!Said(Nodes!Text(q, "flow")))
    BY FromURIAt
  <2>3. Nodes!FromURI(p)["flow"] = (Nodes!Said(Nodes!Text(p, "flow")))
    BY FromURIAt
  <2>4. p["scheme"] = q["scheme"]
    BY <1>p
  <2>. QED
    BY <2>1, <2>2, <2>3, <2>4, <1>fflow, BlankIsOther DEF Nodes!Needless, Nodes!Default, Nodes!Said, Nodes!Opt,
       Nodes!Text, Nodes!Has, Nodes!None, Nodes!Given
<1>fobfs. CASE k = "obfs"
  <2>1. q["obfs"] = "absent" /\ p["obfs"] = v /\ v \in {"salamander", "odd"}
    BY <1>fobfs, <1>p, LinkValuesAre
  <2>2. Nodes!FromURI(q)["obfs"] = (Nodes!Said(Nodes!Text(q, "obfs")))
    BY FromURIAt
  <2>3. Nodes!FromURI(p)["obfs"] = (Nodes!Said(Nodes!Text(p, "obfs")))
    BY FromURIAt
  <2>4. p["scheme"] = q["scheme"]
    BY <1>p
  <2>. QED
    BY <2>1, <2>2, <2>3, <2>4, <1>fobfs, BlankIsOther DEF Nodes!Needless, Nodes!Default, Nodes!Said, Nodes!Opt,
       Nodes!Text, Nodes!Has, Nodes!None, Nodes!Given
<1>fobfspassword. CASE k = "obfs-password"
  <2>1. q["obfs-password"] = "absent" /\ p["obfs-password"] = v /\ v \in {"p", "quote"}
    BY <1>fobfspassword, <1>p, LinkValuesAre
  <2>2. Nodes!FromURI(q)["obfs-password"] = (Nodes!Said(Nodes!Text(q, "obfs-password")))
    BY FromURIAt
  <2>3. Nodes!FromURI(p)["obfs-password"] = (Nodes!Said(Nodes!Text(p, "obfs-password")))
    BY FromURIAt
  <2>4. p["scheme"] = q["scheme"]
    BY <1>p
  <2>. QED
    BY <2>1, <2>2, <2>3, <2>4, <1>fobfspassword, BlankIsOther DEF Nodes!Needless, Nodes!Default, Nodes!Said,
       Nodes!Opt, Nodes!Text, Nodes!Has, Nodes!None, Nodes!Given
<1>falpn. CASE k = "alpn"
  <2>1. q["alpn"] = "absent" /\ p["alpn"] = v /\ v \in {"h2", "bad"}
    BY <1>falpn, <1>p, LinkValuesAre
  <2>2. Nodes!FromURI(q)["alpn"] = (Nodes!Said(Nodes!Text(q, "alpn")))
    BY FromURIAt
  <2>3. Nodes!FromURI(p)["alpn"] = (Nodes!Said(Nodes!Text(p, "alpn")))
    BY FromURIAt
  <2>4. p["scheme"] = q["scheme"]
    BY <1>p
  <2>. QED
    BY <2>1, <2>2, <2>3, <2>4, <1>falpn, BlankIsOther DEF Nodes!Needless, Nodes!Default, Nodes!Said, Nodes!Opt,
       Nodes!Text, Nodes!Has, Nodes!None, Nodes!Given
<1>ffp. CASE k = "fp"
  <2>1. q["fp"] = "absent" /\ p["fp"] = v /\ v \in {"chrome", "safari"}
    BY <1>ffp, <1>p, LinkValuesAre
  <2>2. Nodes!FromURI(q)["client-fingerprint"] = (Nodes!Said(Nodes!Text(q, "fp")))
    BY FromURIAt
  <2>3. Nodes!FromURI(p)["client-fingerprint"] = (Nodes!Said(Nodes!Text(p, "fp")))
    BY FromURIAt
  <2>4. p["scheme"] = q["scheme"]
    BY <1>p
  <2>. QED
    BY <2>1, <2>2, <2>3, <2>4, <1>ffp, BlankIsOther DEF Nodes!Needless, Nodes!Default, Nodes!Said, Nodes!Opt,
       Nodes!Text, Nodes!Has, Nodes!None, Nodes!Given
<1>fsecurity. CASE k = "security"
  <2>1. q["security"] = "absent" /\ p["security"] = v /\ v \in {"none", "tls", "reality", "odd"}
    BY <1>fsecurity, <1>p, LinkValuesAre
  <2>2. Nodes!FromURI(q)["tls"] = (Nodes!Tls(q))
    BY FromURIAt
  <2>3. Nodes!FromURI(p)["tls"] = (Nodes!Tls(p))
    BY FromURIAt
  <2>4. Nodes!FromURI(q)["reality-opts"] = (Nodes!Opt(q["security"] = "reality", IF Nodes!Given(q, "sid")
          THEN "both" ELSE "key"))
    BY FromURIAt
  <2>5. Nodes!FromURI(p)["reality-opts"] = (Nodes!Opt(p["security"] = "reality", IF Nodes!Given(p, "sid")
          THEN "both" ELSE "key"))
    BY FromURIAt
  <2>6. q["scheme"] \in {"vless", "trojan", "anytls"}
    BY <1>fsecurity, <1>s DEF Nodes!KeysOf
  <2>7. Nodes!Given(p, "security") => p["security"] \in {"none", "tls", "reality"}
    BY DEF Nodes!QueryOk
  <2>8. p["scheme"] = q["scheme"]
    BY <1>p
  <2>. QED
    BY <2>1, <2>2, <2>3, <2>4, <2>5, <2>6, <2>7, <2>8, <1>fsecurity, BlankIsOther DEF Nodes!Needless,
       Nodes!Default, Nodes!Said, Nodes!Opt, Nodes!Text, Nodes!Has, Nodes!None, Nodes!Given, Nodes!Tls,
       Nodes!Bool, Nodes!AlwaysSecure
<1>ftype. CASE k = "type"
  <2>1. q["type"] = "absent" /\ p["type"] = v /\ v \in {"none", "tcp", "ws", "grpc"}
    BY <1>ftype, <1>p, LinkValuesAre
  <2>2. Nodes!FromURI(q)["network"] = (Nodes!Opt(Nodes!Text(q, "type") # "tcp", Nodes!Said(Nodes!Text(q,
          "type"))))
    BY FromURIAt
  <2>3. Nodes!FromURI(p)["network"] = (Nodes!Opt(Nodes!Text(p, "type") # "tcp", Nodes!Said(Nodes!Text(p,
          "type"))))
    BY FromURIAt
  <2>4. q["scheme"] \in {"vless", "trojan", "anytls"}
    BY <1>ftype, <1>s DEF Nodes!KeysOf
  <2>5. p["scheme"] = q["scheme"]
    BY <1>p
  <2>. QED
    BY <2>1, <2>2, <2>3, <2>4, <2>5, <1>ftype, BlankIsOther DEF Nodes!Needless, Nodes!Default, Nodes!Said,
       Nodes!Opt, Nodes!Text, Nodes!Has, Nodes!None, Nodes!Given
<1>fpath. CASE k = "path"
  <2>1. q["path"] = "absent" /\ p["path"] = v /\ v \in {"/", "/p"}
    BY <1>fpath, <1>p, LinkValuesAre
  <2>2. p["type"] = q["type"] /\ p["host"] = q["host"]
    BY <1>fpath, <1>p
  <2>3. Nodes!FromURI(q)["ws-opts"] = (Nodes!Opt(q["type"] = "ws", Nodes!WsOf(Nodes!Text(q, "path"),
          Nodes!Text(q, "host"))))
    BY FromURIAt
  <2>4. Nodes!FromURI(p)["ws-opts"] = (Nodes!Opt(p["type"] = "ws", Nodes!WsOf(Nodes!Text(p, "path"),
          Nodes!Text(p, "host"))))
    BY FromURIAt
  <2>5. q["type"] = "ws"
    BY <1>fpath, <1>p, <1>given DEF KeyNames
  <2>6. p["scheme"] = q["scheme"]
    BY <1>p
  <2>. QED
    BY <2>1, <2>2, <2>3, <2>4, <2>5, <2>6, <1>fpath, BlankIsOther DEF Nodes!Needless, Nodes!Default, Nodes!Said,
       Nodes!Opt, Nodes!Text, Nodes!Has, Nodes!None, Nodes!Given, Nodes!WsOf
<1>fhost. CASE k = "host"
  <2>1. q["host"] = "absent" /\ p["host"] = v /\ v \in {"p", "quote"}
    BY <1>fhost, <1>p, LinkValuesAre
  <2>2. p["type"] = q["type"] /\ p["path"] = q["path"]
    BY <1>fhost, <1>p
  <2>3. Nodes!FromURI(q)["ws-opts"] = (Nodes!Opt(q["type"] = "ws", Nodes!WsOf(Nodes!Text(q, "path"),
          Nodes!Text(q, "host"))))
    BY FromURIAt
  <2>4. Nodes!FromURI(p)["ws-opts"] = (Nodes!Opt(p["type"] = "ws", Nodes!WsOf(Nodes!Text(p, "path"),
          Nodes!Text(p, "host"))))
    BY FromURIAt
  <2>5. q["type"] = "ws"
    BY <1>fhost, <1>p, <1>given DEF KeyNames
  <2>6. p["scheme"] = q["scheme"]
    BY <1>p
  <2>. QED
    BY <2>1, <2>2, <2>3, <2>4, <2>5, <2>6, <1>fhost, BlankIsOther DEF Nodes!Needless, Nodes!Default, Nodes!Said,
       Nodes!Opt, Nodes!Text, Nodes!Has, Nodes!None, Nodes!Given, Nodes!WsOf
<1>fserviceName. CASE k = "serviceName"
  <2>1. q["serviceName"] = "absent" /\ p["serviceName"] = v /\ v \in {"s"}
    BY <1>fserviceName, <1>p, LinkValuesAre
  <2>2. p["type"] = q["type"]
    BY <1>fserviceName, <1>p
  <2>3. Nodes!FromURI(q)["grpc-opts"] = (Nodes!Opt(q["type"] = "grpc", Nodes!Text(q, "serviceName")))
    BY FromURIAt
  <2>4. Nodes!FromURI(p)["grpc-opts"] = (Nodes!Opt(p["type"] = "grpc", Nodes!Text(p, "serviceName")))
    BY FromURIAt
  <2>5. q["type"] = "grpc"
    BY <1>fserviceName, <1>p, <1>given DEF KeyNames
  <2>6. p["scheme"] = q["scheme"]
    BY <1>p
  <2>. QED
    BY <2>1, <2>2, <2>3, <2>4, <2>5, <2>6, <1>fserviceName, BlankIsOther DEF Nodes!Needless, Nodes!Default,
       Nodes!Said, Nodes!Opt, Nodes!Text, Nodes!Has, Nodes!None, Nodes!Given
<1>fsid. CASE k = "sid"
  <2>1. q["sid"] = "absent" /\ p["sid"] = v /\ v \in {"id"}
    BY <1>fsid, <1>p, LinkValuesAre
  <2>2. p["security"] = q["security"]
    BY <1>fsid, <1>p
  <2>3. Nodes!FromURI(q)["reality-opts"] = (Nodes!Opt(q["security"] = "reality", IF Nodes!Given(q, "sid")
          THEN "both" ELSE "key"))
    BY FromURIAt
  <2>4. Nodes!FromURI(p)["reality-opts"] = (Nodes!Opt(p["security"] = "reality", IF Nodes!Given(p, "sid")
          THEN "both" ELSE "key"))
    BY FromURIAt
  <2>5. q["security"] = "reality"
    BY <1>fsid, <1>p, <1>given DEF KeyNames
  <2>6. p["scheme"] = q["scheme"]
    BY <1>p
  <2>. QED
    BY <2>1, <2>2, <2>3, <2>4, <2>5, <2>6, <1>fsid, BlankIsOther DEF Nodes!Needless, Nodes!Default, Nodes!Said,
       Nodes!Opt, Nodes!Text, Nodes!Has, Nodes!None, Nodes!Given
<1>fpbk. CASE k = "pbk"
  <2>1. q["pbk"] = "absent" /\ p["pbk"] = v /\ v \in {"key"} /\ p["security"] = q["security"]
    BY <1>fpbk, <1>p, LinkValuesAre DEF KeyNames
  <2>2. q["security"] = "reality" => Nodes!Given(q, "pbk")
    BY DEF Nodes!QueryOk
  <2>3. p["security"] # "reality" => ~Nodes!Given(p, "pbk")
    BY DEF Nodes!QueryOk
  <2>. QED
    BY <2>1, <2>2, <2>3, BlankIsOther DEF Nodes!Said, Nodes!Opt, Nodes!Text, Nodes!Has, Nodes!None, Nodes!Given
<1>fencryption. CASE k = "encryption"
  <2>1. q["encryption"] = "absent" /\ p["encryption"] = v /\ v \in {"none", "odd"}
    BY <1>fencryption, <1>p, LinkValuesAre
  <2>2. Nodes!Given(p, "encryption") => p["encryption"] = "none"
    BY DEF Nodes!QueryOk
  <2>3. p["scheme"] = q["scheme"]
    BY <1>p
  <2>. QED
    BY <2>1, <2>2, <2>3, <1>fencryption, BlankIsOther DEF Nodes!Needless, Nodes!Default, Nodes!Said, Nodes!Opt,
       Nodes!Text, Nodes!Has, Nodes!None, Nodes!Given
<1>finsecure. CASE k = "insecure"
  <2>1. q["insecure"] = "absent" /\ p["insecure"] = v /\ v \in {"true", "false"}
    BY <1>finsecure, <1>p, LinkValuesAre
  <2>2. Nodes!FromURI(q)["skip-cert-verify"] = (Nodes!Settled(q, Nodes!Text(q, "insecure"),
          Nodes!Opt(Nodes!Tls(q) = "true", "false")))
    BY FromURIAt
  <2>3. Nodes!FromURI(p)["skip-cert-verify"] = (Nodes!Settled(p, Nodes!Text(p, "insecure"),
          Nodes!Opt(Nodes!Tls(p) = "true", "false")))
    BY FromURIAt
  <2>4. q["scheme"] \in {"anytls", "hysteria2"}
    BY <1>finsecure, <1>s DEF Nodes!KeysOf
  <2>5. Nodes!Tls(p) = Nodes!Tls(q)
    BY <1>finsecure, <1>p DEF KeyNames, Nodes!Tls, Nodes!Given, Nodes!Text, Nodes!Has, Nodes!None
  <2>6. p["scheme"] = q["scheme"]
    BY <1>p
  <2>. QED
    BY <2>1, <2>2, <2>3, <2>4, <2>5, <2>6, <1>finsecure, BlankIsOther DEF Nodes!Needless, Nodes!Default,
       Nodes!Said, Nodes!Opt, Nodes!Text, Nodes!Has, Nodes!None, Nodes!Given, Nodes!Settled, Nodes!UdpByDefault
<1>fudp. CASE k = "udp"
  <2>1. q["udp"] = "absent" /\ p["udp"] = v /\ v \in {"true", "false"}
    BY <1>fudp, <1>p, LinkValuesAre
  <2>2. Nodes!FromURI(q)["udp"] = (Nodes!Settled(q, Nodes!Text(q, "udp"), "true"))
    BY FromURIAt
  <2>3. Nodes!FromURI(p)["udp"] = (Nodes!Settled(p, Nodes!Text(p, "udp"), "true"))
    BY FromURIAt
  <2>4. q["scheme"] \in {"anytls"}
    BY <1>fudp, <1>s DEF Nodes!KeysOf
  <2>5. p["scheme"] = q["scheme"]
    BY <1>p
  <2>. QED
    BY <2>1, <2>2, <2>3, <2>4, <2>5, <1>fudp, BlankIsOther DEF Nodes!Needless, Nodes!Default, Nodes!Said,
       Nodes!Opt, Nodes!Text, Nodes!Has, Nodes!None, Nodes!Given, Nodes!Settled, Nodes!UdpByDefault
<1>fpacketEncoding. CASE k = "packetEncoding"
  <2>1. q["packetEncoding"] = "absent" /\ p["packetEncoding"] = v /\ v \in {"xudp", "none", "odd"}
    BY <1>fpacketEncoding, <1>p, LinkValuesAre
  <2>2. p["packet_encoding"] = q["packet_encoding"] /\ p["xudp"] = q["xudp"]
    BY <1>fpacketEncoding, <1>p DEF KeyNames
  <2>3. q["packet_encoding"] \in {"xudp", "none", "odd", "absent"} /\ q["xudp"] \in {"true", "false", "absent"}
    BY LinkValuesAre, KeysAre DEF LinkDoc, KeyNames, Nodes!None
  <2>4. \A e \in Nodes!Encodings(p) : \A d \in Nodes!Encodings(p) : d = e
    BY DEF Nodes!QueryOk
  <2>5. Nodes!Text(p, "packetEncoding") # Nodes!Blank
    BY <2>1, BlankIsOther DEF Nodes!Text, Nodes!Has, Nodes!None
  <2>6. Nodes!Encodings(p) # {}
    BY <2>1, <2>5, BlankIsOther DEF Nodes!Encodings
  <2>7. CASE q["packet_encoding"] = "absent" /\ q["xudp"] = "absent"
    <3>1. Nodes!Encodings(q) = {}
      BY <2>1, <2>7, BlankIsOther DEF Nodes!Encodings, Nodes!Text, Nodes!Has, Nodes!None
    <3>2. Nodes!FromURI(q)["packet-encoding"] = Nodes!None
      BY <3>1, FromURIAt
    <3>3. Nodes!FromURI(p)["packet-encoding"] \in Nodes!Encodings(p)
      BY <2>6, FromURIAt
    <3>4. "absent" \notin Nodes!Encodings(p)
      BY <2>1, <2>2, <2>7, BlankIsOther DEF Nodes!Encodings, Nodes!Text, Nodes!Has, Nodes!None
    <3>. QED
      BY <3>2, <3>3, <3>4 DEF Nodes!None
  <2>8. CASE q["packet_encoding"] # "absent"
    <3>1. (CASE p["packet_encoding"] = "true" -> "xudp" [] p["packet_encoding"] = "false" -> "none"
            [] OTHER -> p["packet_encoding"]) = (CASE p["packetEncoding"] = "true" -> "xudp"
            [] p["packetEncoding"] = "false" -> "none" [] OTHER -> p["packetEncoding"])
      BY <2>1, <2>2, <2>3, <2>4, <2>8, BlankIsOther DEF Nodes!Encodings, Nodes!Text, Nodes!Has, Nodes!None
    <3>. QED
      BY <1>fpacketEncoding, <3>1 DEF Nodes!Needless
  <2>9. CASE q["xudp"] # "absent"
    <3>1. (CASE p["xudp"] = "true" -> "xudp" [] p["xudp"] = "false" -> "none"
            [] OTHER -> p["xudp"]) = (CASE p["packetEncoding"] = "true" -> "xudp"
            [] p["packetEncoding"] = "false" -> "none" [] OTHER -> p["packetEncoding"])
      BY <2>1, <2>2, <2>3, <2>4, <2>9, BlankIsOther DEF Nodes!Encodings, Nodes!Text, Nodes!Has, Nodes!None
    <3>. QED
      BY <1>fpacketEncoding, <3>1 DEF Nodes!Needless
  <2>. QED
    BY <2>7, <2>8, <2>9
<1>fpacketencoding. CASE k = "packet_encoding"
  <2>1. q["packet_encoding"] = "absent" /\ p["packet_encoding"] = v /\ v \in {"xudp", "none", "odd"}
    BY <1>fpacketencoding, <1>p, LinkValuesAre
  <2>2. p["packetEncoding"] = q["packetEncoding"] /\ p["xudp"] = q["xudp"]
    BY <1>fpacketencoding, <1>p DEF KeyNames
  <2>3. q["packetEncoding"] \in {"xudp", "none", "odd", "absent"} /\ q["xudp"] \in {"true", "false", "absent"}
    BY LinkValuesAre, KeysAre DEF LinkDoc, KeyNames, Nodes!None
  <2>4. \A e \in Nodes!Encodings(p) : \A d \in Nodes!Encodings(p) : d = e
    BY DEF Nodes!QueryOk
  <2>5. Nodes!Text(p, "packet_encoding") # Nodes!Blank
    BY <2>1, BlankIsOther DEF Nodes!Text, Nodes!Has, Nodes!None
  <2>6. Nodes!Encodings(p) # {}
    BY <2>1, <2>5, BlankIsOther DEF Nodes!Encodings
  <2>7. CASE q["packetEncoding"] = "absent" /\ q["xudp"] = "absent"
    <3>1. Nodes!Encodings(q) = {}
      BY <2>1, <2>7, BlankIsOther DEF Nodes!Encodings, Nodes!Text, Nodes!Has, Nodes!None
    <3>2. Nodes!FromURI(q)["packet-encoding"] = Nodes!None
      BY <3>1, FromURIAt
    <3>3. Nodes!FromURI(p)["packet-encoding"] \in Nodes!Encodings(p)
      BY <2>6, FromURIAt
    <3>4. "absent" \notin Nodes!Encodings(p)
      BY <2>1, <2>2, <2>7, BlankIsOther DEF Nodes!Encodings, Nodes!Text, Nodes!Has, Nodes!None
    <3>. QED
      BY <3>2, <3>3, <3>4 DEF Nodes!None
  <2>8. CASE q["packetEncoding"] # "absent"
    <3>1. (CASE p["packetEncoding"] = "true" -> "xudp" [] p["packetEncoding"] = "false" -> "none"
            [] OTHER -> p["packetEncoding"]) = (CASE p["packet_encoding"] = "true" -> "xudp"
            [] p["packet_encoding"] = "false" -> "none" [] OTHER -> p["packet_encoding"])
      BY <2>1, <2>2, <2>3, <2>4, <2>8, BlankIsOther DEF Nodes!Encodings, Nodes!Text, Nodes!Has, Nodes!None
    <3>. QED
      BY <1>fpacketencoding, <3>1 DEF Nodes!Needless
  <2>9. CASE q["xudp"] # "absent"
    <3>1. (CASE p["xudp"] = "true" -> "xudp" [] p["xudp"] = "false" -> "none"
            [] OTHER -> p["xudp"]) = (CASE p["packet_encoding"] = "true" -> "xudp"
            [] p["packet_encoding"] = "false" -> "none" [] OTHER -> p["packet_encoding"])
      BY <2>1, <2>2, <2>3, <2>4, <2>9, BlankIsOther DEF Nodes!Encodings, Nodes!Text, Nodes!Has, Nodes!None
    <3>. QED
      BY <1>fpacketencoding, <3>1 DEF Nodes!Needless
  <2>. QED
    BY <2>7, <2>8, <2>9
<1>fxudp. CASE k = "xudp"
  <2>1. q["xudp"] = "absent" /\ p["xudp"] = v /\ v \in {"true", "false"}
    BY <1>fxudp, <1>p, LinkValuesAre
  <2>2. p["packetEncoding"] = q["packetEncoding"] /\ p["packet_encoding"] = q["packet_encoding"]
    BY <1>fxudp, <1>p DEF KeyNames
  <2>3. q["packetEncoding"] \in {"xudp", "none", "odd", "absent"} /\ q["packet_encoding"] \in {"xudp", "none",
          "odd", "absent"}
    BY LinkValuesAre, KeysAre DEF LinkDoc, KeyNames, Nodes!None
  <2>4. \A e \in Nodes!Encodings(p) : \A d \in Nodes!Encodings(p) : d = e
    BY DEF Nodes!QueryOk
  <2>5. Nodes!Text(p, "xudp") # Nodes!Blank
    BY <2>1, BlankIsOther DEF Nodes!Text, Nodes!Has, Nodes!None
  <2>6. Nodes!Encodings(p) # {}
    BY <2>1, <2>5, BlankIsOther DEF Nodes!Encodings
  <2>7. CASE q["packetEncoding"] = "absent" /\ q["packet_encoding"] = "absent"
    <3>1. Nodes!Encodings(q) = {}
      BY <2>1, <2>7, BlankIsOther DEF Nodes!Encodings, Nodes!Text, Nodes!Has, Nodes!None
    <3>2. Nodes!FromURI(q)["packet-encoding"] = Nodes!None
      BY <3>1, FromURIAt
    <3>3. Nodes!FromURI(p)["packet-encoding"] \in Nodes!Encodings(p)
      BY <2>6, FromURIAt
    <3>4. "absent" \notin Nodes!Encodings(p)
      BY <2>1, <2>2, <2>7, BlankIsOther DEF Nodes!Encodings, Nodes!Text, Nodes!Has, Nodes!None
    <3>. QED
      BY <3>2, <3>3, <3>4 DEF Nodes!None
  <2>8. CASE q["packetEncoding"] # "absent"
    <3>1. (CASE p["packetEncoding"] = "true" -> "xudp" [] p["packetEncoding"] = "false" -> "none"
            [] OTHER -> p["packetEncoding"]) = (CASE p["xudp"] = "true" -> "xudp"
            [] p["xudp"] = "false" -> "none" [] OTHER -> p["xudp"])
      BY <2>1, <2>2, <2>3, <2>4, <2>8, BlankIsOther DEF Nodes!Encodings, Nodes!Text, Nodes!Has, Nodes!None
    <3>. QED
      BY <1>fxudp, <3>1 DEF Nodes!Needless
  <2>9. CASE q["packet_encoding"] # "absent"
    <3>1. (CASE p["packet_encoding"] = "true" -> "xudp" [] p["packet_encoding"] = "false" -> "none"
            [] OTHER -> p["packet_encoding"]) = (CASE p["xudp"] = "true" -> "xudp"
            [] p["xudp"] = "false" -> "none" [] OTHER -> p["xudp"])
      BY <2>1, <2>2, <2>3, <2>4, <2>9, BlankIsOther DEF Nodes!Encodings, Nodes!Text, Nodes!Has, Nodes!None
    <3>. QED
      BY <1>fxudp, <3>1 DEF Nodes!Needless
  <2>. QED
    BY <2>7, <2>8, <2>9
<1>fplugin. CASE k = "plugin"
  <2>1. "plugin" \in Nodes!Used(p)
    BY <1>fplugin, <1>p, LinkValuesAre, KeysAre DEF LinkDoc, KeyNames, Nodes!Used, Nodes!Has, Nodes!None
  <2>2. Nodes!Used(p) \subseteq Nodes!KeysOf(p["scheme"]) \cup {"scheme", "user", "secret"}
    BY DEF Nodes!QueryOk
  <2>. QED
    BY <2>1, <2>2, <1>p, <1>s DEF Nodes!KeysOf
<1>k. k \in {"sni", "flow", "obfs", "obfs-password", "alpn", "fp", "security", "type", "path", "host",
        "serviceName", "sid", "pbk", "encryption", "insecure", "udp", "packetEncoding", "packet_encoding",
        "xudp", "plugin"}
  BY <1>s DEF Nodes!KeysOf
<1>. QED
  BY <1>k, <1>fsni, <1>fflow, <1>fobfs, <1>fobfspassword, <1>falpn, <1>ffp, <1>fsecurity, <1>ftype, <1>fpath,
     <1>fhost, <1>fserviceName, <1>fsid, <1>fpbk, <1>fencryption, <1>finsecure, <1>fudp, <1>fpacketEncoding,
     <1>fpacketencoding, <1>fxudp, <1>fplugin

\* A key that is added to a VMess link shows in the node, the host beside gRPC left aside.
LEMMA VMessShows ==
  ASSUME NEW q, LinkDoc(q), NEW k \in KeyNames \ {"scheme", "user", "secret"}, q[k] = "absent",
         k \in Nodes!KeysOf(q["scheme"]) \cup {"plugin"}, NEW v \in Nodes!LinkValues(k), NEW p,
           p = [q EXCEPT ![k] = v],
         q["scheme"] = "vmess", Nodes!VMessOk(q), Nodes!VMessOk(p), Nodes!FromVMess(q) = Nodes!FromVMess(p)
  PROVE  Nodes!Needless(p, k) \/ (q["net"] = "grpc" /\ k = "host")
<1>p. /\ p[k] = v
      /\ \A j \in KeyNames \ {k} : p[j] = q[j]
      /\ p["scheme"] = q["scheme"]
  BY KeysAre DEF LinkDoc, KeyNames
<1>fid. CASE k = "id"
  <2>1. q["id"] = "absent" /\ p["id"] = v /\ v \in {"p", "quote"}
    BY <1>fid, <1>p, LinkValuesAre
  <2>2. Nodes!FromVMess(q)["uuid"] = (Nodes!Text(q, "id"))
    BY FromVMessAt
  <2>3. Nodes!FromVMess(p)["uuid"] = (Nodes!Text(p, "id"))
    BY FromVMessAt
  <2>4. p["scheme"] = q["scheme"]
    BY <1>p
  <2>. QED
    BY <2>1, <2>2, <2>3, <2>4, <1>fid, BlankIsOther DEF Nodes!Needless, Nodes!Default, Nodes!Said, Nodes!Opt,
       Nodes!Text, Nodes!Has, Nodes!None, Nodes!Given
<1>faid. CASE k = "aid"
  <2>1. q["aid"] = "absent" /\ p["aid"] = v /\ v \in {"0", "4"}
    BY <1>faid, <1>p, LinkValuesAre
  <2>2. Nodes!FromVMess(q)["alterId"] = (q["aid"])
    BY FromVMessAt
  <2>3. Nodes!FromVMess(p)["alterId"] = (p["aid"])
    BY FromVMessAt
  <2>4. p["scheme"] = q["scheme"]
    BY <1>p
  <2>. QED
    BY <2>1, <2>2, <2>3, <2>4, <1>faid, BlankIsOther DEF Nodes!Needless, Nodes!Default, Nodes!Said, Nodes!Opt,
       Nodes!Text, Nodes!Has, Nodes!None, Nodes!Given
<1>fscy. CASE k = "scy"
  <2>1. q["scy"] = "absent" /\ p["scy"] = v /\ v \in {"auto", "aes-128-gcm", "chacha20-poly1305", "odd"}
    BY <1>fscy, <1>p, LinkValuesAre
  <2>2. Nodes!FromVMess(q)["cipher"] = (q["scy"])
    BY FromVMessAt
  <2>3. Nodes!FromVMess(p)["cipher"] = (p["scy"])
    BY FromVMessAt
  <2>4. p["scheme"] = q["scheme"]
    BY <1>p
  <2>. QED
    BY <2>1, <2>2, <2>3, <2>4, <1>fscy, BlankIsOther DEF Nodes!Needless, Nodes!Default, Nodes!Said, Nodes!Opt,
       Nodes!Text, Nodes!Has, Nodes!None, Nodes!Given
<1>fsni. CASE k = "sni"
  <2>1. q["sni"] = "absent" /\ p["sni"] = v /\ v \in {"a", "b"}
    BY <1>fsni, <1>p, LinkValuesAre
  <2>2. Nodes!FromVMess(q)["servername"] = (Nodes!Said(Nodes!Text(q, "sni")))
    BY FromVMessAt
  <2>3. Nodes!FromVMess(p)["servername"] = (Nodes!Said(Nodes!Text(p, "sni")))
    BY FromVMessAt
  <2>4. p["scheme"] = q["scheme"]
    BY <1>p
  <2>. QED
    BY <2>1, <2>2, <2>3, <2>4, <1>fsni, BlankIsOther DEF Nodes!Needless, Nodes!Default, Nodes!Said, Nodes!Opt,
       Nodes!Text, Nodes!Has, Nodes!None, Nodes!Given
<1>ffp. CASE k = "fp"
  <2>1. q["fp"] = "absent" /\ p["fp"] = v /\ v \in {"chrome", "safari"}
    BY <1>ffp, <1>p, LinkValuesAre
  <2>2. Nodes!FromVMess(q)["client-fingerprint"] = (Nodes!Said(Nodes!Text(q, "fp")))
    BY FromVMessAt
  <2>3. Nodes!FromVMess(p)["client-fingerprint"] = (Nodes!Said(Nodes!Text(p, "fp")))
    BY FromVMessAt
  <2>4. p["scheme"] = q["scheme"]
    BY <1>p
  <2>. QED
    BY <2>1, <2>2, <2>3, <2>4, <1>ffp, BlankIsOther DEF Nodes!Needless, Nodes!Default, Nodes!Said, Nodes!Opt,
       Nodes!Text, Nodes!Has, Nodes!None, Nodes!Given
<1>falpn. CASE k = "alpn"
  <2>1. q["alpn"] = "absent" /\ p["alpn"] = v /\ v \in {"h2", "bad"}
    BY <1>falpn, <1>p, LinkValuesAre
  <2>2. Nodes!FromVMess(q)["alpn"] = (Nodes!Said(Nodes!Text(q, "alpn")))
    BY FromVMessAt
  <2>3. Nodes!FromVMess(p)["alpn"] = (Nodes!Said(Nodes!Text(p, "alpn")))
    BY FromVMessAt
  <2>4. p["scheme"] = q["scheme"]
    BY <1>p
  <2>. QED
    BY <2>1, <2>2, <2>3, <2>4, <1>falpn, BlankIsOther DEF Nodes!Needless, Nodes!Default, Nodes!Said, Nodes!Opt,
       Nodes!Text, Nodes!Has, Nodes!None, Nodes!Given
<1>fnet. CASE k = "net"
  <2>1. q["net"] = "absent" /\ p["net"] = v /\ v \in {"tcp", "ws", "grpc"}
    BY <1>fnet, <1>p, LinkValuesAre
  <2>2. Nodes!FromVMess(q)["network"] = (Nodes!Opt(Nodes!Text(q, "net") # "tcp", Nodes!Said(Nodes!Text(q,
          "net"))))
    BY FromVMessAt
  <2>3. Nodes!FromVMess(p)["network"] = (Nodes!Opt(Nodes!Text(p, "net") # "tcp", Nodes!Said(Nodes!Text(p,
          "net"))))
    BY FromVMessAt
  <2>4. p["scheme"] = q["scheme"]
    BY <1>p
  <2>. QED
    BY <2>1, <2>2, <2>3, <2>4, <1>fnet, BlankIsOther DEF Nodes!Needless, Nodes!Default, Nodes!Said, Nodes!Opt,
       Nodes!Text, Nodes!Has, Nodes!None, Nodes!Given
<1>ftls. CASE k = "tls"
  <2>1. q["tls"] = "absent" /\ p["tls"] = v /\ v \in {"none", "tls"}
    BY <1>ftls, <1>p, LinkValuesAre
  <2>2. Nodes!FromVMess(q)["tls"] = (Nodes!Opt(q["tls"] = "tls", "true"))
    BY FromVMessAt
  <2>3. Nodes!FromVMess(p)["tls"] = (Nodes!Opt(p["tls"] = "tls", "true"))
    BY FromVMessAt
  <2>4. p["scheme"] = q["scheme"]
    BY <1>p
  <2>. QED
    BY <2>1, <2>2, <2>3, <2>4, <1>ftls, BlankIsOther DEF Nodes!Needless, Nodes!Default, Nodes!Said, Nodes!Opt,
       Nodes!Text, Nodes!Has, Nodes!None, Nodes!Given
<1>fv. CASE k = "v"
  <2>1. q["v"] = "absent" /\ p["v"] = v /\ v \in {"1", "2"}
    BY <1>fv, <1>p, LinkValuesAre
  <2>2. Nodes!Has(p, "v") => p["v"] = "2"
    BY DEF Nodes!VMessOk
  <2>3. p["scheme"] = q["scheme"]
    BY <1>p
  <2>. QED
    BY <2>1, <2>2, <2>3, <1>fv, BlankIsOther DEF Nodes!Needless, Nodes!Default, Nodes!Said, Nodes!Opt,
       Nodes!Text, Nodes!Has, Nodes!None, Nodes!Given
<1>ftype. CASE k = "type"
  <2>1. q["type"] = "absent" /\ p["type"] = v /\ v \in {"none", "tcp", "ws", "grpc"}
    BY <1>ftype, <1>p, LinkValuesAre
  <2>2. Nodes!Given(p, "type") => p["type"] = "none"
    BY DEF Nodes!VMessOk
  <2>3. p["scheme"] = q["scheme"]
    BY <1>p
  <2>. QED
    BY <2>1, <2>2, <2>3, <1>ftype, BlankIsOther DEF Nodes!Needless, Nodes!Default, Nodes!Said, Nodes!Opt,
       Nodes!Text, Nodes!Has, Nodes!None, Nodes!Given
<1>fpath. CASE k = "path"
  <2>1. q["path"] = "absent" /\ p["path"] = v /\ v \in {"/", "/p"}
    BY <1>fpath, <1>p, LinkValuesAre
  <2>2. p["net"] = q["net"] /\ p["host"] = q["host"]
    BY <1>fpath, <1>p
  <2>3. Nodes!FromVMess(q)["ws-opts"] = (Nodes!Opt(q["net"] = "ws", Nodes!WsOf(Nodes!Text(q, "path"),
          Nodes!Text(q, "host"))))
    BY FromVMessAt
  <2>4. Nodes!FromVMess(p)["ws-opts"] = (Nodes!Opt(p["net"] = "ws", Nodes!WsOf(Nodes!Text(p, "path"),
          Nodes!Text(p, "host"))))
    BY FromVMessAt
  <2>5. Nodes!FromVMess(q)["grpc-opts"] = (Nodes!Opt(q["net"] = "grpc", Nodes!Text(q, "path")))
    BY FromVMessAt
  <2>6. Nodes!FromVMess(p)["grpc-opts"] = (Nodes!Opt(p["net"] = "grpc", Nodes!Text(p, "path")))
    BY FromVMessAt
  <2>7. p["net"] \notin {"ws", "grpc"} => ~Nodes!Given(p, "path") /\ ~Nodes!Given(p, "host")
    BY DEF Nodes!VMessOk
  <2>8. p["scheme"] = q["scheme"]
    BY <1>p
  <2>. QED
    BY <2>1, <2>2, <2>3, <2>4, <2>5, <2>6, <2>7, <2>8, <1>fpath, BlankIsOther DEF Nodes!Needless, Nodes!Default,
       Nodes!Said, Nodes!Opt, Nodes!Text, Nodes!Has, Nodes!None, Nodes!Given, Nodes!WsOf
<1>fhost. CASE k = "host"
  <2>1. q["host"] = "absent" /\ p["host"] = v /\ v \in {"p", "quote"}
    BY <1>fhost, <1>p, LinkValuesAre
  <2>2. p["net"] = q["net"] /\ p["path"] = q["path"]
    BY <1>fhost, <1>p
  <2>3. Nodes!FromVMess(q)["ws-opts"] = (Nodes!Opt(q["net"] = "ws", Nodes!WsOf(Nodes!Text(q, "path"),
          Nodes!Text(q, "host"))))
    BY FromVMessAt
  <2>4. Nodes!FromVMess(p)["ws-opts"] = (Nodes!Opt(p["net"] = "ws", Nodes!WsOf(Nodes!Text(p, "path"),
          Nodes!Text(p, "host"))))
    BY FromVMessAt
  <2>5. p["net"] \notin {"ws", "grpc"} => ~Nodes!Given(p, "path") /\ ~Nodes!Given(p, "host")
    BY DEF Nodes!VMessOk
  <2>6. p["scheme"] = q["scheme"]
    BY <1>p
  <2>. QED
    BY <2>1, <2>2, <2>3, <2>4, <2>5, <2>6, <1>fhost, BlankIsOther DEF Nodes!Needless, Nodes!Default, Nodes!Said,
       Nodes!Opt, Nodes!Text, Nodes!Has, Nodes!None, Nodes!Given, Nodes!WsOf
<1>fplugin. CASE k = "plugin"
  <2>1. "plugin" \in Nodes!Used(p)
    BY <1>fplugin, <1>p, LinkValuesAre, KeysAre DEF LinkDoc, KeyNames, Nodes!Used, Nodes!Has, Nodes!None
  <2>2. Nodes!Used(p) \subseteq Nodes!KeysOf("vmess") \cup {"scheme"}
    BY DEF Nodes!VMessOk
  <2>. QED
    BY <2>1, <2>2 DEF Nodes!KeysOf
<1>k. k \in {"id", "aid", "scy", "sni", "fp", "alpn", "net", "tls", "v", "type", "path", "host", "plugin"}
  BY DEF Nodes!KeysOf
<1>. QED
  BY <1>k, <1>fid, <1>faid, <1>fscy, <1>fsni, <1>ffp, <1>falpn, <1>fnet, <1>ftls, <1>fv, <1>ftype, <1>fpath,
     <1>fhost, <1>fplugin

\* A parameter that is added to a link, which is read as before, says nothing new.
LEMMA ParameterShows ==
  ASSUME NEW q, LinkDoc(q), NEW k \in KeyNames \ {"scheme", "user", "secret"}, q[k] = "absent",
         k \in Nodes!KeysOf(q["scheme"]) \cup {"plugin"}, NEW v \in Nodes!LinkValues(k), NEW p,
           p = [q EXCEPT ![k] = v],
         Nodes!Parse(q) = Nodes!Parse(p), Nodes!Parse(p) # Nodes!Fail
  PROVE  Nodes!Needless(p, k) \/ (q["scheme"] = "vmess" /\ q["net"] = "grpc" /\ k = "host")
<1>0. p["scheme"] = q["scheme"]
  BY KeysAre DEF LinkDoc, KeyNames
<1>1. CASE q["scheme"] = "vmess"
  <2>1. Nodes!FromVMess(q) = Nodes!FromVMess(p) /\ Nodes!FromVMess(p) # Nodes!Fail
    BY <1>0, <1>1 DEF Nodes!Parse
  <2>2. Nodes!VMessOk(q) /\ Nodes!VMessOk(p)
    BY <2>1 DEF Nodes!FromVMess
  <2>. QED
    BY <1>1, <2>1, <2>2, VMessShows
<1>2. CASE q["scheme"] # "vmess"
  <2>1. Nodes!FromURI(q) = Nodes!FromURI(p) /\ Nodes!FromURI(p) # Nodes!Fail
    BY <1>0, <1>2 DEF Nodes!Parse
  <2>2. Nodes!QueryOk(q) /\ Nodes!QueryOk(p)
    BY <2>1 DEF Nodes!FromURI
  <2>. QED
    BY <1>2, <2>1, <2>2, QueryShows
<1>. QED
  BY <1>1, <1>2

\* The invariant of the links, which are the documents that are parsed.
LinkInv == form = "link" => LinkDoc(doc)

\* A link has a legal value for every part at every moment.
THEOREM LinkInvariant == Nodes!Spec => []LinkInv
<1>1. Nodes!Init => LinkInv
  BY LinkBasesAreLinks, TypesAssumption DEF Nodes!Init, LinkInv
<1>2. LinkInv /\ [Nodes!Next]_(Nodes!vars) => LinkInv'
  <2> SUFFICES ASSUME LinkInv, [Nodes!Next]_(Nodes!vars) PROVE LinkInv'
    OBVIOUS
  <2>1. CASE Nodes!AddField
    BY <2>1 DEF Nodes!AddField, LinkInv
  <2>2. CASE Nodes!AddParameter
    <3>1. form = "link" /\ LinkDoc(doc)
      BY <2>2 DEF Nodes!AddParameter, LinkInv
    <3>2. LinkDoc(doc)'
      BY <2>2, <3>1, ParametersKeepLinks DEF LinkDoc
    <3>. QED
      BY <3>2 DEF LinkInv
  <2>3. CASE UNCHANGED Nodes!vars
    BY <2>3 DEF Nodes!vars, LinkInv, LinkDoc
  <2>. QED
    BY <2>1, <2>2, <2>3 DEF Nodes!Next
<1>. QED
  BY <1>1, <1>2, PTL DEF Nodes!Spec

\* A parameter of an accepted link is never ignored: it shows in the node that is read, or says what
\* is true without it, the host of a VMess link over gRPC left aside (parseURI, parseVMess).
THEOREM ParametersShow == Nodes!Spec => NoneIgnored
<1>1. LinkInv /\ [Nodes!Next]_(Nodes!vars) => [form # "idle" => Nodes!ShowsOrFails]_<<form, doc, extra>>
  <2> SUFFICES ASSUME LinkInv, Nodes!Next, form = "link", NEW j \in Nodes!Used(doc') \ Nodes!Used(doc),
                      Nodes!Parse(doc) = Nodes!Parse(doc'), Nodes!Parse(doc') # Nodes!Fail
               PROVE  Nodes!Needless(doc', j) \/ (doc["scheme"] = "vmess" /\ doc["net"] = "grpc" /\ j = "host")
    BY DEF Nodes!ShowsOrFails, Nodes!vars
  <2>1. Nodes!AddParameter /\ LinkDoc(doc)
    BY DEF Nodes!Next, Nodes!AddField, LinkInv
  <2>2. PICK k \in Nodes!KeysOf(doc["scheme"]) \cup {"plugin"} : \E v \in Nodes!LinkValues(k) :
           k \in KeyNames \ {"scheme", "user", "secret"} /\ doc[k] = "absent" /\ doc' = [doc EXCEPT ![k] = v]
    BY <2>1, ParametersKeepLinks
  <2>3. PICK v \in Nodes!LinkValues(k) : doc' = [doc EXCEPT ![k] = v]
    BY <2>2
  <2>4. j = k
    BY <2>1, <2>3 DEF LinkDoc, Nodes!Used, Nodes!Has
  <2>. QED
    BY <2>1, <2>2, <2>3, <2>4, ParameterShows
<1>. QED
  BY <1>1, LinkInvariant, PTL DEF Nodes!Spec, NoneIgnored
=============================================================================
