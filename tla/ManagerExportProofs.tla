------------------------- MODULE ManagerExportProofs -------------------------
(***************************************************************************)
(* Proofs about ManagerExport: flights, leases, slots and permits, who may *)
(* be answered and with what, and that somebody can always go on, for any  *)
(* number of requests, targets, slots and permits.                         *)
(***************************************************************************)
EXTENDS ManagerExport, FiniteSetTheorems, TLAPS

-----------------------------------------------------------------------------
(* Types.                                                                    *)

\* Where a refresh is when it counts as one, and where a request has a slot.
Refreshing == {"readall", "next", "refreshed", "flight", "wait", "joined", "produce", "store",
               "finish", "result", "failure"}
Slotted    == Refreshing \cup {"enter", "reading", "prepwait", "send", "refresh", "refreshing"}
Permitted  == {"lookup", "stream"}
Places     == Slotted \cup Permitted \cup {"idle", "permit", "queue", "done"}

Contexts == {"live", "cancelled", "expired"}
Progress == [pc : Places, mode : {"ordinary", "share", "forced", "refresh"}, target : Targets \cup {None},
             rev : Revs, ctx : Contexts, slot : BOOLEAN, permit : BOOLEAN, lease : BOOLEAN,
             nodes : Nat \cup {None}, todo : SUBSET Targets, err : Errors \cup {None},
             out : Outputs \cup {None}, fromForced : BOOLEAN, overtaken : BOOLEAN]
Preps    == [refs : Nat, state : {"reading", "ok"} \cup Errors, nodes : Nat \cup {None}]

TypeOK ==
    /\ kind \in {"subscriptions", "files"}
    /\ record \in [present : BOOLEAN, rev : Revs, shared : BOOLEAN]
    /\ source \in Nat /\ fetched \in Nat
    /\ outputs \in [Keys -> Outputs \cup {None}] /\ flights \in [Keys -> [forced : BOOLEAN] \cup {None}]
    /\ refreshes \subseteq Revs
    /\ preps \in [PrepKeys -> Preps] /\ \A k \in PrepKeys : preps[k].state = "ok" => preps[k].nodes \in Nat
    /\ req \in [Requests -> Progress]

-----------------------------------------------------------------------------
(* What holds of each request by itself.                                     *)

\* What it has where it is; only a refresh of all targets is at the places of one.
Equipped(r) ==
    /\ r.slot <=> r.pc \in Slotted
    /\ r.permit <=> r.pc \in Permitted
    /\ r.lease => r.pc \in Working /\ r.mode # "refresh"
    /\ r.pc \in {"reading", "prepwait"} => r.lease
    /\ r.mode = "refresh" => r.pc \in Refreshing \cup {"queue", "refresh", "refreshing"}
    /\ r.mode = "forced" => r.pc \notin {"permit", "lookup", "enter"}
    /\ r.pc \in {"refresh", "refreshing", "readall", "next", "refreshed"} => r.mode = "refresh"
    /\ r.pc \in {"flight", "wait", "joined", "result", "failure"} \cup Working => r.target \in Targets
    /\ r.mode # "refresh" /\ r.pc \notin {"idle", "done"} => r.target \in Targets

\* A request that was overtaken meets the reason when it looks again.
Watched(r, rec) ==
    /\ r.rev <= rec.rev
    /\ r.pc \in Decided => ~r.overtaken
    /\ r.overtaken => \/ ~rec.present
                      \/ r.mode = "share" /\ ~rec.shared
                      \/ r.rev < rec.rev /\ r.pc \notin {"permit", "queue"}

\* Where a request has nodes of its own or its leader's reading.
Supplied(r, k) ==
    LET whole == r.mode = "refresh" /\ k = "subscriptions" /\ r.pc \in Refreshing \ {"readall", "refreshed"} IN
    \/ whole
    \/ r.pc = "store"
    \/ r.pc = "produce" /\ k = "subscriptions"
    \/ r.mode \in {"forced", "refresh"} /\ r.pc = "finish" /\ r.err = None
    \/ r.mode = "forced" /\ r.pc = "joined" /\ r.fromForced /\ r.err = None
    \/ r.mode = "forced" /\ r.pc \in {"result", "send", "stream"}

Sound(r, rec, k) == Equipped(r) /\ Watched(r, rec) /\ (Supplied(r, k) => r.nodes \in Nat)

-----------------------------------------------------------------------------
(* Steps that touch nothing but their request.                               *)

InRefresh(r) == r.mode = "refresh" /\ r.slot /\ r.pc \notin {"refresh", "refreshing"}

\* No flight, lease or refresh can tell s from r.
Quiet(r, s) ==
    /\ s.lease = r.lease
    /\ r.pc \in Working \/ s.pc \in Working =>
          /\ r.pc \in Working /\ s.pc \in Working /\ s.rev = r.rev /\ s.target = r.target /\ s.mode = r.mode
          /\ s.pc = "reading" <=> r.pc = "reading"
    /\ InRefresh(s) <=> InRefresh(r)
    /\ InRefresh(r) => s.rev = r.rev
    /\ s.pc = "refreshing" => r.pc = "refreshing" /\ s.rev = r.rev
    /\ s.pc = "wait" => \/ r.pc = "wait" /\ s.rev = r.rev /\ s.target = r.target
                        \/ flights[<<s.rev, s.target>>] # None

Calm(q) == \E s \in Progress : Set(q, s) /\ Sound(s, record, kind) /\ Quiet(req[q], s)

LEMMA DoneFacts ==
  /\ Done \in Progress /\ Done.pc = "done" /\ ~Done.lease /\ ~Done.slot /\ Done.mode = "ordinary"
  /\ TypeOK => Sound(Done, record, kind)
<1>1. Idle \in Progress
    BY SlotsAssumption DEF Idle, Progress, Places, Revs, Contexts
<1>2. /\ Done \in Progress /\ Done.pc = "done" /\ ~Done.lease /\ ~Done.slot /\ ~Done.permit /\ Done.mode = "ordinary"
      /\ Done.rev = 0 /\ ~Done.overtaken
    BY <1>1 DEF Done, Idle, Progress, Places
<1>3. ASSUME TypeOK PROVE Sound(Done, record, kind)
    <2>1. 0 <= record.rev
        BY <1>3, SlotsAssumption DEF TypeOK, Revs
    <2> QED
        BY <1>2, <2>1 DEF Progress, Places, Sound, Equipped, Watched, Supplied, Slotted, Refreshing, Permitted, Decided, Working, Quiet, InRefresh
<1> QED
    BY <1>2, <1>3

\* A request that is over.
LEMMA EndCalm ==
  ASSUME TypeOK, NEW q \in Requests, End(q), req[q].pc \notin Working, ~req[q].lease, ~InRefresh(req[q])
  PROVE  Calm(q)
<1>1. req[q].lease = Done.lease /\ ~InRefresh(Done)
    BY DoneFacts DEF TypeOK, Progress, InRefresh
<1> QED
    BY <1>1, DoneFacts DEF End, Calm, Quiet, Working

LEMMA ArriveCalm ==
  ASSUME TypeOK, NEW q \in Requests, Sound(req[q], record, kind), Arrive(q)
  PROVE  Calm(q)
<1> DEFINE r == req[q]
<1>1. PICK m \in Modes, t \in Targets :
        LET a == [r EXCEPT !.mode = m, !.target = IF m = "refresh" THEN None ELSE t,
                           !.todo = IF m = "refresh" THEN Targets ELSE {}] IN
        Set(q, IF ~record.present \/ (m = "share" /\ ~record.shared) THEN Done
               ELSE [a EXCEPT !.pc = IF m \in {"forced", "refresh"} THEN "queue" ELSE "permit"])
    BY DEF Arrive
<1> DEFINE a == [r EXCEPT !.mode = m, !.target = IF m = "refresh" THEN None ELSE t,
                          !.todo = IF m = "refresh" THEN Targets ELSE {}]
           s == [a EXCEPT !.pc = IF m \in {"forced", "refresh"} THEN "queue" ELSE "permit"]
<1>2. r \in Progress /\ r.pc = "idle" /\ m \in {"ordinary", "share", "forced", "refresh"}
    BY ModesAssumption DEF TypeOK, Arrive, At
<1>3. /\ a \in Progress /\ a.mode = m /\ a.rev = r.rev /\ a.lease = r.lease /\ a.slot = r.slot /\ a.permit = r.permit
      /\ a.overtaken = r.overtaken /\ (m # "refresh" => a.target \in Targets)
    <2> DEFINE g == IF m = "refresh" THEN None ELSE t
               h == IF m = "refresh" THEN Targets ELSE {}
    <2>1. g \in Targets \cup {None} /\ h \in SUBSET Targets /\ (m # "refresh" => g \in Targets)
        OBVIOUS
    <2>2. a = [r EXCEPT !.mode = m, !.target = g, !.todo = h]
        OBVIOUS
    <2> HIDE DEF a, g, h
    <2>3. a \in Progress
        BY <1>2, <2>1, <2>2 DEF Progress
    <2>4. a.mode = m /\ a.target = g /\ a.rev = r.rev /\ a.lease = r.lease
        BY <1>2, <2>2 DEF Progress
    <2>5. a.slot = r.slot /\ a.permit = r.permit /\ a.overtaken = r.overtaken
        BY <1>2, <2>2 DEF Progress
    <2> QED
        BY <2>1, <2>3, <2>4, <2>5
<1>4. /\ s \in Progress /\ s.mode = m /\ s.rev = r.rev /\ s.lease = r.lease /\ s.slot = r.slot /\ s.permit = r.permit
      /\ s.overtaken = r.overtaken /\ s.target = a.target
      /\ s.pc = IF m \in {"forced", "refresh"} THEN "queue" ELSE "permit"
    <2>1. (IF m \in {"forced", "refresh"} THEN "queue" ELSE "permit") \in Places
        BY DEF Places
    <2> HIDE DEF a
    <2> QED
        BY <1>3, <2>1 DEF Progress
<1>7. Sound(s, record, kind) /\ Quiet(r, s)
    BY <1>2, <1>3, <1>4 DEF Sound, Equipped, Watched, Supplied, Slotted, Refreshing, Permitted, Decided, Working, Quiet, InRefresh
<1>5. CASE Set(q, Done)
    BY <1>2, <1>5, EndCalm DEF End, Progress, Places, Sound, Equipped, Watched, Supplied, Slotted, Refreshing, Permitted, Decided, Working, Quiet, InRefresh
<1>6. CASE Set(q, s)
    BY <1>4, <1>6, <1>7 DEF Calm
<1> QED
    BY <1>1, <1>5, <1>6

LEMMA TakePermitCalm ==
  ASSUME TypeOK, NEW q \in Requests, Sound(req[q], record, kind), TakePermit(q)
  PROVE  Calm(q)
<1> DEFINE r == req[q]
           s == [r EXCEPT !.pc = "lookup", !.permit = TRUE, !.rev = record.rev]
<1>1. r \in Progress /\ r.pc = "permit" /\ record.rev \in Revs
    BY DEF TypeOK, TakePermit, At
<1>2. CASE Set(q, s) /\ Authorized(q)
    <2>1. ~r.overtaken
        BY <1>1, <1>2 DEF Sound, Watched, Authorized
    <2>2. /\ s \in Progress /\ s.pc = "lookup" /\ s.permit /\ s.rev = record.rev /\ s.mode = r.mode /\ s.target = r.target
          /\ s.lease = r.lease /\ s.slot = r.slot /\ s.overtaken = r.overtaken
        BY <1>1 DEF Progress, Places, Permitted
    <2>3. Sound(s, record, kind) /\ Quiet(r, s)
        BY <1>1, <2>1, <2>2 DEF Revs, Progress, Places, Sound, Equipped, Watched, Supplied, Slotted, Refreshing, Permitted, Decided, Working, Quiet, InRefresh
    <2> QED
        BY <1>2, <2>2, <2>3 DEF Calm
<1>3. CASE Set(q, Done)
    BY <1>1, <1>3, EndCalm DEF End, Progress, Places, Sound, Equipped, Watched, Supplied, Slotted, Refreshing, Permitted, Decided, Working, Quiet, InRefresh
<1> QED
    BY <1>2, <1>3 DEF TakePermit, End

LEMMA LookupCalm ==
  ASSUME TypeOK, NEW q \in Requests, Sound(req[q], record, kind), Lookup(q)
  PROVE  Calm(q)
<1> DEFINE r == req[q]
           s == [r EXCEPT !.pc = "stream", !.out = outputs[Key(q)]]
           t == [r EXCEPT !.pc = "queue", !.permit = FALSE]
<1>1. r \in Progress /\ r.pc = "lookup" /\ r.target \in Targets
    BY DEF TypeOK, Lookup, At, Sound, Equipped, Refreshing
<1>2. outputs[Key(q)] \in Outputs \cup {None}
    BY <1>1 DEF TypeOK, Keys, Key, Progress
<1>3. s \in Progress /\ Sound(s, record, kind) /\ Quiet(r, s)
    <2>1. "stream" \in Places
        BY DEF Places, Slotted, Refreshing, Permitted
    <2>2. /\ s \in Progress /\ s.pc = "stream" /\ s.slot = r.slot /\ s.permit = r.permit
          /\ s.mode = r.mode /\ s.rev = r.rev /\ s.target = r.target /\ s.lease = r.lease
          /\ s.overtaken = r.overtaken /\ s.nodes = r.nodes
        BY <1>1, <1>2, <2>1 DEF Progress
    <2> QED
        BY <1>1, <1>2, <2>2 DEF Sound, Equipped, Watched, Supplied, Slotted, Refreshing, Permitted, Decided, Working, Quiet, InRefresh
<1>4. t \in Progress /\ Sound(t, record, kind) /\ Quiet(r, t)
    <2>1. "queue" \in Places
        BY DEF Places, Slotted, Refreshing, Permitted
    <2>2. /\ t \in Progress /\ t.pc = "queue" /\ t.slot = r.slot /\ ~t.permit
          /\ t.mode = r.mode /\ t.rev = r.rev /\ t.target = r.target /\ t.lease = r.lease
          /\ t.overtaken = r.overtaken /\ t.nodes = r.nodes
        BY <1>1, <2>1 DEF Progress
    <2> QED
        BY <1>1, <2>2 DEF Sound, Equipped, Watched, Supplied, Slotted, Refreshing, Permitted, Decided, Working, Quiet, InRefresh
<1> QED
    BY <1>3, <1>4 DEF Lookup, Calm, Set

LEMMA TakeSlotCalm ==
  ASSUME TypeOK, NEW q \in Requests, Sound(req[q], record, kind), TakeSlot(q)
  PROVE  Calm(q)
<1> DEFINE r == req[q]
           p == CASE r.mode = "refresh" -> "refresh" [] r.mode = "forced" -> "flight" [] OTHER -> "enter"
           s == [r EXCEPT !.slot = TRUE, !.rev = record.rev, !.pc = p]
<1>1. r \in Progress /\ r.pc = "queue" /\ record.rev \in Revs
    BY DEF TypeOK, TakeSlot, At
<1>2. CASE Set(q, s) /\ Authorized(q)
    <2>1. ~r.overtaken
        BY <1>1, <1>2 DEF Sound, Watched, Authorized
    <2>2. \/ r.mode = "refresh" /\ p = "refresh"
          \/ r.mode = "forced" /\ p = "flight"
          \/ r.mode \in {"ordinary", "share"} /\ p = "enter"
        BY <1>1 DEF Progress
    <2>3. s \in Progress /\ s.pc = p /\ s.slot /\ s.rev = record.rev /\ s.mode = r.mode /\ s.target = r.target /\ s.lease = r.lease
          /\ s.overtaken = r.overtaken /\ s.nodes = r.nodes /\ s.permit = r.permit
        <3>1. p \in Places
            BY <2>2 DEF Places, Slotted, Refreshing
        <3> QED
            BY <1>1, <3>1 DEF Progress
    <2>4. Sound(s, record, kind) /\ Quiet(r, s)
        BY <1>1, <2>1, <2>2, <2>3 DEF Revs, Progress, Places, Sound, Equipped, Watched, Supplied, Slotted, Refreshing, Permitted, Decided, Working, Quiet, InRefresh
    <2> QED
        BY <1>2, <2>3, <2>4 DEF Calm
<1>3. CASE Set(q, Done)
    BY <1>1, <1>3, EndCalm DEF End, Progress, Places, Sound, Equipped, Watched, Supplied, Slotted, Refreshing, Permitted, Decided, Working, Quiet, InRefresh
<1> QED
    BY <1>2, <1>3 DEF TakeSlot, End

LEMMA EnterCalm ==
  ASSUME TypeOK, NEW q \in Requests, Sound(req[q], record, kind), Enter(q)
  PROVE  Calm(q)
<1> DEFINE r == req[q]
           s == [r EXCEPT !.pc = "send", !.out = outputs[Key(q)]]
           t == [r EXCEPT !.pc = "flight"]
<1>1. r \in Progress /\ r.pc = "enter" /\ r.target \in Targets
    BY DEF TypeOK, Enter, At, Sound, Equipped, Refreshing
<1>2. outputs[Key(q)] \in Outputs \cup {None}
    BY <1>1 DEF TypeOK, Keys, Key, Progress
<1>3. s \in Progress /\ Sound(s, record, kind) /\ Quiet(r, s)
    <2>1. "send" \in Places
        BY DEF Places, Slotted, Refreshing, Permitted
    <2>2. /\ s \in Progress /\ s.pc = "send" /\ s.slot = r.slot /\ s.permit = r.permit
          /\ s.mode = r.mode /\ s.rev = r.rev /\ s.target = r.target /\ s.lease = r.lease
          /\ s.overtaken = r.overtaken /\ s.nodes = r.nodes
        BY <1>1, <1>2, <2>1 DEF Progress
    <2> QED
        BY <1>1, <1>2, <2>2 DEF Sound, Equipped, Watched, Supplied, Slotted, Refreshing, Permitted, Decided, Working, Quiet, InRefresh
<1>4. t \in Progress /\ Sound(t, record, kind) /\ Quiet(r, t)
    <2>1. "flight" \in Places
        BY DEF Places, Slotted, Refreshing, Permitted
    <2>2. /\ t \in Progress /\ t.pc = "flight" /\ t.slot = r.slot /\ t.permit = r.permit
          /\ t.mode = r.mode /\ t.rev = r.rev /\ t.target = r.target /\ t.lease = r.lease
          /\ t.overtaken = r.overtaken /\ t.nodes = r.nodes
        BY <1>1, <2>1 DEF Progress
    <2> QED
        BY <1>1, <2>2 DEF Sound, Equipped, Watched, Supplied, Slotted, Refreshing, Permitted, Decided, Working, Quiet, InRefresh
<1> QED
    BY <1>3, <1>4 DEF Enter, Calm, Set

LEMMA JoinCalm ==
  ASSUME TypeOK, NEW q \in Requests, Sound(req[q], record, kind), Join(q)
  PROVE  Calm(q)
<1> DEFINE r == req[q]
           s == [r EXCEPT !.pc = "wait"]
<1>1. r \in Progress /\ r.pc = "flight" /\ flights[<<r.rev, r.target>>] # None
    BY DEF TypeOK, Join, At, Key
<1>2. s \in Progress /\ Sound(s, record, kind) /\ Quiet(r, s)
    <2>1. "wait" \in Places
        BY DEF Places, Slotted, Refreshing, Permitted
    <2>2. /\ s \in Progress /\ s.pc = "wait" /\ s.slot = r.slot /\ s.permit = r.permit
          /\ s.mode = r.mode /\ s.rev = r.rev /\ s.target = r.target /\ s.lease = r.lease
          /\ s.overtaken = r.overtaken /\ s.nodes = r.nodes
        BY <1>1, <2>1 DEF Progress
    <2> QED
        BY <1>1, <2>2 DEF Sound, Equipped, Watched, Supplied, Slotted, Refreshing, Permitted, Decided, Working, Quiet, InRefresh
<1> QED
    BY <1>2 DEF Join, Calm, Go

\* Back to the next target of a refresh.
LEMMA BackCalm ==
  ASSUME TypeOK, NEW q \in Requests, Sound(req[q], record, kind), NEW e, Set(q, Back(q, e)),
         req[q].mode = "refresh", req[q].pc \in {"wait", "joined", "result", "failure"}
  PROVE  Calm(q)
<1> DEFINE r == req[q]
           f == IF e = None THEN r.err ELSE "failed"
           s == [r EXCEPT !.pc = "next", !.out = None, !.err = f]
<1>1. r \in Progress /\ f \in Errors \cup {None}
    BY DEF TypeOK, Progress, Errors
<1>2. /\ s \in Progress /\ s.pc = "next" /\ s.mode = r.mode /\ s.rev = r.rev /\ s.lease = r.lease /\ s.slot = r.slot
      /\ s.permit = r.permit /\ s.overtaken = r.overtaken /\ s.nodes = r.nodes
    <2>1. "next" \in Places
        BY DEF Places, Slotted, Refreshing
    <2> HIDE DEF f
    <2> QED
        BY <1>1, <2>1 DEF Progress
<1>4. Sound(s, record, kind) /\ Quiet(r, s)
    BY <1>1, <1>2 DEF Progress, Places, Sound, Equipped, Watched, Supplied, Slotted, Refreshing, Permitted, Decided, Working, Quiet, InRefresh
<1>3. Back(q, e) = s
    BY DEF Back
<1> QED
    BY <1>2, <1>3, <1>4 DEF Calm

LEMMA CancelWaitCalm ==
  ASSUME TypeOK, NEW q \in Requests, Sound(req[q], record, kind), CancelWait(q)
  PROVE  Calm(q)
<1>1. req[q].pc \in {"wait", "joined"}
    BY DEF CancelWait, At
<1>2. CASE req[q].mode = "refresh"
    BY <1>1, <1>2, BackCalm DEF CancelWait
<1>3. CASE req[q].mode # "refresh"
    BY <1>1, <1>3, EndCalm DEF CancelWait, End, Sound, Equipped, Working, InRefresh
<1> QED
    BY <1>2, <1>3

LEMMA JoinedCalm ==
  ASSUME TypeOK, NEW q \in Requests, Sound(req[q], record, kind), Joined(q)
  PROVE  Calm(q)
<1> DEFINE r == req[q]
           s == [r EXCEPT !.pc = "flight", !.err = None]
           t == [r EXCEPT !.pc = IF r.err # None THEN "failure" ELSE "result"]
<1>1. r \in Progress /\ r.pc = "joined"
    BY DEF TypeOK, Joined, At
<1>2. s \in Progress /\ Sound(s, record, kind) /\ Quiet(r, s)
    <2>1. /\ s \in Progress /\ s.pc = "flight" /\ s.mode = r.mode /\ s.rev = r.rev /\ s.target = r.target /\ s.lease = r.lease
          /\ s.slot = r.slot /\ s.permit = r.permit /\ s.overtaken = r.overtaken /\ s.nodes = r.nodes
        BY <1>1 DEF Progress, Places, Slotted, Refreshing
    <2> QED
        BY <1>1, <2>1 DEF Progress, Places, Sound, Equipped, Watched, Supplied, Slotted, Refreshing, Permitted, Decided, Working, Quiet, InRefresh
<1>3. ASSUME ~(Forced(q) /\ ~r.fromForced) PROVE t \in Progress /\ Sound(t, record, kind) /\ Quiet(r, t)
    BY <1>1, <1>3 DEF Forced, Progress, Places, Sound, Equipped, Watched, Supplied, Slotted, Refreshing, Permitted, Decided, Working, Quiet, InRefresh
<1> QED
    BY <1>2, <1>3 DEF Joined, Calm, Set

LEMMA ResultCalm ==
  ASSUME TypeOK, NEW q \in Requests, Sound(req[q], record, kind), Result(q)
  PROVE  Calm(q)
<1> DEFINE r == req[q]
           s == [r EXCEPT !.pc = "send", !.out = outputs[Key(q)]]
<1>1. r \in Progress /\ r.pc = "result" /\ r.target \in Targets
    BY DEF TypeOK, Result, At, Sound, Equipped
<1>2. outputs[Key(q)] \in Outputs \cup {None}
    BY <1>1 DEF TypeOK, Keys, Key, Progress
<1>3. CASE r.mode = "refresh"
    BY <1>1, <1>3, BackCalm DEF Result
<1>4. CASE r.mode # "refresh" /\ Set(q, s)
    <2>1. s \in Progress /\ Sound(s, record, kind) /\ Quiet(r, s)
        <3>1. "send" \in Places
            BY DEF Places, Slotted, Refreshing, Permitted
        <3>2. /\ s \in Progress /\ s.pc = "send" /\ s.slot = r.slot /\ s.permit = r.permit
              /\ s.mode = r.mode /\ s.rev = r.rev /\ s.target = r.target /\ s.lease = r.lease
              /\ s.overtaken = r.overtaken /\ s.nodes = r.nodes
            BY <1>1, <1>2, <3>1 DEF Progress
        <3> QED
            BY <1>1, <1>2, <1>4, <3>2 DEF Sound, Equipped, Watched, Supplied, Slotted, Refreshing, Permitted, Decided, Working, Quiet, InRefresh
    <2> QED
        BY <1>4, <2>1 DEF Calm
<1>5. CASE r.mode # "refresh" /\ End(q)
    BY <1>1, <1>5, EndCalm DEF Sound, Equipped, Working, InRefresh
<1> QED
    BY <1>3, <1>4, <1>5 DEF Result

LEMMA FailureCalm ==
  ASSUME TypeOK, NEW q \in Requests, Sound(req[q], record, kind), Failure(q)
  PROVE  Calm(q)
<1> DEFINE r == req[q]
           s == [r EXCEPT !.pc = "send", !.out = outputs[Key(q)]]
<1>1. r \in Progress /\ r.pc = "failure" /\ r.target \in Targets
    BY DEF TypeOK, Failure, At, Sound, Equipped
<1>2. outputs[Key(q)] \in Outputs \cup {None}
    BY <1>1 DEF TypeOK, Keys, Key, Progress
<1>3. CASE r.mode = "refresh"
    BY <1>1, <1>3, BackCalm DEF Failure
<1>4. CASE ~Forced(q) /\ Set(q, s)
    <2>1. s \in Progress /\ Sound(s, record, kind) /\ Quiet(r, s)
        <3>1. "send" \in Places
            BY DEF Places, Slotted, Refreshing, Permitted
        <3>2. /\ s \in Progress /\ s.pc = "send" /\ s.slot = r.slot /\ s.permit = r.permit
              /\ s.mode = r.mode /\ s.rev = r.rev /\ s.target = r.target /\ s.lease = r.lease
              /\ s.overtaken = r.overtaken /\ s.nodes = r.nodes
            BY <1>1, <1>2, <3>1 DEF Progress
        <3> QED
            BY <1>1, <1>2, <1>4, <3>2 DEF Forced, Sound, Equipped, Watched, Supplied, Slotted, Refreshing, Permitted, Decided, Working, Quiet, InRefresh
    <2> QED
        BY <1>4, <2>1 DEF Calm
<1>5. CASE r.mode # "refresh" /\ End(q)
    BY <1>1, <1>5, EndCalm DEF Sound, Equipped, Working, InRefresh
<1> QED
    BY <1>3, <1>4, <1>5 DEF Failure

\* Whoever gets the permit to send has not been overtaken.
LEMMA TakeSendPermitCalm ==
  ASSUME TypeOK, NEW q \in Requests, Sound(req[q], record, kind), TakeSendPermit(q)
  PROVE  Calm(q)
<1> DEFINE r == req[q]
           s == [r EXCEPT !.pc = "stream", !.permit = TRUE, !.slot = FALSE]
<1>1. r \in Progress /\ r.pc = "send" /\ r.mode # "refresh"
    BY DEF TypeOK, TakeSendPermit, At, Sound, Equipped, Refreshing
<1>2. CASE Set(q, s) /\ StillAllowed(q)
    <2>1. ~r.overtaken
        BY <1>1, <1>2 DEF TypeOK, Revs, Sound, Watched, StillAllowed, Authorized, Current
    <2>2. s \in Progress /\ Sound(s, record, kind) /\ Quiet(r, s)
        <3>1. "stream" \in Places
            BY DEF Places, Slotted, Refreshing, Permitted
        <3>2. /\ s \in Progress /\ s.pc = "stream" /\ ~s.slot /\ s.permit
              /\ s.mode = r.mode /\ s.rev = r.rev /\ s.target = r.target /\ s.lease = r.lease
              /\ s.overtaken = r.overtaken /\ s.nodes = r.nodes
            BY <1>1, <3>1 DEF Progress
        <3> QED
            BY <1>1, <2>1, <3>2 DEF Sound, Equipped, Watched, Supplied, Slotted, Refreshing, Permitted, Decided, Working, Quiet, InRefresh
    <2> QED
        BY <1>2, <2>2 DEF Calm
<1>3. CASE Set(q, Done)
    BY <1>1, <1>3, EndCalm DEF End, Sound, Equipped, Working, InRefresh
<1> QED
    BY <1>2, <1>3 DEF TakeSendPermit, End

LEMMA StreamCalm ==
  ASSUME TypeOK, NEW q \in Requests, Sound(req[q], record, kind), Stream(q)
  PROVE  Calm(q)
<1>1. req[q].pc = "stream"
    BY DEF Stream, At
<1> QED
    BY <1>1, EndCalm DEF Stream, Sound, Equipped, Slotted, Refreshing, Working, InRefresh

LEMMA CancelRefreshCalm ==
  ASSUME TypeOK, NEW q \in Requests, Sound(req[q], record, kind), CancelRefresh(q)
  PROVE  Calm(q)
<1>1. req[q].pc = "refreshing"
    BY DEF CancelRefresh, At
<1> QED
    BY <1>1, EndCalm DEF CancelRefresh, Sound, Equipped, Working, InRefresh

LEMMA ReadableNat ==
  ASSUME TypeOK, NEW q \in Requests, NEW v \in Readable(q)
  PROVE  v \in Nat
BY DEF TypeOK, Readable

\* An error ends what a request does.
LEMMA RefreshReadCalm ==
  ASSUME TypeOK, NEW q \in Requests, Sound(req[q], record, kind), RefreshRead(q)
  PROVE  Calm(q)
<1> DEFINE r == req[q]
<1>1. r \in Progress /\ r.pc = "readall" /\ r.mode = "refresh"
    BY DEF TypeOK, RefreshRead, At, Sound, Equipped
<1>2. ASSUME NEW v \in Readable(q), Set(q, [r EXCEPT !.pc = "next", !.nodes = v]) PROVE Calm(q)
    <2> DEFINE s == [r EXCEPT !.pc = "next", !.nodes = v]
    <2>1. v \in Nat
        BY <1>2, ReadableNat
    <2>2. /\ s \in Progress /\ s.pc = "next" /\ s.nodes = v /\ s.mode = r.mode /\ s.rev = r.rev /\ s.lease = r.lease
          /\ s.slot = r.slot /\ s.permit = r.permit /\ s.overtaken = r.overtaken
        BY <1>1, <2>1 DEF Progress, Places, Slotted, Refreshing
    <2>3. Sound(s, record, kind) /\ Quiet(r, s)
        BY <1>1, <2>1, <2>2 DEF Progress, Places, Sound, Equipped, Watched, Supplied, Slotted, Refreshing, Permitted, Decided, Working, Quiet, InRefresh
    <2> QED
        BY <1>2, <2>2, <2>3 DEF Calm
<1>3. ASSUME NEW e \in Errors, Fail(q, "refreshed", e) PROVE Calm(q)
    <2> DEFINE s == [r EXCEPT !.pc = "refreshed", !.err = e]
    <2>1. /\ s \in Progress /\ s.pc = "refreshed" /\ s.mode = r.mode /\ s.rev = r.rev /\ s.lease = r.lease
          /\ s.slot = r.slot /\ s.permit = r.permit /\ s.overtaken = r.overtaken
        BY <1>1, <1>3 DEF Progress, Places, Slotted, Refreshing
    <2>2. Sound(s, record, kind) /\ Quiet(r, s)
        BY <1>1, <2>1 DEF Progress, Places, Sound, Equipped, Watched, Supplied, Slotted, Refreshing, Permitted, Decided, Working, Quiet, InRefresh
    <2> QED
        BY <1>3, <2>1, <2>2 DEF Calm, Fail
<1>4. Dead(q) => r.ctx \in Errors
    BY <1>1 DEF Dead, Progress, Contexts, Errors
<1> QED
    BY <1>2, <1>3, <1>4 DEF RefreshRead, Errors

LEMMA RefreshNextCalm ==
  ASSUME TypeOK, NEW q \in Requests, Sound(req[q], record, kind), RefreshNext(q)
  PROVE  Calm(q)
<1> DEFINE r == req[q]
           s == [r EXCEPT !.pc = "refreshed"]
<1>1. r \in Progress /\ r.pc = "next" /\ r.mode = "refresh"
    BY DEF TypeOK, RefreshNext, At, Sound, Equipped
<1>2. s \in Progress /\ Sound(s, record, kind) /\ Quiet(r, s)
    BY <1>1 DEF Progress, Places, Sound, Equipped, Watched, Supplied, Slotted, Refreshing, Permitted, Decided, Working, Quiet, InRefresh
<1>3. ASSUME NEW t \in r.todo,
             Set(q, [r EXCEPT !.pc = "flight", !.target = t, !.todo = @ \ {t}, !.err = None])
      PROVE  Calm(q)
    <2> DEFINE u == [r EXCEPT !.pc = "flight", !.target = t, !.todo = @ \ {t}, !.err = None]
    <2>1. t \in Targets
        BY <1>1 DEF Progress
    <2>2. /\ u \in Progress /\ u.pc = "flight" /\ u.target = t /\ u.mode = r.mode /\ u.rev = r.rev /\ u.lease = r.lease
          /\ u.slot = r.slot /\ u.permit = r.permit /\ u.overtaken = r.overtaken /\ u.nodes = r.nodes
        BY <1>1, <2>1 DEF Progress, Places, Slotted, Refreshing
    <2>3. Sound(u, record, kind) /\ Quiet(r, u)
        BY <1>1, <2>1, <2>2 DEF Progress, Places, Sound, Equipped, Watched, Supplied, Slotted, Refreshing, Permitted, Decided, Working, Quiet, InRefresh
    <2> QED
        BY <1>3, <2>2, <2>3 DEF Calm
<1> QED
    BY <1>2, <1>3 DEF RefreshNext, Go, Calm

LEMMA ProduceCalm ==
  ASSUME TypeOK, NEW q \in Requests, Sound(req[q], record, kind), Produce(q)
  PROVE  Calm(q)
<1> DEFINE r == req[q]
<1>1. r \in Progress /\ r.pc = "produce" /\ r.target \in Targets
    BY DEF TypeOK, Produce, At, Sound, Equipped, Working
<1>2. ASSUME NEW e \in Errors, Set(q, [r EXCEPT !.pc = "finish", !.err = e]) PROVE Calm(q)
    <2> DEFINE s == [r EXCEPT !.pc = "finish", !.err = e]
    <2>1. /\ s \in Progress /\ s.pc = "finish" /\ s.mode = r.mode /\ s.rev = r.rev /\ s.target = r.target /\ s.lease = r.lease
          /\ s.slot = r.slot /\ s.permit = r.permit /\ s.overtaken = r.overtaken /\ s.nodes = r.nodes
          /\ s.err = e /\ e # None
        BY <1>1, <1>2, NoneAssumption DEF Progress, Places, Slotted, Refreshing
    <2>2. Sound(s, record, kind) /\ Quiet(r, s)
        BY <1>1, <2>1 DEF Progress, Places, Sound, Equipped, Watched, Supplied, Slotted, Refreshing, Permitted, Decided, Working, Quiet, InRefresh
    <2> QED
        BY <1>2, <2>1, <2>2 DEF Calm
<1>3. ASSUME NEW v \in IF kind = "files" THEN Readable(q) ELSE {r.nodes},
             Set(q, [r EXCEPT !.pc = "store", !.nodes = v])
      PROVE  Calm(q)
    <2> DEFINE s == [r EXCEPT !.pc = "store", !.nodes = v]
    <2>1. v \in Nat
        BY <1>1, ReadableNat DEF TypeOK, Sound, Supplied
    <2>2. /\ s \in Progress /\ s.pc = "store" /\ s.mode = r.mode /\ s.rev = r.rev /\ s.target = r.target /\ s.lease = r.lease
          /\ s.slot = r.slot /\ s.permit = r.permit /\ s.overtaken = r.overtaken /\ s.nodes = v
        BY <1>1, <2>1 DEF Progress, Places, Slotted, Refreshing
    <2>3. Sound(s, record, kind) /\ Quiet(r, s)
        BY <1>1, <2>1, <2>2 DEF Progress, Places, Sound, Equipped, Watched, Supplied, Slotted, Refreshing, Permitted, Decided, Working, Quiet, InRefresh
    <2> QED
        BY <1>3, <2>2, <2>3 DEF Calm
<1>4. Dead(q) => r.ctx \in Errors
    BY <1>1 DEF Dead, Progress, Contexts, Errors
<1> QED
    BY <1>2, <1>3, <1>4 DEF Produce, Fail, Errors

LEMMA StoreOutputCalm ==
  ASSUME TypeOK, NEW q \in Requests, Sound(req[q], record, kind), StoreOutput(q)
  PROVE  Calm(q)
<1> DEFINE r == req[q]
           s == [r EXCEPT !.pc = "finish"]
           t == [r EXCEPT !.pc = "finish", !.err = "failed"]
<1>1. r \in Progress /\ r.pc = "store" /\ r.target \in Targets
    BY DEF TypeOK, StoreOutput, At, Sound, Equipped, Working
<1>2. s \in Progress /\ Sound(s, record, kind) /\ Quiet(r, s)
    BY <1>1 DEF Progress, Places, Sound, Equipped, Watched, Supplied, Slotted, Refreshing, Permitted, Decided, Working, Quiet, InRefresh
<1>3. t \in Progress /\ Sound(t, record, kind) /\ Quiet(r, t)
    <2>1. /\ t \in Progress /\ t.pc = "finish" /\ t.mode = r.mode /\ t.rev = r.rev /\ t.target = r.target /\ t.lease = r.lease
          /\ t.slot = r.slot /\ t.permit = r.permit /\ t.overtaken = r.overtaken /\ t.nodes = r.nodes
        BY <1>1 DEF Progress, Places, Slotted, Refreshing, Errors
    <2> QED
        BY <1>1, <2>1 DEF Progress, Places, Sound, Equipped, Watched, Supplied, Slotted, Refreshing, Permitted, Decided, Working, Quiet, InRefresh
<1> QED
    BY <1>2, <1>3 DEF StoreOutput, Go, Fail, Calm

LEMMA CancelCalm ==
  ASSUME TypeOK, NEW q \in Requests, Sound(req[q], record, kind), Cancel(q)
  PROVE  Calm(q)
<1> DEFINE r == req[q]
<1>1. PICK e \in {"cancelled", "expired"} : Set(q, [r EXCEPT !.ctx = e])
    BY DEF Cancel
<1> DEFINE s == [r EXCEPT !.ctx = e]
<1>2. r \in Progress
    BY DEF TypeOK
<1>3. /\ s \in Progress /\ s.pc = r.pc /\ s.mode = r.mode /\ s.rev = r.rev /\ s.target = r.target /\ s.lease = r.lease
      /\ s.slot = r.slot /\ s.permit = r.permit /\ s.overtaken = r.overtaken /\ s.nodes = r.nodes /\ s.err = r.err
      /\ s.fromForced = r.fromForced
    BY <1>2 DEF Progress, Contexts
<1>4. Sound(s, record, kind) /\ Quiet(r, s)
    BY <1>3 DEF Sound, Equipped, Watched, Supplied, Quiet, InRefresh
<1> QED
    BY <1>1, <1>3, <1>4 DEF Calm

-----------------------------------------------------------------------------
(* The invariant.                                                            *)

Holders(k) == {q \in Requests : req[q].lease /\ Prep(q) = k}

\* A lease is counted, and nodes are awaited only while somebody reads them.
Leased ==
    \A k \in PrepKeys :
        /\ preps[k].refs = Cardinality(Holders(k))
        /\ Holders(k) # {} /\ preps[k].state = "reading" => \E o \in Holders(k) : At(o, "reading")

Works(q, k) == req[q].pc \in Working /\ Key(q) = k

\* A flight has one leader, and nobody waits without a flight.
Led ==
    /\ \A k \in Keys : flights[k] # None <=> \E q \in Requests : Works(q, k)
    /\ \A k \in Keys, q, w \in Requests : Works(q, k) /\ Works(w, k) => q = w
    /\ \A q \in Requests : At(q, "wait") => flights[Key(q)] # None

Refreshes(q, v) == InRefresh(req[q]) /\ req[q].rev = v

\* So has a refresh.
Refreshed ==
    /\ \A v \in Revs : v \in refreshes <=> \E q \in Requests : Refreshes(q, v)
    /\ \A v \in Revs, q, w \in Requests : Refreshes(q, v) /\ Refreshes(w, v) => q = w
    /\ \A q \in Requests : At(q, "refreshing") => req[q].rev \in refreshes

Inv ==
    /\ TypeOK
    /\ \A q \in Requests : Sound(req[q], record, kind)
    /\ Leased /\ Led /\ Refreshed

\* A step of q that sets req[q] to s.
LEMMA SetFacts ==
  ASSUME TypeOK, NEW q \in Requests, NEW s \in Progress, Set(q, s)
  PROVE  /\ req' \in [Requests -> Progress] /\ req'[q] = s
         /\ \A w \in Requests \ {q} : req'[w] = req[w]
BY DEF TypeOK, Set

LEMMA KeysTyped ==
  ASSUME TypeOK, NEW q \in Requests, req[q].target \in Targets
  PROVE  Key(q) \in Keys
BY DEF TypeOK, Progress, Key, Keys

LEMMA PrepsTyped ==
  ASSUME TypeOK, NEW q \in Requests
  PROVE  Prep(q) \in PrepKeys /\ preps[Prep(q)] \in Preps
<1>1. req[q].rev \in Revs /\ Forced(q) \in BOOLEAN
    BY DEF TypeOK, Progress, Forced
<1>2. Prep(q) \in PrepKeys
    BY <1>1 DEF Prep, PrepKeys
<1> QED
    BY <1>2 DEF TypeOK

\* Whoever works has a key.
LEMMA WorkingTyped ==
  ASSUME Inv, NEW q \in Requests, req[q].pc \in Working \cup {"flight", "wait", "joined", "result", "failure"}
  PROVE  req[q].target \in Targets /\ Key(q) \in Keys
BY KeysTyped DEF Inv, Sound, Equipped

LEMMA CalmKeepsLeased ==
  ASSUME Inv, NEW q \in Requests, NEW s \in Progress, Set(q, s), Quiet(req[q], s), UNCHANGED preps
  PROVE  Leased'
<1>1. /\ req'[q] = s /\ \A w \in Requests \ {q} : req'[w] = req[w]
    BY SetFacts DEF Inv
<1>2. /\ s.lease = req[q].lease
      /\ req[q].lease => s.rev = req[q].rev /\ s.mode = req[q].mode /\ (s.pc = "reading" <=> req[q].pc = "reading")
    BY DEF Inv, Sound, Equipped, Quiet
<1>3. \A w \in Requests : /\ req'[w].lease = req[w].lease
                          /\ req[w].lease => Prep(w)' = Prep(w) /\ (At(w, "reading")' <=> At(w, "reading"))
    BY <1>1, <1>2 DEF Prep, Forced, At
<1>4. \A k \in PrepKeys : Holders(k)' = Holders(k)
    BY <1>3 DEF Holders
<1>5. \A k \in PrepKeys : \A o \in Holders(k) : At(o, "reading")' <=> At(o, "reading")
    BY <1>3 DEF Holders
<1> QED
    BY <1>4, <1>5 DEF Inv, Leased

LEMMA CalmKeepsLed ==
  ASSUME Inv, NEW q \in Requests, NEW s \in Progress, Set(q, s), Quiet(req[q], s), UNCHANGED flights
  PROVE  Led'
<1>1. /\ req'[q] = s /\ \A w \in Requests \ {q} : req'[w] = req[w]
    BY SetFacts DEF Inv
<1>2. \A w \in Requests, k \in Keys : Works(w, k)' <=> Works(w, k)
    BY <1>1 DEF Works, Key, Quiet
<1>3. \A w \in Requests : At(w, "wait")' => flights[Key(w)'] # None
    BY <1>1 DEF Inv, Led, At, Key, Quiet
<1> QED
    BY <1>2, <1>3 DEF Inv, Led

LEMMA CalmKeepsRefreshed ==
  ASSUME Inv, NEW q \in Requests, NEW s \in Progress, Set(q, s), Quiet(req[q], s), UNCHANGED refreshes
  PROVE  Refreshed'
<1>1. /\ req'[q] = s /\ \A w \in Requests \ {q} : req'[w] = req[w]
    BY SetFacts DEF Inv
<1>2. \A w \in Requests, v \in Revs : Refreshes(w, v)' <=> Refreshes(w, v)
    BY <1>1 DEF Refreshes, Quiet
<1>3. \A w \in Requests : At(w, "refreshing")' => At(w, "refreshing") /\ req'[w].rev = req[w].rev
    BY <1>1 DEF At, Quiet
<1> QED
    BY <1>2, <1>3 DEF Inv, Refreshed

\* Nothing but the request changes, and the caches.
LEMMA CalmStep ==
  ASSUME Inv, NEW q \in Requests, Calm(q), UNCHANGED <<kind, record, flights, refreshes, preps>>,
         source' \in Nat, fetched' \in Nat, outputs' \in [Keys -> Outputs \cup {None}]
  PROVE  Inv'
<1>1. PICK s \in Progress : Set(q, s) /\ Sound(s, record, kind) /\ Quiet(req[q], s)
    BY DEF Calm
<1>2. /\ req' \in [Requests -> Progress] /\ req'[q] = s /\ \A w \in Requests \ {q} : req'[w] = req[w]
    BY <1>1, SetFacts DEF Inv
<1>3. TypeOK'
    BY <1>2 DEF Inv, TypeOK
<1>4. \A w \in Requests : Sound(req[w], record, kind)'
    BY <1>1, <1>2 DEF Inv
<1> QED
    BY <1>1, <1>3, <1>4, CalmKeepsLeased, CalmKeepsLed, CalmKeepsRefreshed DEF Inv

-----------------------------------------------------------------------------
(* Flights and leases.                                                       *)

\* Somebody becomes the leader of a key without a flight.
LEMMA LeadKeepsLed ==
  ASSUME Inv, NEW q \in Requests, NEW s \in Progress, Set(q, s), req[q].pc = "flight", s.pc \in Working,
         s.rev = req[q].rev, s.target = req[q].target, flights[Key(q)] = None,
         flights' = [flights EXCEPT ![Key(q)] = [forced |-> Forced(q)]]
  PROVE  Led'
<1>1. /\ req'[q] = s /\ \A w \in Requests \ {q} : req'[w] = req[w]
    BY SetFacts DEF Inv
<1>2. Key(q) \in Keys /\ Key(q)' = Key(q) /\ \A w \in Requests \ {q} : Key(w)' = Key(w)
    BY <1>1, WorkingTyped DEF Key
<1>3. flights'[Key(q)] # None /\ \A k \in Keys \ {Key(q)} : flights'[k] = flights[k]
    <2>1. [forced |-> Forced(q)] \in [forced : BOOLEAN]
        BY DEF Forced
    <2> QED
        BY <1>2, <2>1, NoneAssumption DEF Inv, TypeOK
<1>4. \A w \in Requests \ {q}, k \in Keys : Works(w, k)' <=> Works(w, k)
    BY <1>1, <1>2 DEF Works
<1>5. \A k \in Keys : ~Works(q, k) /\ (Works(q, k)' <=> k = Key(q))
    BY <1>1, <1>2 DEF Works, Working
<1>6. \A w \in Requests : ~Works(w, Key(q))
    BY <1>2 DEF Inv, Led
<1>7. \A k \in Keys : flights'[k] # None <=> \E w \in Requests : Works(w, k)'
    BY <1>2, <1>3, <1>4, <1>5 DEF Inv, Led
<1>8. \A k \in Keys, v, w \in Requests : Works(v, k)' /\ Works(w, k)' => v = w
    BY <1>4, <1>5, <1>6 DEF Inv, Led
<1>9. \A w \in Requests : At(w, "wait")' => flights'[Key(w)'] # None
    <2>1. ASSUME NEW w \in Requests, At(w, "wait")' PROVE flights'[Key(w)'] # None
        <3>1. w # q /\ At(w, "wait") /\ Key(w)' = Key(w)
            BY <1>1, <1>2, <2>1 DEF At, Working
        <3>2. Key(w) \in Keys /\ flights[Key(w)] # None
            BY <3>1, WorkingTyped DEF At, Inv, Led
        <3> QED
            BY <1>3, <3>1, <3>2
    <2> QED
        BY <2>1
<1> QED
    BY <1>7, <1>8, <1>9 DEF Led

\* Steps of q that neither start nor end a refresh.
LEMMA RefreshedKept ==
  ASSUME Inv, NEW q \in Requests, UNCHANGED refreshes, \A w \in Requests \ {q} : req'[w] = req[w],
         InRefresh(req[q]) <=> InRefresh(req'[q]), req'[q].rev = req[q].rev, ~At(q, "refreshing")'
  PROVE  Refreshed'
<1>1. \A w \in Requests, v \in Revs : Refreshes(w, v)' <=> Refreshes(w, v)
    BY DEF Refreshes
<1>2. \A w \in Requests : At(w, "refreshing")' => At(w, "refreshing") /\ req'[w].rev = req[w].rev
    BY DEF At
<1> QED
    BY <1>1, <1>2 DEF Inv, Refreshed

\* What happens to the leases of a key when q takes one, or gives its own up; p is its entry then.
LEMMA LeaseTaken ==
  ASSUME Inv, NEW q \in Requests, NEW k \in PrepKeys, NEW p \in Preps, ~req[q].lease,
         \A w \in Requests \ {q} : req'[w] = req[w], req'[q].lease, Prep(q)' = k,
         preps' = [preps EXCEPT ![k] = p], p.refs = preps[k].refs + 1,
         IF preps[k].refs = 0 THEN At(q, "reading")' ELSE p.state = preps[k].state
  PROVE  Leased'
<1>1. \A w \in Requests \ {q} : Prep(w)' = Prep(w) /\ (At(w, "reading")' <=> At(w, "reading"))
    BY DEF Prep, Forced, At
<1>2. Holders(k)' = Holders(k) \cup {q} /\ q \notin Holders(k) /\ \A l \in PrepKeys \ {k} : Holders(l)' = Holders(l)
    BY <1>1 DEF Holders
<1>3. preps'[k] = p /\ \A l \in PrepKeys \ {k} : preps'[l] = preps[l]
    BY DEF Inv, TypeOK
<1>4. IsFiniteSet(Holders(k)) /\ preps[k].refs = Cardinality(Holders(k))
    BY RequestsAssumption, FS_Subset DEF Holders, Inv, Leased
<1>5. Cardinality(Holders(k)') = preps'[k].refs
    <2>1. Cardinality(Holders(k) \cup {q}) = Cardinality(Holders(k)) + 1
        BY <1>2, <1>4, FS_AddElement
    <2> QED
        BY <1>2, <1>3, <1>4, <2>1
<1>6. preps'[k].state = "reading" => \E o \in Holders(k)' : At(o, "reading")'
    <2>1. CASE preps[k].refs = 0
        BY <1>2, <2>1
    <2>2. CASE preps[k].refs # 0
        <3>1. Holders(k) # {}
            BY <1>4, <2>2, FS_EmptySet
        <3> QED
            <4>1. ASSUME preps[k].state = "reading" PROVE \E o \in Holders(k)' : At(o, "reading")'
                <5>1. PICK o \in Holders(k) : At(o, "reading")
                    BY <3>1, <4>1 DEF Inv, Leased
                <5>2. o \in Requests \ {q}
                    BY <1>2, <5>1 DEF Holders
                <5> QED
                    BY <1>1, <1>2, <5>1, <5>2
            <4> QED
                BY <1>3, <2>2, <4>1
    <2> QED
        BY <2>1, <2>2
<1>7. ASSUME NEW l \in PrepKeys \ {k}
      PROVE  /\ preps'[l].refs = Cardinality(Holders(l)')
             /\ Holders(l)' # {} /\ preps'[l].state = "reading" => \E o \in Holders(l)' : At(o, "reading")'
    <2>1. \A o \in Holders(l) : o # q /\ (At(o, "reading")' <=> At(o, "reading"))
        BY <1>1 DEF Holders
    <2> QED
        BY <1>2, <1>3, <2>1 DEF Inv, Leased
<1> QED
    BY <1>3, <1>5, <1>6, <1>7 DEF Leased

LEMMA LeaseGivenUp ==
  ASSUME Inv, NEW q \in Requests, req[q].lease, ~req'[q].lease,
         \A w \in Requests \ {q} : req'[w] = req[w] \/ (~req[w].lease /\ ~req'[w].lease),
         NEW p \in Preps, p.refs = preps[Prep(q)].refs,
         At(q, "reading") => p.state # "reading", p.state = "reading" => preps[Prep(q)].state = "reading",
         preps' = [preps EXCEPT ![Prep(q)] = Released(q, p)]
  PROVE  Leased'
<1>1. Prep(q) \in PrepKeys /\ preps[Prep(q)] \in Preps
    BY PrepsTyped DEF Inv
<1>2. \A w \in Requests \ {q} : /\ req'[w].lease <=> req[w].lease
                                /\ req[w].lease => Prep(w)' = Prep(w) /\ (At(w, "reading")' <=> At(w, "reading"))
    BY DEF Prep, Forced, At
<1>3. SUFFICES ASSUME NEW k \in PrepKeys
               PROVE  /\ preps'[k].refs = Cardinality(Holders(k)')
                      /\ Holders(k)' # {} /\ preps'[k].state = "reading" => \E o \in Holders(k)' : At(o, "reading")'
    BY DEF Leased
<1>4. CASE k # Prep(q)
    <2>1. Holders(k)' = Holders(k) /\ preps'[k] = preps[k]
        BY <1>1, <1>2, <1>4 DEF Holders, Inv, TypeOK
    <2>2. \A o \in Holders(k) : At(o, "reading")' <=> At(o, "reading")
        BY <1>2, <1>4 DEF Holders
    <2> QED
        BY <2>1, <2>2 DEF Inv, Leased
<1>5. CASE k = Prep(q)
    <2>1. Holders(k)' = Holders(k) \ {q} /\ q \in Holders(k)
        BY <1>2, <1>5 DEF Holders
    <2>2. preps'[k] = Released(q, p)
        BY <1>1, <1>5 DEF Inv, TypeOK
    <2>3. IsFiniteSet(Holders(k)) /\ p.refs = Cardinality(Holders(k))
        BY <1>5, RequestsAssumption, FS_Subset DEF Holders, Inv, Leased
    <2>4. IsFiniteSet(Holders(k)') /\ Cardinality(Holders(k)') = p.refs - 1
        BY <2>1, <2>3, FS_RemoveElement
    <2>5. CASE p.refs = 1
        <3>1. Holders(k)' = {} /\ preps'[k].refs = 0
            BY <2>2, <2>4, <2>5, FS_EmptySet DEF Released, NoPrep
        <3> QED
            BY <2>4, <2>5, <3>1
    <2>6. CASE p.refs # 1
        <3>1. preps'[k].refs = p.refs - 1 /\ preps'[k].state = p.state
            BY <2>2, <2>6 DEF Released, Preps
        <3>2. ASSUME p.state = "reading" PROVE \E o \in Holders(k)' : At(o, "reading")'
            <4>1. PICK o \in Holders(k) : At(o, "reading")
                BY <1>5, <2>1, <3>2 DEF Inv, Leased
            <4>2. o \in Requests \ {q} /\ req[o].lease
                BY <3>2, <4>1 DEF Holders
            <4> QED
                BY <1>2, <2>1, <4>1, <4>2
        <3> QED
            BY <2>4, <3>1, <3>2
    <2> QED
        BY <2>5, <2>6
<1> QED
    BY <1>4, <1>5

LEMMA ReleasedTyped ==
  ASSUME NEW q, NEW p \in Preps, p.refs # 0
  PROVE  /\ Released(q, p) \in Preps
         /\ Released(q, p).state = "ok" => Released(q, p) = [p EXCEPT !.refs = @ - 1] /\ Released(q, p).nodes = p.nodes /\ p.state = "ok"
BY DEF Released, NoPrep, Preps

LEMMA LeadStep ==
  ASSUME Inv, NEW q \in Requests, Lead(q)
  PROVE  Inv'
<1> DEFINE r == req[q]
<1>1. /\ r \in Progress /\ r.pc = "flight" /\ r.target \in Targets /\ flights[Key(q)] = None /\ ~r.lease
      /\ flights' = [flights EXCEPT ![Key(q)] = [forced |-> Forced(q)]]
      /\ UNCHANGED <<env, outputs, refreshes>>
    BY WorkingTyped DEF Inv, TypeOK, Lead, At, Sound, Equipped, Working
<1>2. flights' \in [Keys -> [forced : BOOLEAN] \cup {None}]
    <2>1. [forced |-> Forced(q)] \in [forced : BOOLEAN]
        BY DEF Forced
    <2> QED
        BY <1>1, <2>1 DEF Inv, TypeOK
<1>3. CASE kind = "subscriptions" /\ r.mode # "refresh"
    <2> DEFINE p == IF preps[Prep(q)].refs = 0 THEN "reading" ELSE "prepwait"
               s == [r EXCEPT !.lease = TRUE, !.pc = p]
               e == [preps[Prep(q)] EXCEPT !.refs = @ + 1]
    <2>1. Set(q, s) /\ preps' = [preps EXCEPT ![Prep(q)] = e]
        BY <1>3 DEF Lead, Set, Inv, TypeOK
    <2>2. p \in {"reading", "prepwait"}
        OBVIOUS
    <2>3. /\ s \in Progress /\ s.pc = p /\ s.lease /\ s.mode = r.mode /\ s.rev = r.rev /\ s.target = r.target
          /\ s.slot = r.slot /\ s.permit = r.permit /\ s.overtaken = r.overtaken
        <3>1. p \in Places
            BY <2>2 DEF Places, Slotted
        <3> HIDE DEF p
        <3>2. s \in Progress
            BY <1>1, <3>1 DEF Progress
        <3>3. s.pc = p /\ s.lease /\ s.mode = r.mode /\ s.rev = r.rev /\ s.target = r.target
            BY <1>1 DEF Progress
        <3>4. s.slot = r.slot /\ s.permit = r.permit /\ s.overtaken = r.overtaken
            BY <1>1 DEF Progress
        <3> QED
            BY <3>2, <3>3, <3>4
    <2>4. Sound(s, record, kind)
        BY <1>1, <1>3, <2>2, <2>3 DEF Inv, Sound, Equipped, Watched, Supplied, Slotted, Refreshing, Permitted, Decided, Working
    <2>5. /\ req' \in [Requests -> Progress] /\ req'[q] = s /\ \A w \in Requests \ {q} : req'[w] = req[w]
        BY <2>1, <2>3, SetFacts DEF Inv
    <2>6. Prep(q) \in PrepKeys /\ preps[Prep(q)] \in Preps
        BY PrepsTyped DEF Inv
    <2>7. /\ e \in Preps /\ e.refs = preps[Prep(q)].refs + 1 /\ e.state = preps[Prep(q)].state
          /\ e.nodes = preps[Prep(q)].nodes
        BY <2>6 DEF Preps
    <2>8. TypeOK'
        BY <1>1, <1>2, <2>1, <2>5, <2>6, <2>7 DEF Inv, TypeOK, env
    <2>9. \A w \in Requests : Sound(req[w], record, kind)'
        BY <1>1, <2>4, <2>5 DEF Inv, env
    <2>10. Leased'
        <3>1. PICK k \in PrepKeys : k = Prep(q)
            BY <2>6
        <3>2. Prep(q)' = k
            BY <2>3, <2>5, <3>1 DEF Prep, Forced
        <3>3. IF preps[k].refs = 0 THEN At(q, "reading")' ELSE e.state = preps[k].state
            BY <2>3, <2>5, <2>7, <3>1 DEF At
        <3>4. preps' = [preps EXCEPT ![k] = e] /\ e.refs = preps[k].refs + 1
            BY <2>1, <2>7, <3>1
        <3> HIDE DEF e, s
        <3> QED
            BY <1>1, <2>3, <2>5, <2>7, <3>2, <3>3, <3>4, LeaseTaken
    <2>11. Led'
        BY <1>1, <2>1, <2>2, <2>3, LeadKeepsLed DEF Working
    <2>12. Refreshed'
        <3>1. ~InRefresh(r) /\ ~InRefresh(s) /\ s.pc # "refreshing" /\ s.rev = r.rev
            BY <1>3, <2>2, <2>3 DEF InRefresh
        <3> HIDE DEF s
        <3> QED
            BY <1>1, <2>5, <3>1, RefreshedKept DEF At
    <2> QED
        BY <2>8, <2>9, <2>10, <2>11, <2>12 DEF Inv
<1>4. CASE ~(kind = "subscriptions" /\ r.mode # "refresh")
    <2> DEFINE s == [r EXCEPT !.pc = "produce"]
    <2>1. Set(q, s) /\ UNCHANGED preps
        BY <1>4 DEF Lead, Go
    <2>2. /\ s \in Progress /\ s.pc = "produce" /\ s.lease = r.lease /\ s.mode = r.mode /\ s.rev = r.rev /\ s.target = r.target
          /\ s.slot = r.slot /\ s.permit = r.permit /\ s.overtaken = r.overtaken /\ s.nodes = r.nodes
        BY <1>1 DEF Progress, Places, Slotted, Refreshing
    <2>3. Sound(s, record, kind)
        BY <1>1, <1>4, <2>2 DEF Inv, TypeOK, Sound, Equipped, Watched, Supplied, Slotted, Refreshing, Permitted, Decided, Working
    <2>4. /\ req' \in [Requests -> Progress] /\ req'[q] = s /\ \A w \in Requests \ {q} : req'[w] = req[w]
        BY <2>1, <2>2, SetFacts DEF Inv
    <2>5. TypeOK'
        BY <1>1, <1>2, <2>1, <2>4 DEF Inv, TypeOK, env
    <2>6. \A w \in Requests : Sound(req[w], record, kind)'
        BY <1>1, <2>3, <2>4 DEF Inv, env
    <2>7. Leased'
        <3>1. \A k \in PrepKeys : Holders(k)' = Holders(k)
            <4>1. \A w \in Requests : /\ req'[w].lease <=> req[w].lease
                                      /\ req[w].lease => Prep(w)' = Prep(w)
                BY <1>1, <2>2, <2>4 DEF Prep, Forced
            <4> QED
                BY <4>1 DEF Holders
        <3>2. \A o \in Requests : At(o, "reading")' <=> At(o, "reading")
            BY <1>1, <2>2, <2>4 DEF At
        <3> QED
            BY <2>1, <3>1, <3>2 DEF Inv, Leased, Holders
    <2>8. Led'
        BY <1>1, <2>1, <2>2, LeadKeepsLed DEF Working
    <2>9. Refreshed'
        <3>1. (InRefresh(r) <=> InRefresh(s)) /\ s.pc # "refreshing"
            BY <1>1, <2>2 DEF InRefresh
        <3> HIDE DEF s
        <3> QED
            BY <1>1, <2>2, <2>4, <3>1, RefreshedKept DEF At
    <2> QED
        BY <2>5, <2>6, <2>7, <2>8, <2>9 DEF Inv
<1> QED
    BY <1>3, <1>4

\* A leader goes on with its work: key, mode and slot stay.
LEMMA WorkKept ==
  ASSUME Inv, NEW q \in Requests, NEW s \in Progress, req[q].pc \in Working, s.pc \in Working,
         req'[q] = s, \A w \in Requests \ {q} : req'[w] = req[w], UNCHANGED <<flights, refreshes>>,
         s.mode = req[q].mode, s.rev = req[q].rev, s.target = req[q].target, s.slot = req[q].slot
  PROVE  Led' /\ Refreshed'
<1>1. \A w \in Requests, k \in Keys : Works(w, k)' <=> Works(w, k)
    BY DEF Works, Key
<1>2. \A w \in Requests : At(w, "wait")' => At(w, "wait") /\ Key(w)' = Key(w)
    BY DEF At, Key, Working
<1>3. Led'
    BY <1>1, <1>2 DEF Inv, Led
<1>4. Refreshed'
    BY RefreshedKept DEF InRefresh, At, Working
<1> QED
    BY <1>3, <1>4

\* A leader fails before it has nodes, and gives up its lease.
LEMMA GivesUp ==
  ASSUME Inv, NEW q \in Requests, req[q].pc \in {"reading", "prepwait"}, NEW e \in Errors, NEW p \in Preps,
         Set(q, [req[q] EXCEPT !.pc = "finish", !.lease = FALSE, !.err = e]),
         p.refs = preps[Prep(q)].refs, p.state = "ok" => p.nodes \in Nat,
         At(q, "reading") => p.state # "reading", p.state = "reading" => preps[Prep(q)].state = "reading",
         preps' = [preps EXCEPT ![Prep(q)] = Released(q, p)],
         UNCHANGED <<kind, record, source, fetched, outputs, flights, refreshes>>
  PROVE  Inv'
<1> DEFINE r == req[q]
           s == [r EXCEPT !.pc = "finish", !.lease = FALSE, !.err = e]
<1>1. r \in Progress /\ r.lease /\ r.target \in Targets
    BY DEF Inv, TypeOK, Sound, Equipped, Working
<1>2. /\ s \in Progress /\ s.pc = "finish" /\ ~s.lease /\ s.err = e /\ e # None /\ s.mode = r.mode /\ s.rev = r.rev
      /\ s.target = r.target /\ s.slot = r.slot /\ s.permit = r.permit /\ s.overtaken = r.overtaken
    <2>1. "finish" \in Places /\ e # None
        BY NoneAssumption DEF Places, Slotted, Refreshing
    <2>2. s \in Progress
        BY <1>1, <2>1 DEF Progress
    <2>3. s.pc = "finish" /\ ~s.lease /\ s.err = e /\ s.mode = r.mode /\ s.rev = r.rev
        BY <1>1 DEF Progress
    <2>4. s.target = r.target /\ s.slot = r.slot /\ s.permit = r.permit /\ s.overtaken = r.overtaken
        BY <1>1 DEF Progress
    <2> QED
        BY <2>1, <2>2, <2>3, <2>4
<1>3. Sound(s, record, kind)
    BY <1>1, <1>2 DEF Inv, Sound, Equipped, Watched, Supplied, Slotted, Refreshing, Permitted, Decided, Working
<1>4. /\ req' \in [Requests -> Progress] /\ req'[q] = s /\ \A w \in Requests \ {q} : req'[w] = req[w]
    BY <1>2, SetFacts DEF Inv
<1>5. Prep(q) \in PrepKeys /\ preps[Prep(q)] \in Preps
    BY PrepsTyped DEF Inv
<1>6. p.refs # 0
    <2>1. q \in Holders(Prep(q)) /\ IsFiniteSet(Holders(Prep(q)))
        BY <1>1, RequestsAssumption, FS_Subset DEF Holders
    <2> QED
        BY <1>5, <2>1, FS_EmptySet DEF Inv, Leased
<1>7. Released(q, p) \in Preps /\ (Released(q, p).state = "ok" => Released(q, p).nodes \in Nat)
    BY <1>6, ReleasedTyped
<1>8. TypeOK'
    BY <1>4, <1>5, <1>7 DEF Inv, TypeOK
<1>9. \A w \in Requests : Sound(req[w], record, kind)'
    BY <1>3, <1>4 DEF Inv
<1>10. Leased'
    BY <1>1, <1>2, <1>4, LeaseGivenUp
<1>11. Led' /\ Refreshed'
    BY <1>2, <1>4, WorkKept DEF Working
<1> QED
    BY <1>8, <1>9, <1>10, <1>11 DEF Inv

LEMMA ReadStep ==
  ASSUME Inv, NEW q \in Requests, Read(q)
  PROVE  Inv'
<1> DEFINE r == req[q]
<1>1. /\ r \in Progress /\ r.pc = "reading" /\ r.lease /\ r.target \in Targets
      /\ Prep(q) \in PrepKeys /\ preps[Prep(q)] \in Preps
      /\ UNCHANGED <<kind, record, source, outputs, flights, refreshes>>
    BY PrepsTyped DEF Inv, TypeOK, Read, At, Sound, Equipped, Working
<1>2. ASSUME NEW v \in Readable(q), Reads(q, v),
             preps' = [preps EXCEPT ![Prep(q)].state = "ok", ![Prep(q)].nodes = v],
             Set(q, [r EXCEPT !.pc = "produce", !.nodes = v])
      PROVE  Inv'
    <2> DEFINE s == [r EXCEPT !.pc = "produce", !.nodes = v]
               p == [[preps[Prep(q)] EXCEPT !.state = "ok"] EXCEPT !.nodes = v]
    <2>1. v \in Nat /\ fetched' \in Nat
        BY <1>2, ReadableNat DEF Inv, TypeOK, Reads
    <2>2. /\ s \in Progress /\ s.pc = "produce" /\ s.lease /\ s.mode = r.mode /\ s.rev = r.rev /\ s.nodes = v
          /\ s.target = r.target /\ s.slot = r.slot /\ s.permit = r.permit /\ s.overtaken = r.overtaken
        BY <1>1, <2>1 DEF Progress, Places, Slotted, Refreshing
    <2>3. Sound(s, record, kind)
        BY <1>1, <2>1, <2>2 DEF Inv, Sound, Equipped, Watched, Supplied, Slotted, Refreshing, Permitted, Decided, Working
    <2>4. /\ req' \in [Requests -> Progress] /\ req'[q] = s /\ \A w \in Requests \ {q} : req'[w] = req[w]
        BY <1>2, <2>2, SetFacts DEF Inv
    <2>5. preps' = [preps EXCEPT ![Prep(q)] = p]
        BY <1>1, <1>2 DEF Inv, TypeOK
    <2>6. p \in Preps /\ p.refs = preps[Prep(q)].refs /\ p.state = "ok" /\ p.nodes = v
        BY <1>1, <2>1 DEF Preps
    <2>7. TypeOK'
        BY <1>1, <2>1, <2>4, <2>5, <2>6 DEF Inv, TypeOK
    <2>8. \A w \in Requests : Sound(req[w], record, kind)'
        BY <1>1, <2>3, <2>4 DEF Inv
    <2>9. Leased'
        <3>1. \A w \in Requests : (req'[w].lease <=> req[w].lease) /\ Prep(w)' = Prep(w) /\ (w # q => (At(w, "reading")' <=> At(w, "reading")))
            <4>1. (req'[q].lease <=> req[q].lease) /\ Prep(q)' = Prep(q)
                BY <1>1, <2>2, <2>4 DEF Prep, Forced
            <4>2. \A w \in Requests \ {q} : Prep(w)' = Prep(w) /\ (At(w, "reading")' <=> At(w, "reading"))
                BY <2>4 DEF Prep, Forced, At
            <4> QED
                BY <2>4, <4>1, <4>2
        <3>2. \A k \in PrepKeys : Holders(k)' = Holders(k)
            BY <3>1 DEF Holders
        <3>3. SUFFICES ASSUME NEW k \in PrepKeys
                       PROVE  /\ preps'[k].refs = Cardinality(Holders(k)')
                              /\ Holders(k)' # {} /\ preps'[k].state = "reading" => \E o \in Holders(k)' : At(o, "reading")'
            BY DEF Leased
        <3>4. CASE k = Prep(q)
            BY <1>1, <2>5, <2>6, <3>2, <3>4 DEF Inv, TypeOK, Leased
        <3>5. CASE k # Prep(q)
            <4>1. preps'[k] = preps[k] /\ Holders(k)' = Holders(k)
                BY <1>1, <2>5, <3>2, <3>5 DEF Inv, TypeOK
            <4>2. \A o \in Holders(k) : At(o, "reading")' <=> At(o, "reading")
                BY <3>1, <3>5 DEF Holders
            <4> QED
                BY <4>1, <4>2 DEF Inv, Leased
        <3> QED
            BY <3>4, <3>5
    <2>10. Led' /\ Refreshed'
        BY <1>1, <2>2, <2>4, WorkKept DEF Working
    <2> QED
        BY <2>7, <2>8, <2>9, <2>10 DEF Inv
<1>3. ASSUME NEW e \in Errors, UNCHANGED fetched,
             preps' = [preps EXCEPT ![Prep(q)] = Released(q, [@ EXCEPT !.state = e])],
             Set(q, [r EXCEPT !.pc = "finish", !.lease = FALSE, !.err = e])
      PROVE  Inv'
    <2> DEFINE p == [preps[Prep(q)] EXCEPT !.state = e]
    <2>1. p \in Preps /\ p.refs = preps[Prep(q)].refs /\ p.state = e
        BY <1>1 DEF Preps
    <2>2. e # "ok" /\ e # "reading"
        BY DEF Errors
    <2>3. preps' = [preps EXCEPT ![Prep(q)] = Released(q, p)]
        BY <1>1, <1>3 DEF Inv, TypeOK
    <2> QED
        BY <1>1, <1>3, <2>1, <2>2, <2>3, GivesUp
<1>4. Dead(q) => r.ctx \in Errors
    BY <1>1 DEF Dead, Progress, Contexts, Errors
<1> QED
    BY <1>2, <1>3, <1>4 DEF Read, Errors

LEMMA PrepareWaitStep ==
  ASSUME Inv, NEW q \in Requests, PrepareWait(q)
  PROVE  Inv'
<1> DEFINE r == req[q]
           p == preps[Prep(q)]
<1>1. /\ r \in Progress /\ r.pc = "prepwait" /\ r.lease /\ r.target \in Targets
      /\ Prep(q) \in PrepKeys /\ p \in Preps /\ (p.state = "ok" => p.nodes \in Nat)
      /\ UNCHANGED <<kind, record, source, fetched, outputs, flights, refreshes>>
    BY PrepsTyped DEF Inv, TypeOK, PrepareWait, At, Sound, Equipped, Working, env
<1>2. CASE p.state = "ok" /\ Set(q, [r EXCEPT !.pc = "produce", !.nodes = p.nodes]) /\ UNCHANGED preps
    <2> DEFINE s == [r EXCEPT !.pc = "produce", !.nodes = p.nodes]
    <2>1. /\ s \in Progress /\ s.pc = "produce" /\ s.lease = r.lease /\ s.mode = r.mode /\ s.rev = r.rev /\ s.nodes = p.nodes
          /\ s.target = r.target /\ s.slot = r.slot /\ s.permit = r.permit /\ s.overtaken = r.overtaken
        BY <1>1, <1>2 DEF Progress, Places, Slotted, Refreshing
    <2>2. Sound(s, record, kind) /\ Quiet(r, s)
        BY <1>1, <1>2, <2>1 DEF Inv, Progress, Places, Sound, Equipped, Watched, Supplied, Slotted, Refreshing, Permitted, Decided, Working, Quiet, InRefresh
    <2>3. Calm(q)
        BY <1>2, <2>1, <2>2 DEF Calm
    <2> QED
        BY <1>1, <1>2, <2>3, CalmStep DEF Inv, TypeOK
<1>3. ASSUME NEW e \in Errors, preps' = [preps EXCEPT ![Prep(q)] = Released(q, p)],
             Set(q, [r EXCEPT !.pc = "finish", !.lease = FALSE, !.err = e])
      PROVE  Inv'
    BY <1>1, <1>3, GivesUp DEF At
<1>4. Dead(q) => r.ctx \in Errors
    BY <1>1 DEF Dead, Progress, Contexts, Errors
<1> QED
    BY <1>2, <1>3, <1>4 DEF PrepareWait

\* Whom a flight wakes, and with what.
LEMMA WokenFacts ==
  ASSUME Inv, NEW q \in Requests, Finish(q)
  PROVE  /\ req' \in [Requests -> Progress]
         /\ \A w \in Requests : Sound(req'[w], record, kind)
         /\ \A w \in Requests : req'[w].mode = req[w].mode /\ req'[w].rev = req[w].rev /\ req'[w].target = req[w].target
                                /\ req'[w].slot = req[w].slot
         /\ req'[q].pc \in {"result", "failure"} /\ ~req'[q].lease
         /\ \A w \in Requests \ {q} :
                IF At(w, "wait") /\ Key(w) = Key(q) THEN req'[w].pc = "joined" /\ ~req[w].lease /\ ~req'[w].lease
                                                    ELSE req'[w] = req[w]
<1> DEFINE r == req[q]
           s == [r EXCEPT !.pc = IF r.err = None THEN "result" ELSE "failure", !.lease = FALSE]
<1>1. r \in Progress /\ r.pc = "finish" /\ req' = Woken(q, Key(q))
    BY DEF Inv, TypeOK, Finish, At
<1>2. /\ s \in Progress /\ s.pc = (IF r.err = None THEN "result" ELSE "failure") /\ ~s.lease /\ s.mode = r.mode /\ s.rev = r.rev
      /\ s.target = r.target /\ s.slot = r.slot /\ s.permit = r.permit /\ s.overtaken = r.overtaken /\ s.nodes = r.nodes
    <2> DEFINE p == IF r.err = None THEN "result" ELSE "failure"
    <2>1. p \in Places
        BY DEF Places, Slotted, Refreshing
    <2>2. s = [r EXCEPT !.pc = p, !.lease = FALSE]
        OBVIOUS
    <2> HIDE DEF p, s
    <2>3. s \in Progress
        BY <1>1, <2>1, <2>2 DEF Progress
    <2>4. s.pc = p /\ ~s.lease /\ s.mode = r.mode /\ s.rev = r.rev /\ s.target = r.target
        BY <1>1, <2>2 DEF Progress
    <2>5. s.slot = r.slot /\ s.permit = r.permit /\ s.overtaken = r.overtaken /\ s.nodes = r.nodes
        BY <1>1, <2>2 DEF Progress
    <2> QED
        BY <2>3, <2>4, <2>5 DEF p
<1>3. Sound(s, record, kind)
    BY <1>1, <1>2 DEF Inv, Sound, Equipped, Watched, Supplied, Slotted, Refreshing, Permitted, Decided, Working
<1>4. req'[q] = s
    BY <1>1 DEF Woken
<1>5. ASSUME NEW w \in Requests \ {q}, At(w, "wait"), Key(w) = Key(q)
      PROVE  /\ req'[w] \in Progress /\ Sound(req'[w], record, kind)
             /\ req'[w].mode = req[w].mode /\ req'[w].rev = req[w].rev /\ req'[w].target = req[w].target
             /\ req'[w].slot = req[w].slot /\ req'[w].pc = "joined" /\ ~req[w].lease /\ ~req'[w].lease
    <2> DEFINE n == IF Forced(q) /\ req[w].mode = "forced" THEN r.nodes ELSE req[w].nodes
               u == [req[w] EXCEPT !.pc = "joined", !.err = r.err, !.fromForced = Forced(q), !.nodes = n]
    <2>1. req'[w] = u
        BY <1>1, <1>5 DEF Woken
    <2>2. req[w] \in Progress /\ req[w].pc = "wait" /\ ~req[w].lease
        BY <1>5 DEF Inv, TypeOK, At, Sound, Equipped, Working
    <2>3. n \in Nat \cup {None} /\ r.err \in Errors \cup {None} /\ Forced(q) \in BOOLEAN
        BY <1>1, <2>2 DEF Progress, Forced
    <2>4. /\ u \in Progress /\ u.pc = "joined" /\ u.lease = req[w].lease /\ u.mode = req[w].mode /\ u.rev = req[w].rev
          /\ u.target = req[w].target /\ u.slot = req[w].slot /\ u.permit = req[w].permit /\ u.overtaken = req[w].overtaken
          /\ u.err = r.err /\ u.fromForced = Forced(q) /\ u.nodes = n
        <3>1. "joined" \in Places
            BY DEF Places, Slotted, Refreshing
        <3> HIDE DEF n
        <3>2. u \in Progress
            BY <2>2, <2>3, <3>1 DEF Progress
        <3>3. u.pc = "joined" /\ u.lease = req[w].lease /\ u.mode = req[w].mode /\ u.rev = req[w].rev
            BY <2>2 DEF Progress
        <3>4. u.target = req[w].target /\ u.slot = req[w].slot /\ u.permit = req[w].permit /\ u.overtaken = req[w].overtaken
            BY <2>2 DEF Progress
        <3>5. u.err = r.err /\ u.fromForced = Forced(q) /\ u.nodes = n
            BY <2>2 DEF Progress
        <3> QED
            BY <3>2, <3>3, <3>4, <3>5
    <2>5. Supplied(u, kind) => u.nodes \in Nat
        <3>1. CASE u.mode = "forced" /\ u.fromForced /\ u.err = None
            <4>1. Supplied(r, kind)
                BY <1>1, <2>4, <3>1 DEF Supplied, Forced
            <4> QED
                BY <2>4, <3>1, <4>1 DEF Inv, Sound
        <3>2. CASE u.mode = "refresh"
            BY <2>2, <2>4, <3>2 DEF Inv, Sound, Supplied, Refreshing
        <3> QED
            BY <2>4, <3>1, <3>2 DEF Supplied
    <2>6. Equipped(u) /\ Watched(u, record)
        BY <2>2, <2>4 DEF Inv, Sound, Equipped, Watched, Slotted, Refreshing, Permitted, Decided, Working
    <2> QED
        BY <2>1, <2>2, <2>4, <2>5, <2>6 DEF Sound
<1>6. \A w \in Requests \ {q} : ~(At(w, "wait") /\ Key(w) = Key(q)) => req'[w] = req[w]
    BY <1>1 DEF Woken
<1>7. \A w \in Requests : req'[w] \in Progress
    BY <1>2, <1>4, <1>5, <1>6 DEF Inv, TypeOK
<1>8. req' \in [Requests -> Progress]
    BY <1>1, <1>7 DEF Woken
<1> HIDE DEF s
<1> QED
    BY <1>2, <1>3, <1>4, <1>5, <1>6, <1>8 DEF Inv

LEMMA FinishStep ==
  ASSUME Inv, NEW q \in Requests, Finish(q)
  PROVE  Inv'
<1>1. /\ req[q].pc = "finish" /\ Key(q) \in Keys /\ Prep(q) \in PrepKeys /\ preps[Prep(q)] \in Preps
      /\ flights' = [flights EXCEPT ![Key(q)] = None]
      /\ UNCHANGED <<env, outputs, refreshes>>
    BY WorkingTyped, PrepsTyped DEF Inv, Finish, At, Working
<1>2. /\ req' \in [Requests -> Progress]
      /\ \A w \in Requests : Sound(req'[w], record, kind)
      /\ \A w \in Requests : req'[w].mode = req[w].mode /\ req'[w].rev = req[w].rev /\ req'[w].target = req[w].target
                             /\ req'[w].slot = req[w].slot
      /\ req'[q].pc \in {"result", "failure"} /\ ~req'[q].lease
      /\ \A w \in Requests \ {q} :
             IF At(w, "wait") /\ Key(w) = Key(q) THEN req'[w].pc = "joined" /\ ~req[w].lease /\ ~req'[w].lease
                                                 ELSE req'[w] = req[w]
    BY WokenFacts
<1>3. /\ preps' \in [PrepKeys -> Preps] /\ \A k \in PrepKeys : preps'[k].state = "ok" => preps'[k].nodes \in Nat
      /\ Leased'
    <2>1. CASE req[q].lease
        <3>1. preps' = [preps EXCEPT ![Prep(q)] = Released(q, preps[Prep(q)])]
            BY <2>1 DEF Finish
        <3>2. preps[Prep(q)].refs # 0
            <4>1. q \in Holders(Prep(q)) /\ IsFiniteSet(Holders(Prep(q)))
                BY <2>1, RequestsAssumption, FS_Subset DEF Holders
            <4> QED
                BY <1>1, <4>1, FS_EmptySet DEF Inv, Leased
        <3>3. /\ Released(q, preps[Prep(q)]) \in Preps
              /\ Released(q, preps[Prep(q)]).state = "ok" => Released(q, preps[Prep(q)]).nodes \in Nat
            BY <1>1, <3>2, ReleasedTyped DEF Inv, TypeOK
        <3>4. Leased'
            BY <1>1, <1>2, <2>1, <3>1, LeaseGivenUp DEF At
        <3> QED
            BY <1>1, <3>1, <3>3, <3>4 DEF Inv, TypeOK
    <2>2. CASE ~req[q].lease
        <3>1. UNCHANGED preps
            BY <2>2 DEF Finish
        <3>2. \A w \in Requests : /\ req'[w].lease <=> req[w].lease
                                  /\ req[w].lease => Prep(w)' = Prep(w) /\ (At(w, "reading")' <=> At(w, "reading"))
            BY <1>2, <2>2 DEF Prep, Forced, At
        <3>3. \A k \in PrepKeys : Holders(k)' = Holders(k)
            BY <3>2 DEF Holders
        <3>4. \A k \in PrepKeys : \A o \in Holders(k) : At(o, "reading")' <=> At(o, "reading")
            BY <3>2 DEF Holders
        <3> QED
            BY <3>1, <3>3, <3>4 DEF Inv, TypeOK, Leased
    <2> QED
        BY <2>1, <2>2
<1>4. TypeOK'
    <2>1. flights' \in [Keys -> [forced : BOOLEAN] \cup {None}]
        BY <1>1 DEF Inv, TypeOK
    <2> QED
        BY <1>1, <1>2, <1>3, <2>1 DEF Inv, TypeOK, env
<1>5. \A w \in Requests : Sound(req[w], record, kind)'
    BY <1>1, <1>2 DEF env
<1>6. Led'
    <2>1. \A w \in Requests : Key(w)' = Key(w)
        BY <1>2 DEF Key
    <2>2. flights'[Key(q)] = None /\ \A k \in Keys \ {Key(q)} : flights'[k] = flights[k]
        BY <1>1 DEF Inv, TypeOK
    <2>3. \A w \in Requests, k \in Keys : Works(w, k)' <=> Works(w, k) /\ w # q
        BY <1>2, <2>1 DEF Works, At, Working
    <2>5. ASSUME NEW k \in Keys PROVE flights'[k] # None <=> \E w \in Requests : Works(w, k)'
        <3>1. CASE k = Key(q)
            BY <1>1, <2>2, <2>3, <3>1 DEF Inv, Led, Works, Working
        <3>2. CASE k # Key(q)
            BY <2>2, <2>3, <3>2 DEF Inv, Led, Works
        <3> QED
            BY <3>1, <3>2
    <2>6. ASSUME NEW w \in Requests, At(w, "wait")' PROVE flights'[Key(w)'] # None
        <3>1. At(w, "wait") /\ Key(w) # Key(q)
            BY <1>1, <1>2, <2>6 DEF At
        <3>2. Key(w) \in Keys /\ flights[Key(w)] # None
            BY <3>1, WorkingTyped DEF At, Inv, Led
        <3> QED
            BY <2>1, <2>2, <3>1, <3>2
    <2> QED
        BY <2>3, <2>5, <2>6 DEF Inv, Led
<1>7. Refreshed'
    <2>1. \A w \in Requests : InRefresh(req'[w]) <=> InRefresh(req[w])
        BY <1>1, <1>2 DEF InRefresh, At
    <2>2. \A w \in Requests, v \in Revs : Refreshes(w, v)' <=> Refreshes(w, v)
        BY <1>2, <2>1 DEF Refreshes
    <2>3. \A w \in Requests : At(w, "refreshing")' => At(w, "refreshing")
        BY <1>2 DEF At
    <2> QED
        BY <1>1, <1>2, <2>2, <2>3 DEF Inv, Refreshed
<1> QED
    BY <1>3, <1>4, <1>5, <1>6, <1>7 DEF Inv

-----------------------------------------------------------------------------
(* Refreshes of all targets.                                                 *)

LEMMA StartRefreshStep ==
  ASSUME Inv, NEW q \in Requests, StartRefresh(q)
  PROVE  Inv'
<1> DEFINE r == req[q]
<1>1. /\ r \in Progress /\ r.pc = "refresh" /\ r.mode = "refresh" /\ r.slot /\ ~r.lease
      /\ UNCHANGED <<env, outputs, flights, preps>>
    BY DEF Inv, TypeOK, StartRefresh, At, Sound, Equipped, Working, Slotted
<1>2. PICK p \in {"refreshing", "readall", "next"} :
        /\ Go(q, p) /\ refreshes' = (IF p = "refreshing" THEN refreshes ELSE refreshes \cup {r.rev})
        /\ p = "refreshing" <=> r.rev \in refreshes
        /\ p = "next" => kind # "subscriptions"
    BY DEF StartRefresh
<1> DEFINE s == [r EXCEPT !.pc = p]
<1>3. /\ s \in Progress /\ s.pc = p /\ s.lease = r.lease /\ s.mode = r.mode /\ s.rev = r.rev /\ s.target = r.target
      /\ s.slot = r.slot /\ s.permit = r.permit /\ s.overtaken = r.overtaken /\ s.nodes = r.nodes
    <2>1. p \in Places
        BY <1>2 DEF Places, Slotted, Refreshing
    <2>2. s \in Progress
        BY <1>1, <2>1 DEF Progress
    <2>3. s.pc = p /\ s.lease = r.lease /\ s.mode = r.mode /\ s.rev = r.rev /\ s.target = r.target
        BY <1>1 DEF Progress
    <2>4. s.slot = r.slot /\ s.permit = r.permit /\ s.overtaken = r.overtaken /\ s.nodes = r.nodes
        BY <1>1 DEF Progress
    <2> QED
        BY <2>2, <2>3, <2>4
<1>4. Sound(s, record, kind)
    BY <1>1, <1>2, <1>3 DEF Inv, Sound, Equipped, Watched, Supplied, Slotted, Refreshing, Permitted, Decided, Working
<1>5. /\ req' \in [Requests -> Progress] /\ req'[q] = s /\ \A w \in Requests \ {q} : req'[w] = req[w]
    BY <1>2, <1>3, SetFacts DEF Inv, Go
<1> HIDE DEF s
<1>6. TypeOK'
    BY <1>1, <1>2, <1>5 DEF Inv, TypeOK, env, Progress
<1>7. \A w \in Requests : Sound(req[w], record, kind)'
    BY <1>1, <1>4, <1>5 DEF Inv, env
<1>8. Leased'
    <2>1. \A w \in Requests : /\ req'[w].lease <=> req[w].lease
                              /\ req[w].lease => Prep(w)' = Prep(w) /\ (At(w, "reading")' <=> At(w, "reading"))
        BY <1>1, <1>3, <1>5 DEF Prep, Forced, At
    <2>2. \A k \in PrepKeys : Holders(k)' = Holders(k)
        BY <2>1 DEF Holders
    <2>3. \A k \in PrepKeys : \A o \in Holders(k) : At(o, "reading")' <=> At(o, "reading")
        BY <2>1 DEF Holders
    <2> QED
        BY <1>1, <2>2, <2>3 DEF Inv, Leased
<1>9. Led'
    <2>1. \A w \in Requests, k \in Keys : Works(w, k)' <=> Works(w, k)
        BY <1>1, <1>2, <1>3, <1>5 DEF Works, Key, Working
    <2>2. \A w \in Requests : At(w, "wait")' => At(w, "wait") /\ Key(w)' = Key(w)
        BY <1>1, <1>2, <1>3, <1>5 DEF At, Key
    <2> QED
        BY <1>1, <2>1, <2>2 DEF Inv, Led
<1>10. Refreshed'
    <2>1. \A w \in Requests \ {q}, v \in Revs : Refreshes(w, v)' <=> Refreshes(w, v)
        BY <1>5 DEF Refreshes
    <2>2. \A v \in Revs : ~Refreshes(q, v) /\ (Refreshes(q, v)' <=> p # "refreshing" /\ v = r.rev)
        BY <1>1, <1>2, <1>3, <1>5 DEF Refreshes, InRefresh
    <2>3. \A w \in Requests : At(w, "refreshing")' => (At(w, "refreshing") /\ req'[w].rev = req[w].rev) \/ (w = q /\ p = "refreshing")
        BY <1>3, <1>5 DEF At
    <2>4. r.rev \in Revs
        BY <1>1 DEF Progress
    <2>5. \A w \in Requests : At(w, "refreshing")' => req'[w].rev \in refreshes'
        BY <1>2, <1>3, <1>5, <2>3 DEF Inv, Refreshed
    <2>6. \A v \in Revs : v \in refreshes' <=> \E w \in Requests : Refreshes(w, v)'
        BY <1>2, <2>1, <2>2, <2>4 DEF Inv, Refreshed
    <2>7. \A v \in Revs, x, w \in Requests : Refreshes(x, v)' /\ Refreshes(w, v)' => x = w
        BY <1>2, <2>1, <2>2, <2>4 DEF Inv, Refreshed
    <2> QED
        BY <2>5, <2>6, <2>7 DEF Refreshed
<1> QED
    BY <1>6, <1>7, <1>8, <1>9, <1>10 DEF Inv

LEMMA RefreshDoneStep ==
  ASSUME Inv, NEW q \in Requests, RefreshDone(q)
  PROVE  Inv'
<1> DEFINE Freed(w) == w = q \/ (At(w, "refreshing") /\ req[w].rev = req[q].rev)
<1>1. /\ req[q].pc = "refreshed" /\ req[q].mode = "refresh" /\ req[q].slot /\ req[q].rev \in Revs
      /\ refreshes' = refreshes \ {req[q].rev}
      /\ UNCHANGED <<env, outputs, flights, preps>>
    BY DEF Inv, TypeOK, RefreshDone, At, Sound, Equipped, Slotted, Refreshing, Progress
<1>2. \A w \in Requests : req'[w] = IF Freed(w) THEN Done ELSE req[w]
    BY DEF RefreshDone
<1>3. \A w \in Requests : Freed(w) => req[w].pc \in {"refreshing", "refreshed"} /\ ~req[w].lease
    BY <1>1 DEF At, Inv, Sound, Equipped, Working
<1>4. TypeOK'
    <2>1. req' \in [Requests -> Progress]
        BY <1>2, DoneFacts DEF Inv, TypeOK, RefreshDone
    <2> QED
        BY <1>1, <2>1 DEF Inv, TypeOK, env
<1>5. \A w \in Requests : Sound(req[w], record, kind)'
    BY <1>1, <1>2, DoneFacts DEF Inv, env
<1>6. Leased'
    <2>1. \A w \in Requests : /\ req'[w].lease <=> req[w].lease
                              /\ req[w].lease => Prep(w)' = Prep(w) /\ (At(w, "reading")' <=> At(w, "reading"))
        BY <1>2, <1>3, DoneFacts DEF Prep, Forced, At
    <2>2. \A k \in PrepKeys : Holders(k)' = Holders(k)
        BY <2>1 DEF Holders
    <2>3. \A k \in PrepKeys : \A o \in Holders(k) : At(o, "reading")' <=> At(o, "reading")
        BY <2>1 DEF Holders
    <2> QED
        BY <1>1, <2>2, <2>3 DEF Inv, Leased
<1>7. Led'
    <2>1. \A w \in Requests, k \in Keys : Works(w, k)' <=> Works(w, k)
        BY <1>2, <1>3, DoneFacts DEF Works, Key, Working
    <2>2. \A w \in Requests : At(w, "wait")' => At(w, "wait") /\ Key(w)' = Key(w)
        BY <1>2, <1>3, DoneFacts DEF At, Key
    <2> QED
        BY <1>1, <2>1, <2>2 DEF Inv, Led
<1>8. Refreshed'
    <2>1. \A w \in Requests : InRefresh(req'[w]) <=> InRefresh(req[w]) /\ w # q
        BY <1>1, <1>2, <1>3, DoneFacts DEF InRefresh, At
    <2>2. \A w \in Requests : InRefresh(req'[w]) => req'[w].rev = req[w].rev
        BY <1>2, DoneFacts DEF InRefresh
    <2>3. \A w \in Requests, v \in Revs : Refreshes(w, v)' <=> Refreshes(w, v) /\ w # q
        BY <2>1, <2>2 DEF Refreshes
    <2>4. Refreshes(q, req[q].rev)
        BY <1>1 DEF Refreshes, InRefresh
    <2>5. \A w \in Requests, v \in Revs : Refreshes(w, v) /\ w # q => v # req[q].rev
        BY <1>1, <2>4 DEF Inv, Refreshed
    <2>6. \A w \in Requests : Refreshes(q, w) => w = req[q].rev
        BY DEF Refreshes
    <2>7. \A v \in Revs : v \in refreshes' <=> \E w \in Requests : Refreshes(w, v)'
        <3>1. ASSUME NEW v \in Revs, v \in refreshes' PROVE \E w \in Requests : Refreshes(w, v)'
            <4>1. v \in refreshes /\ v # req[q].rev
                BY <1>1, <3>1
            <4>2. PICK w \in Requests : Refreshes(w, v)
                BY <4>1 DEF Inv, Refreshed
            <4>3. w # q
                BY <4>1, <4>2 DEF Refreshes
            <4> QED
                BY <2>3, <4>2, <4>3
        <3>2. ASSUME NEW v \in Revs, NEW w \in Requests, Refreshes(w, v)' PROVE v \in refreshes'
            BY <1>1, <2>3, <2>5, <3>2 DEF Inv, Refreshed
        <3> QED
            BY <3>1, <3>2
    <2>8. \A w \in Requests : At(w, "refreshing")' => At(w, "refreshing") /\ req'[w].rev = req[w].rev /\ req[w].rev # req[q].rev
        BY <1>2, DoneFacts DEF At
    <2> QED
        BY <1>1, <2>3, <2>7, <2>8 DEF Inv, Refreshed
<1> QED
    BY <1>4, <1>5, <1>6, <1>7, <1>8 DEF Inv

-----------------------------------------------------------------------------
(* What happens to the record and to the caches.                             *)

\* Flights, leases and refreshes do not see that somebody is overtaken.
LEMMA Overtaken ==
  ASSUME Inv, NEW S \in SUBSET Requests, Overtake(S), UNCHANGED <<kind, source, fetched, shared>>,
         record' \in [present : BOOLEAN, rev : Revs, shared : BOOLEAN], record.rev <= record'.rev,
         ~record.present => ~record'.present, ~record.shared => ~record'.shared,
         \A q \in S : /\ req[q].pc \notin Decided
                      /\ \/ ~record'.present
                         \/ req[q].mode = "share" /\ ~record'.shared
                         \/ req[q].rev < record'.rev /\ req[q].pc \notin {"permit", "queue"}
  PROVE  Inv'
<1>1. \A q \in Requests :
        /\ req'[q] \in Progress
        /\ req'[q].pc = req[q].pc /\ req'[q].mode = req[q].mode /\ req'[q].rev = req[q].rev /\ req'[q].target = req[q].target
        /\ req'[q].lease = req[q].lease /\ req'[q].slot = req[q].slot /\ req'[q].permit = req[q].permit
        /\ req'[q].nodes = req[q].nodes /\ req'[q].err = req[q].err /\ req'[q].fromForced = req[q].fromForced
        /\ req'[q].overtaken <=> req[q].overtaken \/ q \in S
    <2>1. ASSUME NEW q \in Requests, q \in S PROVE req'[q] = [req[q] EXCEPT !.overtaken = TRUE]
        BY <2>1 DEF Overtake
    <2>2. ASSUME NEW q \in Requests, q \notin S PROVE req'[q] = req[q]
        BY <2>2 DEF Overtake
    <2>3. \A r \in Progress : r = [r EXCEPT !.overtaken = r.overtaken]
        BY DEF Progress
    <2>4. ASSUME NEW q \in Requests, NEW b \in BOOLEAN, req'[q] = [req[q] EXCEPT !.overtaken = b]
          PROVE  /\ req'[q] \in Progress
                 /\ req'[q].pc = req[q].pc /\ req'[q].mode = req[q].mode /\ req'[q].rev = req[q].rev /\ req'[q].target = req[q].target
                 /\ req'[q].lease = req[q].lease /\ req'[q].slot = req[q].slot /\ req'[q].permit = req[q].permit
                 /\ req'[q].nodes = req[q].nodes /\ req'[q].err = req[q].err /\ req'[q].fromForced = req[q].fromForced
                 /\ req'[q].overtaken = b
        <3>1. req[q] \in Progress
            BY DEF Inv, TypeOK
        <3> QED
            BY <2>4, <3>1 DEF Progress
    <2>5. ASSUME NEW q \in Requests PROVE req[q] \in Progress /\ req[q].overtaken \in BOOLEAN
        BY DEF Inv, TypeOK, Progress
    <2>6. ASSUME NEW q \in Requests, q \notin S PROVE req'[q] = [req[q] EXCEPT !.overtaken = req[q].overtaken]
        BY <2>2, <2>3, <2>5, <2>6
    <2> TAKE q \in Requests
    <2>7. CASE q \in S
        <3>1. req'[q] = [req[q] EXCEPT !.overtaken = TRUE]
            BY <2>1, <2>7
        <3> QED
            BY <2>4, <2>5, <2>7, <3>1
    <2>8. CASE q \notin S
        <3>1. req'[q] = [req[q] EXCEPT !.overtaken = req[q].overtaken]
            BY <2>6, <2>8
        <3> QED
            BY <2>4, <2>5, <2>8, <3>1
    <2> QED
        BY <2>7, <2>8
<1>2. ASSUME NEW q \in Requests PROVE Sound(req[q], record, kind)'
    <2>1. Sound(req[q], record, kind) /\ req[q].rev \in Nat /\ record.rev \in Nat /\ record'.rev \in Nat
        BY SlotsAssumption DEF Inv, TypeOK, Progress, Revs
    <2>2. Equipped(req'[q])
        BY <1>1, <2>1 DEF Sound, Equipped
    <2>3. Supplied(req'[q], kind) => req'[q].nodes \in Nat
        BY <1>1, <2>1 DEF Sound, Supplied
    <2>4. Watched(req'[q], record')
        BY <1>1, <2>1 DEF Sound, Watched, Inv, TypeOK
    <2> QED
        BY <2>2, <2>3, <2>4 DEF Sound
<1>3. TypeOK'
    <2>1. req' \in [Requests -> Progress]
        BY <1>1 DEF Overtake
    <2> QED
        BY <2>1 DEF Inv, TypeOK, shared
<1>4. Leased'
    <2>1. \A k \in PrepKeys : Holders(k)' = Holders(k)
        BY <1>1 DEF Holders, Prep, Forced
    <2>2. \A o \in Requests : At(o, "reading")' <=> At(o, "reading")
        BY <1>1 DEF At
    <2> QED
        BY <2>1, <2>2 DEF Inv, Leased, Holders, shared
<1>5. Led'
    <2>1. \A w \in Requests, k \in Keys : Works(w, k)' <=> Works(w, k)
        BY <1>1 DEF Works, Key
    <2>2. \A w \in Requests : (At(w, "wait")' <=> At(w, "wait")) /\ Key(w)' = Key(w)
        BY <1>1 DEF At, Key
    <2> QED
        BY <2>1, <2>2 DEF Inv, Led, shared
<1>6. Refreshed'
    <2>1. \A w \in Requests, v \in Revs : Refreshes(w, v)' <=> Refreshes(w, v)
        BY <1>1 DEF Refreshes, InRefresh
    <2> QED
        BY <1>1, <2>1 DEF Inv, Refreshed, shared, At
<1> QED
    BY <1>2, <1>3, <1>4, <1>5, <1>6 DEF Inv

LEMMA ChangeStep ==
  ASSUME Inv, Change
  PROVE  Inv'
<1> DEFINE S == {q \in Requests : req[q].pc \in Loaded}
<1>1. record \in [present : BOOLEAN, rev : Revs, shared : BOOLEAN] /\ record.rev < MaxRev
    BY DEF Inv, TypeOK, Change
<1>2. /\ record' = [record EXCEPT !.rev = @ + 1] /\ Overtake(S) /\ UNCHANGED <<kind, source, fetched, shared>>
    BY DEF Change
<1>3. /\ record' \in [present : BOOLEAN, rev : Revs, shared : BOOLEAN] /\ record'.rev = record.rev + 1
      /\ record'.present = record.present /\ record'.shared = record.shared
    BY <1>1, <1>2, SlotsAssumption DEF Revs
<1>4. \A q \in S : req[q].pc \notin Decided \cup {"permit", "queue"} /\ req[q].rev < record'.rev
    BY <1>1, <1>3, SlotsAssumption DEF Inv, TypeOK, Progress, Revs, Sound, Watched, Loaded, Decided
<1>5. record.rev <= record'.rev
    BY <1>1, <1>3, SlotsAssumption DEF Revs
<1> QED
    BY <1>2, <1>3, <1>4, <1>5, Overtaken

LEMMA DeleteStep ==
  ASSUME Inv, Delete
  PROVE  Inv'
<1> DEFINE S == {q \in Requests : req[q].pc \notin Decided}
<1>1. record \in [present : BOOLEAN, rev : Revs, shared : BOOLEAN]
    BY DEF Inv, TypeOK
<1>2. /\ record' = [record EXCEPT !.present = FALSE] /\ Overtake(S) /\ UNCHANGED <<kind, source, fetched, shared>>
    BY DEF Delete
<1>3. /\ record' \in [present : BOOLEAN, rev : Revs, shared : BOOLEAN] /\ record'.rev = record.rev
      /\ ~record'.present /\ record'.shared = record.shared
    BY <1>1, <1>2
<1>4. record.rev <= record'.rev
    BY <1>1, <1>3, SlotsAssumption DEF Revs
<1> QED
    BY <1>2, <1>3, <1>4, Overtaken

LEMMA RevokeStep ==
  ASSUME Inv, Revoke
  PROVE  Inv'
<1> DEFINE S == {q \in Requests : req[q].mode = "share" /\ req[q].pc \notin Decided}
<1>1. record \in [present : BOOLEAN, rev : Revs, shared : BOOLEAN]
    BY DEF Inv, TypeOK
<1>2. /\ record' = [record EXCEPT !.shared = FALSE] /\ Overtake(S) /\ UNCHANGED <<kind, source, fetched, shared>>
    BY DEF Revoke
<1>3. /\ record' \in [present : BOOLEAN, rev : Revs, shared : BOOLEAN] /\ record'.rev = record.rev
      /\ ~record'.shared /\ record'.present = record.present
    BY <1>1, <1>2
<1>4. record.rev <= record'.rev
    BY <1>1, <1>3, SlotsAssumption DEF Revs
<1> QED
    BY <1>2, <1>3, <1>4, Overtaken

\* Steps that leave all requests where they are.
LEMMA StillStep ==
  ASSUME Inv, UNCHANGED <<kind, record, flights, refreshes, preps, req>>,
         source' \in Nat, fetched' \in Nat, outputs' \in [Keys -> Outputs \cup {None}]
  PROVE  Inv'
<1>1. TypeOK'
    BY DEF Inv, TypeOK
<1>2. \A w \in Requests : Sound(req[w], record, kind)'
    BY DEF Inv
<1>3. Leased' /\ Led' /\ Refreshed'
    BY DEF Inv, Leased, Led, Refreshed, Holders, Works, Refreshes, At, Key, Prep, Forced
<1> QED
    BY <1>1, <1>2, <1>3 DEF Inv

LEMMA AgeStep ==
  ASSUME Inv, NEW k \in Keys, Age(k)
  PROVE  Inv'
<1>1. outputs[k] \in Outputs
    BY DEF Inv, TypeOK, Age
<1>2. [outputs[k] EXCEPT !.fresh = FALSE] \in Outputs
    BY <1>1 DEF Outputs
<1>3. outputs' \in [Keys -> Outputs \cup {None}]
    BY <1>2 DEF Inv, TypeOK, Age
<1>4. source' \in Nat /\ fetched' \in Nat /\ UNCHANGED <<kind, record, flights, refreshes, preps, req>>
    BY DEF Inv, TypeOK, Age
<1> QED
    BY <1>3, <1>4, StillStep

-----------------------------------------------------------------------------
(* The invariant.                                                            *)

LEMMA InitInv == Init => Inv
<1> SUFFICES ASSUME Init PROVE Inv
    OBVIOUS
<1>1. /\ kind \in Kinds /\ record = [present |-> TRUE, rev |-> 0, shared |-> TRUE]
      /\ source = 1 /\ fetched = 1 /\ refreshes = {}
      /\ flights = [k \in Keys |-> None] /\ preps = [k \in PrepKeys |-> NoPrep] /\ req = [q \in Requests |-> Idle]
    BY DEF Init
<1>2. /\ Idle \in Progress /\ Idle.pc = "idle" /\ Idle.mode = "ordinary" /\ Idle.rev = 0 /\ ~Idle.slot /\ ~Idle.permit
      /\ ~Idle.lease /\ ~Idle.overtaken
    BY SlotsAssumption DEF Idle, Progress, Places, Revs, Contexts
<1>3. outputs \in [Keys -> Outputs \cup {None}]
    <2>1. PICK o \in {None, [nodes |-> 1, fresh |-> FALSE]} : outputs = [k \in Keys |-> IF k[1] = 0 THEN o ELSE None]
        BY DEF Init
    <2>2. [nodes |-> 1, fresh |-> FALSE] \in Outputs
        BY DEF Outputs
    <2> QED
        BY <2>1, <2>2
<1>4. record \in [present : BOOLEAN, rev : Revs, shared : BOOLEAN]
    BY <1>1, SlotsAssumption DEF Revs
<1>5. NoPrep \in Preps /\ NoPrep.state = "reading" /\ NoPrep.refs = 0
    BY DEF NoPrep, Preps
<1>6. TypeOK
    BY <1>1, <1>2, <1>3, <1>4, <1>5, KindsAssumption DEF TypeOK
<1>7. \A q \in Requests : Sound(req[q], record, kind)
    BY <1>1, <1>2 DEF Sound, Equipped, Watched, Supplied, Slotted, Refreshing, Permitted, Decided, Working
<1>8. Leased
    <2>1. \A k \in PrepKeys : Holders(k) = {} /\ preps[k].refs = 0
        BY <1>1, <1>2, <1>5 DEF Holders
    <2> QED
        BY <2>1, FS_EmptySet DEF Leased
<1>9. Led
    BY <1>1, <1>2 DEF Led, Works, Working, At
<1>10. Refreshed
    BY <1>1, <1>2 DEF Refreshed, Refreshes, InRefresh, At
<1> QED
    BY <1>6, <1>7, <1>8, <1>9, <1>10 DEF Inv

\* The steps that may change the caches of sources and outputs.
LEMMA ReadsTyped ==
  ASSUME Inv, NEW q, NEW v \in Nat, Reads(q, v)
  PROVE  fetched' \in Nat
BY DEF Inv, TypeOK, Reads

LEMMA RefreshReadStep ==
  ASSUME Inv, NEW q \in Requests, RefreshRead(q)
  PROVE  Inv'
<1>1. fetched' \in Nat
    BY ReadsTyped, ReadableNat DEF Inv, TypeOK, RefreshRead
<1>2. Calm(q)
    BY RefreshReadCalm DEF Inv
<1> QED
    BY <1>1, <1>2, CalmStep DEF Inv, TypeOK, RefreshRead, shared

LEMMA ProduceStep ==
  ASSUME Inv, NEW q \in Requests, Produce(q)
  PROVE  Inv'
<1>1. fetched' \in Nat
    <2>1. kind = "files" \/ req[q].nodes \in Nat
        BY DEF Inv, TypeOK, Sound, Supplied, Produce, At
    <2> QED
        BY <2>1, ReadsTyped, ReadableNat DEF Inv, TypeOK, Produce
<1>2. Calm(q)
    BY ProduceCalm DEF Inv
<1> QED
    BY <1>1, <1>2, CalmStep DEF Inv, TypeOK, Produce, shared

LEMMA StoreOutputStep ==
  ASSUME Inv, NEW q \in Requests, StoreOutput(q)
  PROVE  Inv'
<1>1. outputs' \in [Keys -> Outputs \cup {None}]
    <2>1. [nodes |-> req[q].nodes, fresh |-> TRUE] \in Outputs
        BY DEF Inv, TypeOK, Progress, Outputs
    <2> QED
        BY <2>1 DEF Inv, TypeOK, StoreOutput
<1>2. Calm(q)
    BY StoreOutputCalm DEF Inv
<1> QED
    BY <1>1, <1>2, CalmStep DEF Inv, TypeOK, StoreOutput

\* The steps that touch nothing but their request.
LEMMA OwnStep ==
  ASSUME Inv, NEW q \in Requests, Calm(q), UNCHANGED <<kind, record, source, fetched, shared>>
  PROVE  Inv'
BY CalmStep DEF Inv, TypeOK, shared

LEMMA StepKeeps ==
  ASSUME Inv, NEW q \in Requests, Step(q)
  PROVE  Inv'
<1>1. TypeOK /\ Sound(req[q], record, kind)
    BY DEF Inv
<1>2. ASSUME UNCHANGED <<env, shared>>, Calm(q) PROVE Inv'
    BY <1>2, OwnStep DEF env
<1>3. CASE TakePermit(q) \/ Lookup(q) \/ TakeSlot(q) \/ Enter(q) \/ Join(q)
    <2>1. UNCHANGED <<env, shared>>
        BY <1>3 DEF TakePermit, Lookup, TakeSlot, Enter, Join
    <2> QED
        BY <1>1, <1>2, <1>3, <2>1, TakePermitCalm, LookupCalm, TakeSlotCalm, EnterCalm, JoinCalm
<1>4. CASE CancelWait(q) \/ Joined(q) \/ Result(q) \/ Failure(q)
    <2>1. UNCHANGED <<env, shared>>
        BY <1>4 DEF CancelWait, Joined, Result, Failure
    <2> QED
        BY <1>1, <1>2, <1>4, <2>1, CancelWaitCalm, JoinedCalm, ResultCalm, FailureCalm
<1>5. CASE TakeSendPermit(q) \/ Stream(q) \/ RefreshNext(q) \/ CancelRefresh(q)
    <2>1. UNCHANGED <<env, shared>>
        BY <1>5 DEF TakeSendPermit, Stream, RefreshNext, CancelRefresh
    <2> QED
        BY <1>1, <1>2, <1>5, <2>1, TakeSendPermitCalm, StreamCalm, RefreshNextCalm, CancelRefreshCalm
<1>6. CASE Lead(q) \/ Read(q) \/ PrepareWait(q) \/ Finish(q)
    BY <1>6, LeadStep, ReadStep, PrepareWaitStep, FinishStep
<1>7. CASE Produce(q) \/ StoreOutput(q) \/ RefreshRead(q)
    BY <1>7, ProduceStep, StoreOutputStep, RefreshReadStep
<1>8. CASE StartRefresh(q) \/ RefreshDone(q)
    BY <1>8, StartRefreshStep, RefreshDoneStep
<1> QED
    BY <1>3, <1>4, <1>5, <1>6, <1>7, <1>8 DEF Step

LEMMA NextStep == Inv /\ [Next]_vars => Inv'
<1> SUFFICES ASSUME Inv, [Next]_vars PROVE Inv'
    OBVIOUS
<1>1. ASSUME NEW q \in Requests, Arrive(q) PROVE Inv'
    BY <1>1, ArriveCalm, OwnStep DEF Arrive, env, Inv
<1>2. ASSUME NEW q \in Requests, Step(q) PROVE Inv'
    BY <1>2, StepKeeps
<1>3. ASSUME NEW q \in Requests, Cancel(q) PROVE Inv'
    BY <1>3, CancelCalm, OwnStep DEF Cancel, Inv
<1>4. CASE Change \/ Delete \/ Revoke
    BY <1>4, ChangeStep, DeleteStep, RevokeStep
<1>5. CASE NewSource
    BY <1>5, StillStep DEF NewSource, shared, Inv, TypeOK
<1>6. ASSUME NEW k \in Keys, Age(k) PROVE Inv'
    BY <1>6, AgeStep
<1>7. CASE UNCHANGED vars
    BY <1>7, StillStep DEF vars, env, shared, Inv, TypeOK
<1> QED
    BY <1>1, <1>2, <1>3, <1>4, <1>5, <1>6, <1>7 DEF Next

\* The invariant holds in every state the exports reach.
THEOREM InvAlways == Spec => []Inv
BY InitInv, NextStep, PTL DEF Spec

-----------------------------------------------------------------------------
(* What the invariant says of the exports.                                   *)

\* Every variable has its type (records of the store, caches, flights, leases, requests).
THEOREM TypeCorrect == Spec => []TypeOK
BY InvAlways, PTL DEF Inv

\* prepare and release: nodes are kept exactly as long as a request with a slot has a lease, and
\* who waits for nodes waits for somebody who reads them.
THEOREM LeasesAreExact == Spec => []LeasesExact
<1>1. ASSUME Inv PROVE LeasesExact
    <2> SUFFICES ASSUME NEW k \in PrepKeys
                 PROVE  /\ preps[k].refs = Cardinality(Holders(k))
                        /\ \A q \in Holders(k) : req[q].slot /\ req[q].pc \in Working
                        /\ \A q \in Holders(k) : At(q, "prepwait") /\ preps[k].state = "reading" =>
                            \E o \in Holders(k) : At(o, "reading")
        BY DEF LeasesExact, Holders
    <2>1. \A q \in Holders(k) : req[q].slot /\ req[q].pc \in Working
        BY <1>1 DEF Inv, Sound, Equipped, Holders, Working, Slotted, Refreshing
    <2> QED
        BY <1>1, <2>1 DEF Inv, Leased
<1> QED
    BY <1>1, InvAlways, PTL

\* A set whose members are all equal.
LEMMA AtMostOne ==
  ASSUME NEW S, \A x, y \in S : x = y
  PROVE  Cardinality(S) = IF S = {} THEN 0 ELSE 1
<1>1. CASE S = {}
    BY <1>1, FS_EmptySet
<1>2. CASE S # {}
    <2>1. PICK x \in S : TRUE
        BY <1>2
    <2>2. S = {x}
        BY <2>1
    <2> QED
        BY <1>2, <2>2, FS_Singleton
<1> QED
    BY <1>1, <1>2

\* export and refreshResource: an output is converted by one request at a time, a record is
\* refreshed by one, and nobody waits for a conversion or a refresh that nobody makes.
THEOREM OneLeaderEach == Spec => []OneLeader
<1>1. ASSUME Inv PROVE OneLeader
    <2>1. ASSUME NEW k \in Keys
          PROVE  Cardinality({q \in Requests : req[q].pc \in Working /\ Key(q) = k})
                    = IF flights[k] = None THEN 0 ELSE 1
        <3> DEFINE S == {q \in Requests : req[q].pc \in Working /\ Key(q) = k}
        <3>1. (\A x, y \in S : x = y) /\ (S = {} <=> flights[k] = None)
            BY <1>1 DEF Inv, Led, Works
        <3> QED
            BY <3>1, AtMostOne
    <2>2. ASSUME NEW v \in refreshes
          PROVE  Cardinality({q \in Requests : req[q].mode = "refresh" /\ req[q].slot
                    /\ req[q].rev = v /\ req[q].pc \notin {"refresh", "refreshing"}}) = 1
        <3> DEFINE S == {q \in Requests : req[q].mode = "refresh" /\ req[q].slot
                            /\ req[q].rev = v /\ req[q].pc \notin {"refresh", "refreshing"}}
        <3>1. v \in Revs /\ S = {q \in Requests : Refreshes(q, v)}
            BY <1>1 DEF Inv, TypeOK, Refreshes, InRefresh
        <3>2. (\A x, y \in S : x = y) /\ S # {}
            BY <1>1, <3>1 DEF Inv, Refreshed
        <3> QED
            BY <3>2, AtMostOne
    <2> QED
        BY <1>1, <2>1, <2>2 DEF OneLeader, Inv, Led, Refreshed
<1> QED
    BY <1>1, InvAlways, PTL

\* handleExport: nobody is answered whose record was changed or deleted, or whose share was
\* revoked, while it waited; the checks after the last wait are enough.
THEOREM NobodyOvertaken == Spec => []NoneOvertaken
<1>1. Inv => NoneOvertaken
    BY DEF Inv, NoneOvertaken, Sound, Watched, Decided, At
<1> QED
    BY <1>1, InvAlways, PTL

\* export: a forced request takes no result before a forced request has read the source for it. Which
\* output it then finds in the cache is not said.
THEOREM ForcedIsRevalidated == Spec => []ForcedRevalidated
<1>1. Inv => ForcedRevalidated
    BY NoneAssumption DEF Inv, ForcedRevalidated, Sound, Supplied
<1> QED
    BY <1>1, InvAlways, PTL

-----------------------------------------------------------------------------
(* Progress.                                                                 *)

\* Everybody has what the next one in the chain waits for: a permit is not kept by one who
\* waits, a slot is kept by one who waits for a permit, a leader or a refresh; a leader waits
\* only for nodes, and who reads them waits for nobody.
LEMMA ChainEnds ==
  ASSUME Inv, NEW a \in Requests, req[a].pc \notin {"idle", "done"}
  PROVE  \E q \in Requests : Ready(q)
<1> SUFFICES ASSUME \A q \in Requests : ~Ready(q) PROVE FALSE
    OBVIOUS
<1>1. \A q \in Requests : /\ req[q] \in Progress /\ Sound(req[q], record, kind)
                          /\ req[q].pc \in {"idle", "done"} \/ Blocked(q)
    BY DEF Inv, TypeOK, Ready
<1>2. \A q \in Requests : req[q].pc \in {"idle", "done", "permit", "send", "queue", "prepwait", "wait", "refreshing"}
    BY <1>1 DEF Blocked, At
<1>3. \A q \in Requests : ~req[q].permit
    BY <1>1, <1>2 DEF Sound, Equipped, Permitted
<1>4. \A q \in Requests : req[q].pc \notin {"permit", "send"}
    <2>1. {q \in Requests : req[q]["permit"]} = {}
        BY <1>3
    <2>2. Free("permit", ReadSlots)
        BY <2>1, SlotsAssumption, FS_EmptySet DEF Free
    <2> QED
        BY <1>1, <2>2 DEF Blocked, At
\* Nodes are read.
<1>5. \A q \in Requests : ~At(q, "prepwait")
    <2> SUFFICES ASSUME NEW q \in Requests, At(q, "prepwait") PROVE FALSE
        OBVIOUS
    <2>1. req[q].lease /\ preps[Prep(q)].state = "reading" /\ Prep(q) \in PrepKeys
        BY <1>1, PrepsTyped DEF Inv, At, Sound, Equipped, Blocked
    <2>2. q \in Holders(Prep(q))
        BY <2>1 DEF Holders
    <2>3. PICK o \in Holders(Prep(q)) : At(o, "reading")
        BY <2>1, <2>2 DEF Inv, Leased
    <2> QED
        BY <1>2, <2>3 DEF At, Holders
\* Leaders work.
<1>6. \A q \in Requests : ~At(q, "wait")
    <2> SUFFICES ASSUME NEW q \in Requests, At(q, "wait") PROVE FALSE
        OBVIOUS
    <2>1. req[q].target \in Targets
        BY <1>1 DEF At, Sound, Equipped
    <2>2. Key(q) \in Keys /\ flights[Key(q)] # None
        BY <2>1, KeysTyped DEF Inv, Led
    <2>3. PICK o \in Requests : Works(o, Key(q))
        BY <2>2 DEF Inv, Led
    <2> QED
        BY <1>2, <1>5, <2>3 DEF Works, Working, At
\* Refreshes go on.
<1>7. \A q \in Requests : ~At(q, "refreshing")
    <2> SUFFICES ASSUME NEW q \in Requests, At(q, "refreshing") PROVE FALSE
        OBVIOUS
    <2>1. req[q].rev \in Revs /\ req[q].rev \in refreshes
        BY <1>1 DEF Inv, Refreshed, Progress
    <2>2. PICK o \in Requests : Refreshes(o, req[q].rev)
        BY <2>1 DEF Inv, Refreshed
    <2>3. req[o].pc \in Slotted \ {"refresh", "refreshing"}
        BY <1>1, <2>2 DEF Refreshes, InRefresh, Sound, Equipped
    <2> QED
        BY <1>2, <1>4, <1>5, <1>6, <2>3 DEF Slotted, Refreshing, At
\* So there is a free slot.
<1>8. \A q \in Requests : req[q].pc \in {"idle", "done", "queue"} /\ ~req[q].slot
    BY <1>1, <1>2, <1>4, <1>5, <1>6, <1>7 DEF At, Sound, Equipped, Slotted, Refreshing
<1>9. Free("slot", Slots)
    <2>1. {q \in Requests : req[q]["slot"]} = {}
        BY <1>8
    <2> QED
        BY <2>1, SlotsAssumption, FS_EmptySet DEF Free
<1> QED
    BY <1>1, <1>8, <1>9 DEF Blocked, At

\* handleExport, export and prepare: requests never all wait for each other's permits, slots,
\* conversions, nodes or refreshes, however few permits and slots there are.
THEOREM SomebodyIsReady == Spec => []SomebodyReady
<1>1. Inv => SomebodyReady
    BY ChainEnds DEF SomebodyReady
<1> QED
    BY <1>1, InvAlways, PTL
=============================================================================
