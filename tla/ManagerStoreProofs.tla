------------------------- MODULE ManagerStoreProofs -------------------------
(***************************************************************************)
(* Proofs about ManagerStore: that it implements ResourceMap, that memory  *)
(* and disk agree, and that what is replaced can be had back, for any      *)
(* number of clients, documents, generations and snapshots.                *)
(***************************************************************************)
EXTENDS ManagerStore, FiniteSetTheorems, NaturalsInduction, TLAPS

-----------------------------------------------------------------------------
(* The invariant.                                                            *)

Saving  == {"snapshot", "rename", "trim", "commit"}
Holding == {"put", "remove", "sync", "retire"} \cup Saving
Places  == {"idle", "staged", "done", "refused"} \cup Holding

Types ==
    /\ files \in [Dirs -> Contents \cup {NoDir}] /\ active \in Dirs /\ dir \in Dirs
    /\ old \in Dirs \cup {NoDir} /\ \A b \in backups : b.docs \in Archive /\ b.name \in 1..taken
    /\ up \in BOOLEAN /\ index \in Contents
    /\ pc \in [Clients -> Places] /\ request \in [Clients -> Map!Requests \cup {"none"}]
    /\ put \in [Clients -> Put \cup {NoPut}] /\ stage \in [Clients -> Gens \cup {NoDir}]
    /\ view \in [Clients -> Put \cup {NoView}]
    /\ now \in Nat /\ taken \in Nat

\* Store.mu has one holder, and nobody does anything while the process is down.
Locked ==
    /\ \A c, d \in Clients : pc[c] \in Holding /\ pc[d] \in Holding => c = d
    /\ ~up => \A c \in Clients : pc[c] = "idle"

\* What each request has at hand.
Equipped ==
    \A c \in Clients :
        /\ pc[c] = "put"    => put[c] # NoPut /\ request[c] \in {"create", "edit", "share"}
        /\ pc[c] = "remove" => put[c] # NoPut /\ request[c] = "delete"
        /\ pc[c] = "staged" => request[c] = "restore"
        /\ pc[c] \in Saving => request[c] \in {"snapshot", "restore", "replace"}
        /\ pc[c] = "commit" => request[c] # "snapshot"
        /\ pc[c] = "sync"   => request[c] \in {"restore", "replace"}
        /\ stage[c] # NoDir <=> (pc[c] \in {"staged", "sync"} \/ (pc[c] \in Saving /\ request[c] # "snapshot"))
        /\ put[c] # NoPut => pc[c] \in {"put", "remove"}
        /\ pc[c] \in {"done", "refused", "retire"} => view[c] = NoView

\* Directories in use exist, and none is used for two things.
Separate ==
    /\ up => files[active] # NoDir /\ dir = active /\ index = files[dir]
    /\ old # NoDir <=> \E c \in Clients : pc[c] \in {"sync", "retire"}
    /\ old # NoDir => old # active /\ files[old] # NoDir
    /\ \A c \in Clients : stage[c] # NoDir =>
        /\ files[stage[c]] # NoDir /\ stage[c] # old
        /\ stage[c] = active <=> pc[c] = "sync"
        /\ \A d \in Clients \ {c} : stage[d] # stage[c]

Revs(m) == {m[i].rev : i \in Present(m)}

\* Revisions are times, and what an archive gives back has a revision of its own.
Dated ==
    /\ \A g \in Dirs : files[g] # NoDir => \A t \in Revs(files[g]) : t <= now
    /\ \A c \in Clients : put[c] # NoPut => put[c].doc.rev <= now
    /\ \A c \in Clients : pc[c] = "staged" => \A t \in Revs(files[stage[c]]) :
        /\ t \notin Revs(files[active])
        /\ \A d \in Clients \ {c} : /\ stage[d] # NoDir => t \notin Revs(files[stage[d]])
                                    /\ put[d] # NoPut => t # put[d].doc.rev

\* Whoever holds the lock is about to make the change it was asked for.
Prepared ==
    \A c \in Clients :
        /\ pc[c] = "put" =>
               Map!Change(request[c], view[c], files[active], [files[active] EXCEPT ![put[c].id] = put[c].doc])
        /\ pc[c] = "remove" =>
               Map!Change(request[c], view[c], files[active], [files[active] EXCEPT ![put[c].id] = NoDoc])
        /\ pc[c] \in Saving /\ request[c] # "snapshot" =>
               Map!Change(request[c], view[c], files[active], files[stage[c]])
        /\ pc[c] = "sync" => Map!Change(request[c], view[c], files[old], files[active])

\* The safety snapshot.
Saved ==
    \A c \in Clients :
        /\ pc[c] = "trim" => \E b \in backups : /\ b.name = taken /\ b.docs = Strip(files[active])
                                                /\ \A o \in backups : o.name = taken => o = b
        /\ pc[c] = "commit" => \E b \in backups : b.docs = Strip(files[active])

Inv == Types /\ Locked /\ Equipped /\ Separate /\ Dated /\ Prepared /\ Saved

\* What a crash may bring back is not in use.
AtRisk ==
    /\ former \subseteq Dirs /\ (~up => former = {})
    /\ active \notin former /\ \A c \in Clients : stage[c] \notin former

-----------------------------------------------------------------------------
(* Documents.                                                                *)

LEMMA NotDir == \A m \in Contents : m # NoDir
BY DirsAssumption

LEMMA StripType ==
  ASSUME NEW m \in Contents
  PROVE  Strip(m) \in Archive
<1>1. ASSUME NEW i \in Ids
      PROVE  (IF m[i] = NoDoc THEN NoDoc ELSE [body |-> m[i].body, share |-> m[i].share]) \in Record \cup {NoDoc}
    BY DEF Contents, Doc, Record
<1> QED
    BY <1>1 DEF Strip, Archive

\* What an archive gives back has one revision.
LEMMA StampType ==
  ASSUME NEW a \in Archive, NEW t \in Nat
  PROVE  Stamp(a, t) \in Contents /\ Revs(Stamp(a, t)) \subseteq {t}
<1> DEFINE d(i) == IF a[i] = NoDoc THEN NoDoc ELSE [body |-> a[i].body, rev |-> t, share |-> a[i].share]
<1>1. ASSUME NEW i \in Ids PROVE d(i) \in Doc \cup {NoDoc} /\ (d(i) # NoDoc => d(i).rev = t)
    BY DEF Archive, Doc, Record
<1>2. Stamp(a, t) = [i \in Ids |-> d(i)]
    BY DEF Stamp
<1> HIDE DEF d
<1> QED
    BY <1>1, <1>2 DEF Contents, Revs, Present

\* A replaced collection has old revisions and a new one.
LEMMA ReplacementType ==
  ASSUME NEW k, NEW B \in SUBSET Bodies, NEW f, Documents \in Contents, index = Documents, now \in Nat
  PROVE  /\ Replacement(k, B, f) \in Contents
         /\ Revs(Replacement(k, B, f)) \subseteq Revs(Documents) \cup {now + 1}
<1> DEFINE body(i) == CHOOSE b \in B : f[b] = i
           new(i)  == [body |-> body(i), rev |-> now + 1,
                       share |-> IF index[i] = NoDoc THEN NoToken ELSE Documents[i].share]
           m       == Replacement(k, B, f)
<1>1. ASSUME NEW i \in Ids
      PROVE  /\ m[i] \in Doc \cup {NoDoc}
             /\ m[i] # NoDoc => m[i].rev = now + 1 \/ m[i] = Documents[i]
    <2>1. Documents[i] \in Doc \cup {NoDoc}
        BY DEF Contents
    <2>2. CASE KindOf[i] # k
        BY <2>1, <2>2 DEF Replacement
    <2>3. CASE KindOf[i] = k /\ \E b \in B : f[b] = i
        <3>1. m[i] = new(i)
            BY <2>3 DEF Replacement
        <3>2. body(i) \in Bodies
            BY <2>3
        <3> HIDE DEF body
        <3>3. new(i) \in Doc /\ new(i).rev = now + 1
            BY <2>1, <3>2 DEF Doc
        <3> QED
            BY <3>1, <3>3
    <2>4. CASE KindOf[i] = k /\ ~\E b \in B : f[b] = i
        BY <2>4 DEF Replacement
    <2> QED
        BY <2>2, <2>3, <2>4
<1>2. m = [i \in Ids |-> m[i]]
    BY DEF Replacement
<1> HIDE DEF m
<1>3. m \in Contents
    BY <1>1, <1>2 DEF Contents
<1>4. Revs(m) \subseteq Revs(Documents) \cup {now + 1}
    BY <1>1 DEF Revs, Present
<1> QED
    BY <1>3, <1>4 DEF m

-----------------------------------------------------------------------------
(* The steps, by what they change.                                           *)

\* One client has the lock.
LEMMA Alone ==
  ASSUME Locked, NEW c \in Clients, pc[c] \in Holding
  PROVE  \A d \in Clients \ {c} : pc[d] \notin Holding
BY DEF Locked

\* Nobody has it.
LEMMA Nobody ==
  ASSUME Types, MuFree
  PROVE  \A d \in Clients : pc[d] \notin Holding
BY DEF MuFree, Types, Holding, Saving

LEMMA RevsType ==
  ASSUME Types
  PROVE  \A g \in Dirs : files[g] # NoDir => Revs(files[g]) \subseteq Nat
BY DEF Types, Contents, Revs, Present, Doc

\* Only the version of an idle client, or something else that the invariant does not look at, changes.
LEMMA QuietStep ==
  ASSUME Inv, UNCHANGED <<files, active, backups, up, dir, index, old, pc, request, put, stage, now, taken>>,
         view' = view \/ \E c \in Clients, v \in Put \cup {NoView} : pc[c] = "idle" /\ view' = [view EXCEPT ![c] = v]
  PROVE  Inv'
<1>1. view' \in [Clients -> Put \cup {NoView}] /\ \A c \in Clients : pc[c] # "idle" => view'[c] = view[c]
    BY DEF Inv, Types
<1>2. Types'
    BY <1>1 DEF Inv, Types
<1>3. Locked'
    BY DEF Inv, Locked
<1>4. Equipped'
    BY <1>1 DEF Inv, Equipped, Types
<1>5. Separate'
    BY DEF Inv, Separate
<1>6. Dated'
    BY DEF Inv, Dated
<1>7. Prepared'
    BY <1>1 DEF Inv, Prepared, Saving
<1>8. Saved'
    BY DEF Inv, Saved
<1> QED
    BY <1>2, <1>3, <1>4, <1>5, <1>6, <1>7, <1>8 DEF Inv

\* A client takes the lock to write or remove document i.
LEMMA TakeStep ==
  ASSUME Inv, NEW c \in Clients, up, MuFree, pc[c] = "idle",
         NEW p \in {"put", "remove"}, NEW r \in {"create", "edit", "share", "delete"}, r = "delete" <=> p = "remove",
         NEW i \in Ids, NEW d \in Doc,
         pc' = [pc EXCEPT ![c] = p], request' = [request EXCEPT ![c] = r],
         put' = [put EXCEPT ![c] = [id |-> i, doc |-> d]],
         UNCHANGED <<files, active, backups, up, dir, index, old, stage, view, taken>>,
         now' \in Nat, now' >= now, (d.rev = now + 1 /\ now' = now + 1) \/ d.rev \in Revs(files[active]),
         Map!Change(r, view[c], files[active], [files[active] EXCEPT ![i] = IF p = "put" THEN d ELSE NoDoc])
  PROVE  Inv'
<1>0. /\ \A e \in Clients : pc[e] \notin Holding
      /\ pc'[c] = p /\ request'[c] = r /\ put'[c] = [id |-> i, doc |-> d] /\ put'[c] # NoPut
      /\ \A e \in Clients \ {c} : pc'[e] = pc[e] /\ request'[e] = request[e] /\ put'[e] = put[e]
      /\ [id |-> i, doc |-> d] \in Put
    BY Nobody, NamesAssumption DEF Inv, Types, Put
<1>1. Types'
    BY <1>0 DEF Inv, Types, Places, Holding, Map!Requests
<1>2. Locked'
    BY <1>0 DEF Inv, Locked
<1>3. Equipped'
    BY <1>0 DEF Inv, Equipped, Saving
<1>4. Separate'
    BY <1>0 DEF Inv, Separate
<1>5. Dated'
    <2>1. \A g \in Dirs : files'[g] # NoDir => \A t \in Revs(files'[g]) : t <= now'
        BY RevsType DEF Inv, Dated, Types
    <2>2. d.rev <= now'
        BY DEF Inv, Dated, Types, Separate, Doc
    <2>3. \A e \in Clients : put'[e] # NoPut => put'[e].doc.rev <= now'
        BY <1>0, <2>2 DEF Inv, Dated, Types, Put, Doc
    <2>4. ASSUME NEW e \in Clients, pc'[e] = "staged", NEW t \in Revs(files[stage[e]])
          PROVE  /\ t \notin Revs(files[active])
                 /\ \A b \in Clients \ {e} : /\ stage[b] # NoDir => t \notin Revs(files[stage[b]])
                                             /\ put'[b] # NoPut => t # put'[b].doc.rev
        <3>1. e # c /\ pc[e] = "staged"
            BY <1>0, <2>4
        <3>2. t \in Nat /\ t <= now /\ now \in Nat
            BY <3>1, RevsType DEF Inv, Dated, Types, Equipped, Separate, Dirs
        <3>3. t # d.rev
            BY <2>4, <3>1, <3>2 DEF Inv, Dated
        <3> QED
            BY <1>0, <2>4, <3>1, <3>3 DEF Inv, Dated
    <2> QED
        BY <2>1, <2>3, <2>4 DEF Dated
<1>6. Prepared'
    BY <1>0 DEF Inv, Prepared, Saving, Holding
<1>7. Saved'
    BY <1>0 DEF Inv, Saved
<1> QED
    BY <1>1, <1>2, <1>3, <1>4, <1>5, <1>6, <1>7 DEF Inv

\* What a request leaves behind when it ends at pc[c] = p.
LEMMA EndFacts ==
  ASSUME Types, NEW c \in Clients, NEW p \in Places, Go(c, p), Forget(c)
  PROVE  /\ pc' \in [Clients -> Places] /\ request' \in [Clients -> Map!Requests \cup {"none"}]
         /\ put' \in [Clients -> Put \cup {NoPut}] /\ view' \in [Clients -> Put \cup {NoView}]
         /\ pc'[c] = p /\ request'[c] = "none" /\ put'[c] = NoPut /\ view'[c] = NoView
         /\ \A d \in Clients \ {c} : /\ pc'[d] = pc[d] /\ request'[d] = request[d]
                                    /\ put'[d] = put[d] /\ view'[d] = view[d]
BY DEF Types, Go, Forget

\* A document is written or removed, or it has failed.
LEMMA PublishStep ==
  ASSUME Inv, NEW c \in Clients, Publish(c)
  PROVE  Inv'
<1> DEFINE i == put[c].id
           d == IF pc[c] = "put" THEN put[c].doc ELSE NoDoc
<1>1. pc[c] \in {"put", "remove"} /\ put[c] # NoPut /\ stage[c] = NoDir /\ put[c] \in Put
    BY DEF Publish, Inv, Equipped, Types, Saving
<1>2. /\ i \in Ids /\ d \in Doc \cup {NoDoc} /\ (d # NoDoc => d = put[c].doc)
    BY <1>1 DEF Put
<1>3. up /\ dir = active /\ index = files[active] /\ files[active] \in Contents
    BY <1>1 DEF Inv, Locked, Separate, Types
<1>4. /\ Forget(c) /\ (Go(c, "done") \/ Go(c, "refused"))
      /\ UNCHANGED <<active, backups, checkpoint, up, dir, pins, old, stage, now, taken>>
      /\ \/ UNCHANGED <<files, index>>
         \/ /\ files' = [files EXCEPT ![active] = [files[active] EXCEPT ![i] = d]]
            /\ index' = [index EXCEPT ![i] = d]
    BY <1>3 DEF Publish, Documents
<1> HIDE DEF d, i
<1> DEFINE m == [files[active] EXCEPT ![i] = d]
<1>5. /\ files' \in [Dirs -> Contents \cup {NoDir}] /\ index' \in Contents
      /\ files'[active] \in Contents /\ files'[active] # NoDir /\ index' = files'[active]
      /\ \A g \in Dirs \ {active} : files'[g] = files[g]
      /\ \A t \in Revs(files'[active]) : t \in Revs(files[active]) \/ t = put[c].doc.rev
    <2>1. m \in Contents /\ m # NoDir
        BY <1>2, <1>3, NotDir DEF Contents
    <2>2. \A t \in Revs(m) : t \in Revs(files[active]) \/ t = put[c].doc.rev
        BY <1>2, <1>3 DEF Revs, Present, Contents
    <2> HIDE DEF m
    <2>3. CASE UNCHANGED <<files, index>>
        BY <1>3, <2>3, NotDir DEF Inv, Types
    <2>4. CASE files' = [files EXCEPT ![active] = m] /\ index' = m
        BY <2>1, <2>2, <2>4 DEF Inv, Types
    <2> QED
        BY <1>3, <1>4, <2>3, <2>4 DEF m
<1>6. PICK p \in {"done", "refused"} : Go(c, p)
    BY <1>4
<1>7. /\ pc' \in [Clients -> Places] /\ request' \in [Clients -> Map!Requests \cup {"none"}]
      /\ put' \in [Clients -> Put \cup {NoPut}] /\ view' \in [Clients -> Put \cup {NoView}]
      /\ pc'[c] = p /\ request'[c] = "none" /\ put'[c] = NoPut /\ view'[c] = NoView
      /\ \A e \in Clients \ {c} : /\ pc'[e] = pc[e] /\ request'[e] = request[e]
                                 /\ put'[e] = put[e] /\ view'[e] = view[e]
    BY <1>4, <1>6, EndFacts DEF Inv, Places
<1>8. \A e \in Clients \ {c} : pc[e] \notin Holding
    BY <1>1, Alone DEF Inv, Holding
<1>9. /\ active' = active /\ active \in Dirs /\ old' = old /\ old = NoDir
      /\ \A e \in Clients : stage'[e] = stage[e] /\ (stage[e] # NoDir => e # c /\ stage[e] # active /\ stage[e] \in Dirs)
    BY <1>1, <1>4, <1>8 DEF Inv, Types, Separate, Holding, Dirs
<1>10. Types'
    BY <1>4, <1>5, <1>7 DEF Inv, Types
<1>11. Locked'
    BY <1>3, <1>4, <1>7, <1>8 DEF Inv, Locked, Holding, Saving
<1>12. Equipped'
    BY <1>1, <1>7, <1>9 DEF Inv, Equipped, Saving
<1>13. Separate'
    BY <1>3, <1>4, <1>5, <1>7, <1>9 DEF Inv, Separate
<1>14. Dated'
    <2>1. \A t \in Revs(files'[active]) : t <= now
        BY <1>1, <1>3, <1>5, <1>9, NotDir DEF Inv, Dated
    <2>2. \A g \in Dirs : files'[g] # NoDir => \A t \in Revs(files'[g]) : t <= now'
        BY <1>4, <1>5, <2>1 DEF Inv, Dated
    <2>3. \A e \in Clients : put'[e] # NoPut => put'[e].doc.rev <= now'
        BY <1>4, <1>7 DEF Inv, Dated
    <2>4. ASSUME NEW e \in Clients, pc'[e] = "staged", NEW t \in Revs(files'[stage[e]])
          PROVE  /\ t \notin Revs(files'[active])
                 /\ \A b \in Clients \ {e} : /\ stage[b] # NoDir => t \notin Revs(files'[stage[b]])
                                             /\ put'[b] # NoPut => t # put'[b].doc.rev
        <3>1. e # c /\ pc[e] = "staged" /\ stage[e] # NoDir
            BY <1>6, <1>7, <2>4 DEF Inv, Equipped
        <3>2. files'[stage[e]] = files[stage[e]] /\ \A b \in Clients : stage[b] # NoDir => files'[stage[b]] = files[stage[b]]
            BY <1>5, <1>9, <3>1
        <3>3. t \notin Revs(files'[active])
            BY <1>1, <1>5, <2>4, <3>1, <3>2 DEF Inv, Dated
        <3>4. ASSUME NEW b \in Clients \ {e}
              PROVE  /\ stage[b] # NoDir => t \notin Revs(files'[stage[b]])
                     /\ put'[b] # NoPut => t # put'[b].doc.rev
            <4>1. t \in Revs(files[stage[e]])
                BY <2>4, <3>1, <3>2
            <4>2. /\ stage[b] # NoDir => t \notin Revs(files[stage[b]])
                  /\ put[b] # NoPut => t # put[b].doc.rev
                BY <3>1, <4>1 DEF Inv, Dated
            <4> QED
                BY <1>7, <3>2, <4>2
        <3> QED
            BY <3>3, <3>4
    <2> QED
        BY <1>4, <2>2, <2>3, <2>4 DEF Dated
<1>15. Prepared'
    BY <1>6, <1>7, <1>8 DEF Prepared, Holding, Saving
<1>16. Saved'
    BY <1>6, <1>7, <1>8 DEF Saved, Holding, Saving
<1> QED
    BY <1>10, <1>11, <1>12, <1>13, <1>14, <1>15, <1>16 DEF Inv

\* A snapshot fails, and with it the restore or the replacement.
LEMMA CancelStep ==
  ASSUME Inv, NEW c \in Clients, pc[c] \in Saving, Cancel(c),
         UNCHANGED <<active, backups, up, dir, index, old, now, taken>>
  PROVE  Inv'
<1>1. /\ pc[c] \in Holding /\ pc[c] \notin {"idle", "sync", "retire"} /\ up
      /\ put[c] = NoPut
    BY DEF Inv, Locked, Equipped, Holding, Saving
<1>2. /\ pc' \in [Clients -> Places] /\ request' \in [Clients -> Map!Requests \cup {"none"}]
      /\ put' \in [Clients -> Put \cup {NoPut}] /\ view' \in [Clients -> Put \cup {NoView}]
      /\ pc'[c] = "refused" /\ request'[c] = "none" /\ put'[c] = NoPut /\ view'[c] = NoView
      /\ \A e \in Clients \ {c} : /\ pc'[e] = pc[e] /\ request'[e] = request[e]
                                 /\ put'[e] = put[e] /\ view'[e] = view[e]
    BY EndFacts DEF Inv, Cancel, Places
<1>3. \A e \in Clients \ {c} : pc[e] \notin Holding
    BY <1>1, Alone DEF Inv
<1>4. /\ stage' \in [Clients -> Gens \cup {NoDir}] /\ stage'[c] = NoDir
      /\ \A e \in Clients \ {c} : stage'[e] = stage[e]
      /\ old = NoDir /\ active \in Dirs /\ stage[c] # active
    <2>1. stage' = [stage EXCEPT ![c] = NoDir] /\ stage \in [Clients -> Gens \cup {NoDir}] /\ active \in Dirs
        BY DEF Inv, Types, Cancel
    <2>2. old = NoDir
        BY <1>1, <1>3 DEF Inv, Separate, Holding
    <2>3. stage[c] # active
        BY <1>1, <2>1, DirsAssumption DEF Inv, Separate
    <2> QED
        BY <2>1, <2>2, <2>3
<1>5. /\ files' \in [Dirs -> Contents \cup {NoDir}]
      /\ files'[active] = files[active]
      /\ \A g \in Dirs : files'[g] \in {files[g], NoDir} /\ (g # stage[c] => files'[g] = files[g])
      /\ \A e \in Clients \ {c} : stage[e] # NoDir => stage[e] \in Dirs /\ files'[stage[e]] = files[stage[e]]
    BY <1>4 DEF Inv, Types, Cancel, Separate, Dirs
<1>6. Types'
    BY <1>2, <1>4, <1>5 DEF Inv, Types
<1>7. Locked'
    BY <1>1, <1>2, <1>3 DEF Inv, Locked, Holding, Saving
<1>8. Equipped'
    BY <1>2, <1>4 DEF Inv, Equipped, Saving
<1>9. Separate'
    BY <1>1, <1>2, <1>4, <1>5 DEF Inv, Separate
<1>10. Dated'
    <2>1. ASSUME NEW g \in Dirs, files'[g] # NoDir PROVE \A t \in Revs(files'[g]) : t <= now'
        BY <1>5, <2>1 DEF Inv, Dated
    <2>2. ASSUME NEW e \in Clients, put'[e] # NoPut PROVE put'[e].doc.rev <= now'
        BY <1>2, <2>2 DEF Inv, Dated
    <2>3. ASSUME NEW e \in Clients, pc'[e] = "staged", NEW t \in Revs(files'[stage'[e]])
          PROVE  /\ t \notin Revs(files'[active'])
                 /\ \A d \in Clients \ {e} : /\ stage'[d] # NoDir => t \notin Revs(files'[stage'[d]])
                                             /\ put'[d] # NoPut => t # put'[d].doc.rev
        <3>1. e # c /\ pc[e] = "staged" /\ stage[e] # NoDir /\ stage'[e] = stage[e]
            BY <1>2, <1>4, <2>3 DEF Inv, Equipped
        <3>2. t \in Revs(files[stage[e]])
            BY <1>5, <2>3, <3>1
        <3>3. t \notin Revs(files'[active'])
            BY <1>5, <3>1, <3>2 DEF Inv, Dated
        <3>4. ASSUME NEW d \in Clients \ {e}
              PROVE  /\ stage'[d] # NoDir => t \notin Revs(files'[stage'[d]])
                     /\ put'[d] # NoPut => t # put'[d].doc.rev
            <4>1. /\ stage[d] # NoDir => t \notin Revs(files[stage[d]])
                  /\ put[d] # NoPut => t # put[d].doc.rev
                BY <3>1, <3>2 DEF Inv, Dated
            <4> QED
                BY <1>2, <1>4, <1>5, <4>1
        <3> QED
            BY <3>3, <3>4
    <2> QED
        BY <2>1, <2>2, <2>3 DEF Dated
<1>11. Prepared'
    BY <1>2, <1>3 DEF Prepared, Holding, Saving
<1>12. Saved'
    BY <1>2, <1>3 DEF Saved, Holding, Saving
<1> QED
    BY <1>6, <1>7, <1>8, <1>9, <1>10, <1>11, <1>12 DEF Inv

\* The snapshot of c in backups' is that of now.
Secured(c, p) ==
    /\ p = "trim" => \E b \in backups' : /\ b.name = taken' /\ b.docs = Strip(files[active])
                                         /\ \A o \in backups' : o.name = taken' => o = b
    /\ p = "commit" => \E b \in backups' : b.docs = Strip(files[active])

\* A snapshot goes on.
LEMMA ProceedStep ==
  ASSUME Inv, NEW c \in Clients, pc[c] \in Saving, NEW p \in Saving, Go(c, p),
         UNCHANGED <<files, active, up, dir, index, old, request, put, stage, view, now>>,
         taken' \in Nat, \A b \in backups' : b.docs \in Archive /\ b.name \in 1..taken',
         p = "commit" => request[c] # "snapshot", Secured(c, p)
  PROVE  Inv'
<1>1. /\ pc[c] \in Holding /\ up /\ p \in Places /\ p \in Holding
      /\ pc[c] \notin {"idle", "staged", "put", "remove", "sync", "retire", "done", "refused"}
      /\ p \notin {"idle", "staged", "put", "remove", "sync", "retire", "done", "refused"}
    BY DEF Inv, Locked, Holding, Saving, Places
<1>2. /\ pc' \in [Clients -> Places] /\ pc'[c] = p
      /\ \A e \in Clients \ {c} : pc'[e] = pc[e] /\ pc[e] \notin Holding
    BY <1>1, Alone DEF Inv, Types, Go
<1>3. Types'
    BY <1>2 DEF Inv, Types
<1>4. Locked'
    BY <1>1, <1>2 DEF Inv, Locked
<1>5. Equipped'
    BY <1>1, <1>2 DEF Inv, Equipped
<1>6. Separate'
    <2>1. \A e \in Clients : pc'[e] \in {"sync", "retire"} <=> pc[e] \in {"sync", "retire"}
        BY <1>1, <1>2
    <2>2. \A e \in Clients : pc'[e] = "sync" <=> pc[e] = "sync"
        BY <1>1, <1>2
    <2> QED
        BY <2>1, <2>2 DEF Inv, Separate
<1>7. Dated'
    BY <1>1, <1>2 DEF Inv, Dated
<1>8. Prepared'
    BY <1>1, <1>2 DEF Inv, Prepared, Holding
<1>9. Saved'
    BY <1>1, <1>2 DEF Saved, Secured, Holding, Saving
<1> QED
    BY <1>3, <1>4, <1>5, <1>6, <1>7, <1>8, <1>9 DEF Inv

\* A request ends whose snapshot was all it wanted.
LEMMA FinishStep ==
  ASSUME Inv, NEW c \in Clients, pc[c] \in Saving, request[c] = "snapshot", Go(c, "done"), Forget(c),
         UNCHANGED <<files, active, backups, up, dir, index, old, stage, now, taken>>
  PROVE  Inv'
<1>1. /\ pc[c] \in Holding /\ up /\ stage[c] = NoDir
      /\ pc[c] \notin {"idle", "staged", "put", "remove", "sync", "retire", "done", "refused"}
    BY DEF Inv, Locked, Equipped, Holding, Saving
<1>2. /\ pc' \in [Clients -> Places] /\ request' \in [Clients -> Map!Requests \cup {"none"}]
      /\ put' \in [Clients -> Put \cup {NoPut}] /\ view' \in [Clients -> Put \cup {NoView}]
      /\ pc'[c] = "done" /\ request'[c] = "none" /\ put'[c] = NoPut /\ view'[c] = NoView
      /\ \A e \in Clients \ {c} : /\ pc'[e] = pc[e] /\ request'[e] = request[e]
                                 /\ put'[e] = put[e] /\ view'[e] = view[e]
    BY EndFacts DEF Inv, Places
<1>3. \A e \in Clients \ {c} : pc[e] \notin Holding
    BY <1>1, Alone DEF Inv
<1>4. Types'
    BY <1>2 DEF Inv, Types
<1>5. Locked'
    BY <1>1, <1>2, <1>3 DEF Inv, Locked, Holding, Saving
<1>6. Equipped'
    BY <1>1, <1>2 DEF Inv, Equipped, Saving
<1>7. Separate'
    BY <1>1, <1>2 DEF Inv, Separate
<1>8. Dated'
    <2>1. \A e \in Clients : /\ put'[e] # NoPut => put'[e] = put[e] /\ put[e] # NoPut
                             /\ pc'[e] = "staged" => pc[e] = "staged"
        BY <1>2
    <2> QED
        BY <2>1 DEF Inv, Dated
<1>9. Prepared'
    BY <1>2, <1>3 DEF Prepared, Holding, Saving
<1>10. Saved'
    BY <1>2, <1>3 DEF Saved, Holding, Saving
<1> QED
    BY <1>4, <1>5, <1>6, <1>7, <1>8, <1>9, <1>10 DEF Inv

\* A snapshot begins.
LEMMA BeginStep ==
  ASSUME Inv, NEW c \in Clients, up, MuFree, pc[c] = "idle", BeginSnapshot(c)
  PROVE  Inv'
<1>1. /\ \A e \in Clients : pc[e] \notin Holding
      /\ pc'[c] = "snapshot" /\ request'[c] = "snapshot"
      /\ \A e \in Clients \ {c} : pc'[e] = pc[e] /\ request'[e] = request[e]
      /\ UNCHANGED <<files, active, backups, up, dir, index, old, put, stage, view, now, taken>>
    BY Nobody DEF Inv, Types, BeginSnapshot, Go, disk, memory
<1>2. Types'
    <2>1. pc' \in [Clients -> Places] /\ request' \in [Clients -> Map!Requests \cup {"none"}]
        BY DEF Inv, Types, BeginSnapshot, Go, Places, Holding, Saving, Map!Requests
    <2> QED
        BY <1>1, <2>1 DEF Inv, Types
<1>3. Locked'
    BY <1>1 DEF Inv, Locked
<1>4. Equipped'
    BY <1>1 DEF Inv, Equipped, Saving
<1>5. Separate'
    BY <1>1 DEF Inv, Separate
<1>6. Dated'
    BY <1>1 DEF Inv, Dated
<1>7. Prepared'
    BY <1>1 DEF Prepared, Saving, Holding
<1>8. Saved'
    BY <1>1 DEF Saved, Saving, Holding
<1> QED
    BY <1>2, <1>3, <1>4, <1>5, <1>6, <1>7, <1>8 DEF Inv

\* A staged restore takes the locks.
LEMMA LockStep ==
  ASSUME Inv, NEW c \in Clients, TakeLocks(c)
  PROVE  Inv'
<1>1. /\ \A e \in Clients : pc[e] \notin Holding
      /\ up /\ pc[c] = "staged" /\ pc'[c] = "snapshot"
      /\ \A e \in Clients \ {c} : pc'[e] = pc[e]
      /\ UNCHANGED <<files, active, backups, up, dir, index, old, request, put, stage, view, now, taken>>
    BY Nobody DEF Inv, Types, TakeLocks, Lock, Go, disk, memory
<1>2. Types'
    <2>1. pc' \in [Clients -> Places]
        BY DEF Inv, Types, TakeLocks, Go, Places, Holding, Saving
    <2> QED
        BY <1>1, <2>1 DEF Inv, Types
<1>3. Locked'
    BY <1>1 DEF Inv, Locked
<1>4. Equipped'
    BY <1>1 DEF Inv, Equipped, Saving
<1>5. Separate'
    BY <1>1 DEF Inv, Separate
<1>6. Dated'
    BY <1>1 DEF Inv, Dated
<1>7. Prepared'
    <2>1. request[c] = "restore" /\ stage[c] # NoDir
        BY <1>1 DEF Inv, Equipped
    <2>2. Map!Restore(files[active], files[stage[c]])
        BY <1>1 DEF Inv, Dated, Map!Restore, Map!Present, Revs, Present
    <2>3. Map!Change(request[c], view[c], files[active], files[stage[c]])
        BY <2>1, <2>2 DEF Map!Change
    <2> QED
        BY <1>1, <2>3 DEF Prepared, Saving, Holding
<1>8. Saved'
    BY <1>1 DEF Saved, Saving, Holding
<1> QED
    BY <1>2, <1>3, <1>4, <1>5, <1>6, <1>7, <1>8 DEF Inv

\* A new generation is filled with m, under the lock or before it.
LEMMA StageStep ==
  ASSUME Inv, NEW c \in Clients, up, pc[c] = "idle", NEW m \in Contents,
         NEW p \in {"staged", "snapshot"}, NEW r \in {"restore", "replace"}, p = "staged" <=> r = "restore",
         Stage(c, r, m), Go(c, p), now' = now + 1,
         p = "staged" => Revs(m) \subseteq {now + 1},
         p = "snapshot" => /\ MuFree /\ Revs(m) \subseteq Revs(files[active]) \cup {now + 1}
                           /\ Map!Change(r, view[c], files[active], m)
  PROVE  Inv'
<1>1. PICK g \in Gens : /\ files[g] = NoDir
                        /\ files' = [files EXCEPT ![g] = m]
                        /\ stage' = [stage EXCEPT ![c] = g]
                        /\ request' = [request EXCEPT ![c] = r]
                        /\ UNCHANGED <<active, backups, checkpoint, memory, put, view, taken>>
    BY DEF Stage
<1>2. /\ g \in Dirs /\ g # NoDir /\ g # active /\ g # old /\ m # NoDir
      /\ \A e \in Clients : stage[e] # g
    BY <1>1, DirsAssumption, NotDir DEF Inv, Separate, Dirs
<1>3. /\ pc'[c] = p /\ request'[c] = r /\ stage'[c] = g /\ put[c] = NoPut
      /\ \A e \in Clients \ {c} : pc'[e] = pc[e] /\ request'[e] = request[e] /\ stage'[e] = stage[e]
      /\ files'[g] = m /\ \A h \in Dirs \ {g} : files'[h] = files[h]
      /\ UNCHANGED <<active, backups, up, dir, index, old, put, view, taken>>
    BY <1>1, <1>2 DEF Inv, Types, Equipped, Go, memory
<1>4. /\ files'[active] = files[active] /\ (old # NoDir => files'[old] = files[old])
      /\ active \in Dirs /\ dir \in Dirs /\ (up => dir = active)
      /\ \A e \in Clients \ {c} : stage[e] # NoDir => stage[e] \in Dirs \ {g} /\ files'[stage[e]] = files[stage[e]]
    BY <1>2, <1>3 DEF Inv, Types, Separate, Dirs
<1>5. p = "snapshot" => \A e \in Clients : pc[e] \notin Holding
    BY Nobody DEF Inv
<1>6. Types'
    <2>1. files' \in [Dirs -> Contents \cup {NoDir}] /\ stage' \in [Clients -> Gens \cup {NoDir}]
        BY <1>1 DEF Inv, Types
    <2>2. request' \in [Clients -> Map!Requests \cup {"none"}]
        BY <1>1 DEF Inv, Types, Map!Requests
    <2>3. pc' \in [Clients -> Places]
        BY DEF Inv, Types, Go, Places, Holding, Saving
    <2> QED
        BY <1>3, <2>1, <2>2, <2>3 DEF Inv, Types
<1>7. Locked'
    BY <1>3, <1>5 DEF Inv, Locked, Holding, Saving
<1>8. Equipped'
    BY <1>2, <1>3, DirsAssumption DEF Inv, Equipped, Saving
<1>9. Separate'
    <2>1. files'[active'] # NoDir /\ (up' => dir' = active' /\ index' = files'[dir'])
        BY <1>3, <1>4 DEF Inv, Separate
    <2>2. old' # NoDir <=> \E e \in Clients : pc'[e] \in {"sync", "retire"}
        BY <1>3 DEF Inv, Separate
    <2>3. old' # NoDir => old' # active' /\ files'[old'] # NoDir
        BY <1>3, <1>4 DEF Inv, Separate
    <2>4. ASSUME NEW e \in Clients, stage'[e] # NoDir
          PROVE  /\ files'[stage'[e]] # NoDir /\ stage'[e] # old'
                 /\ stage'[e] = active' <=> pc'[e] = "sync"
                 /\ \A d \in Clients \ {e} : stage'[d] # stage'[e]
        <3>1. CASE e = c
            BY <1>2, <1>3, <3>1
        <3>2. CASE e # c
            BY <1>2, <1>3, <1>4, <2>4, <3>2 DEF Inv, Separate
        <3> QED
            BY <3>1, <3>2
    <2> QED
        BY <2>1, <2>2, <2>3, <2>4 DEF Separate
<1>10. now \in Nat /\ Revs(files[active]) \subseteq Nat /\ \A t \in Revs(files[active]) : t <= now
    BY <1>4, RevsType DEF Inv, Types, Dated, Separate
<1>11. \A t \in Revs(m) : t <= now + 1 /\ (t = now + 1 \/ t \in Revs(files[active]))
    BY <1>10
<1>12. Dated'
    <2>1. \A h \in Dirs : files'[h] # NoDir => \A t \in Revs(files'[h]) : t <= now'
        <3>1. ASSUME NEW h \in Dirs \ {g}, files[h] # NoDir, NEW t \in Revs(files[h]) PROVE t <= now + 1
            <4>1. t <= now
                BY <3>1 DEF Inv, Dated
            <4>2. t \in Nat
                BY <3>1, RevsType DEF Inv
            <4> QED
                BY <1>10, <4>1, <4>2
        <3> QED
            BY <1>3, <1>11, <3>1
    <2>2. \A e \in Clients : put'[e] # NoPut => put'[e].doc.rev <= now'
        BY <1>3, <1>10 DEF Inv, Dated, Types, Put, Doc
    <2>3. ASSUME NEW e \in Clients, pc'[e] = "staged", NEW t \in Revs(files'[stage'[e]])
          PROVE  /\ t \notin Revs(files'[active'])
                 /\ \A b \in Clients \ {e} : /\ stage'[b] # NoDir => t \notin Revs(files'[stage'[b]])
                                             /\ put'[b] # NoPut => t # put'[b].doc.rev
        <3>1. CASE e = c
            <4>1. t = now + 1
                BY <1>3, <2>3, <3>1
            <4>2. t \notin Revs(files[active])
                BY <1>10, <4>1
            <4>3. ASSUME NEW b \in Clients \ {e}, stage[b] # NoDir PROVE t \notin Revs(files[stage[b]])
                BY <1>4, <1>10, <3>1, <4>1, <4>3, RevsType DEF Inv, Dated, Separate
            <4>4. ASSUME NEW b \in Clients \ {e}, put[b] # NoPut PROVE t # put[b].doc.rev
                BY <1>10, <4>1, <4>4 DEF Inv, Dated, Types, Put, Doc
            <4> QED
                BY <1>3, <1>4, <3>1, <4>2, <4>3, <4>4
        <3>2. CASE e # c
            <4>1. pc[e] = "staged" /\ stage[e] # NoDir /\ t \in Revs(files[stage[e]])
                BY <1>3, <1>4, <2>3, <3>2 DEF Inv, Equipped
            <4>2. t \in Nat /\ t <= now /\ t \notin Revs(files[active])
                BY <1>4, <3>2, <4>1, RevsType DEF Inv, Dated, Separate
            <4>3. t \notin Revs(m)
                BY <1>10, <1>11, <4>2
            <4>4. ASSUME NEW b \in Clients \ {e}
                  PROVE  /\ b # c /\ stage[b] # NoDir => t \notin Revs(files[stage[b]])
                         /\ put[b] # NoPut => t # put[b].doc.rev
                BY <4>1 DEF Inv, Dated
            <4> QED
                BY <1>3, <1>4, <4>2, <4>3, <4>4
        <3> QED
            BY <3>1, <3>2
    <2> QED
        BY <2>1, <2>2, <2>3 DEF Dated
<1>13. Prepared'
    <2>1. p = "snapshot" => Map!Change(r, view[c], files[active], m)
        OBVIOUS
    <2>2. CASE p = "snapshot"
        BY <1>3, <1>4, <1>5, <2>1, <2>2 DEF Prepared, Holding, Saving
    <2>3. CASE p = "staged"
        <3>1. ASSUME NEW e \in Clients, pc'[e] \in Holding
              PROVE  /\ e # c /\ pc[e] = pc'[e]
                     /\ files'[active] = files[active] /\ (old # NoDir => files'[old] = files[old])
                     /\ stage'[e] = stage[e] /\ (stage[e] # NoDir => files'[stage[e]] = files[stage[e]])
            BY <1>3, <1>4, <2>3, <3>1 DEF Holding, Saving
        <3>2. ASSUME NEW e \in Clients, pc[e] = "sync" PROVE old # NoDir
            BY <3>2 DEF Inv, Separate
        <3>3. ASSUME NEW e \in Clients, pc[e] \in Saving, request[e] # "snapshot" PROVE stage[e] # NoDir
            BY <3>3 DEF Inv, Equipped
        <3> QED
            BY <1>3, <3>1, <3>2, <3>3 DEF Inv, Prepared, Holding
    <2> QED
        BY <2>2, <2>3
<1>14. Saved'
    BY <1>3, <1>4 DEF Inv, Saved
<1> QED
    BY <1>6, <1>7, <1>8, <1>9, <1>12, <1>13, <1>14 DEF Inv

\* The pointer is renamed.
LEMMA SwitchStep ==
  ASSUME Inv, NEW c \in Clients, pc[c] = "commit", active' = stage[c], dir' = stage[c], index' = files[stage[c]],
         old' = dir, Go(c, "sync"), UNCHANGED <<files, backups, up, request, put, stage, view, now, taken>>
  PROVE  Inv'
<1>1. /\ pc[c] \in Holding /\ pc[c] \in Saving /\ up /\ dir = active /\ active \in Dirs /\ active # NoDir
      /\ request[c] \in {"restore", "replace"} /\ stage[c] # NoDir /\ put[c] = NoPut /\ stage[c] # active
      /\ stage[c] \in Gens /\ stage[c] \in Dirs /\ files[stage[c]] \in Contents
    BY DirsAssumption DEF Inv, Types, Locked, Equipped, Separate, Holding, Saving, Dirs
<1>2. /\ pc' \in [Clients -> Places] /\ pc'[c] = "sync"
      /\ \A e \in Clients \ {c} : pc'[e] = pc[e] /\ pc[e] \notin Holding
    BY <1>1, Alone DEF Inv, Types, Go, Places, Holding
<1>3. Types'
    BY <1>1, <1>2 DEF Inv, Types
<1>4. Locked'
    BY <1>1, <1>2 DEF Inv, Locked
<1>5. Equipped'
    BY <1>1, <1>2 DEF Inv, Equipped, Saving
<1>6. Separate'
    <2>1. old' # NoDir /\ old' # active' /\ files'[old'] # NoDir /\ files'[active'] # NoDir /\ dir' = active'
        BY <1>1 DEF Inv, Separate
    <2>2. ASSUME NEW e \in Clients, stage[e] # NoDir
          PROVE  /\ files[stage[e]] # NoDir /\ stage[e] # old'
                 /\ stage[e] = active' <=> pc'[e] = "sync"
                 /\ \A d \in Clients \ {e} : stage[d] # stage[e]
        <3>1. CASE e = c
            BY <1>1, <1>2, <2>2, <3>1 DEF Inv, Separate
        <3>2. CASE e # c
            <4>1. pc[e] \notin {"sync"} /\ pc'[e] = pc[e] /\ stage[e] # stage[c]
                BY <1>1, <1>2, <3>2 DEF Inv, Separate, Holding
            <4> QED
                BY <1>1, <2>2, <4>1 DEF Inv, Separate
        <3> QED
            BY <3>1, <3>2
    <2> QED
        BY <1>1, <1>2, <2>1, <2>2 DEF Separate
<1>7. Dated'
    BY <1>1, <1>2 DEF Inv, Dated
<1>8. Prepared'
    <2>1. Map!Change(request[c], view[c], files[active], files[stage[c]])
        BY <1>1 DEF Inv, Prepared
    <2> QED
        BY <1>1, <1>2, <2>1 DEF Prepared, Holding, Saving
<1>9. Saved'
    BY <1>2 DEF Saved, Holding, Saving
<1> QED
    BY <1>3, <1>4, <1>5, <1>6, <1>7, <1>8, <1>9 DEF Inv

\* The pointer is known to last, or not.
LEMMA SyncStep ==
  ASSUME Inv, NEW c \in Clients, Sync(c)
  PROVE  Inv'
<1>1. /\ pc[c] = "sync" /\ pc[c] \in Holding /\ up /\ put[c] = NoPut
      /\ UNCHANGED <<files, active, backups, up, dir, index, old, now, taken>>
    BY DEF Inv, Locked, Equipped, Sync, Holding, disk, memory
<1>2. /\ pc' \in [Clients -> Places] /\ request' \in [Clients -> Map!Requests \cup {"none"}]
      /\ put' \in [Clients -> Put \cup {NoPut}] /\ view' \in [Clients -> Put \cup {NoView}]
      /\ pc'[c] = "retire" /\ request'[c] = "none" /\ put'[c] = NoPut /\ view'[c] = NoView
      /\ \A e \in Clients \ {c} : /\ pc'[e] = pc[e] /\ request'[e] = request[e]
                                 /\ put'[e] = put[e] /\ view'[e] = view[e]
    BY EndFacts DEF Inv, Sync, Places, Holding
<1>3. \A e \in Clients \ {c} : pc[e] \notin Holding
    BY <1>1, Alone DEF Inv
<1>4. /\ stage' \in [Clients -> Gens \cup {NoDir}] /\ stage'[c] = NoDir
      /\ \A e \in Clients \ {c} : stage'[e] = stage[e]
    BY DEF Inv, Types, Sync
<1>5. Types'
    BY <1>1, <1>2, <1>4 DEF Inv, Types
<1>6. Locked'
    BY <1>1, <1>2, <1>3 DEF Inv, Locked
<1>7. Equipped'
    BY <1>2, <1>4 DEF Inv, Equipped, Saving
<1>8. Separate'
    BY <1>1, <1>2, <1>4 DEF Inv, Separate
<1>9. Dated'
    <2>1. \A e \in Clients : /\ put'[e] # NoPut => put'[e] = put[e]
                             /\ pc'[e] = "staged" => pc[e] = "staged"
                             /\ stage'[e] # NoDir => stage'[e] = stage[e]
        BY <1>2, <1>4
    <2>2. \A e \in Clients : pc'[e] = "staged" => stage'[e] = stage[e]
        BY <1>2, <1>4
    <2> QED
        BY <1>1, <2>1, <2>2 DEF Inv, Dated
<1>10. Prepared'
    BY <1>2, <1>3 DEF Prepared, Holding, Saving
<1>11. Saved'
    BY <1>2, <1>3 DEF Saved, Holding, Saving
<1> QED
    BY <1>5, <1>6, <1>7, <1>8, <1>9, <1>10, <1>11 DEF Inv

\* The old documents are removed.
LEMMA RetireStep ==
  ASSUME Inv, NEW c \in Clients, Retire(c)
  PROVE  Inv'
<1>1. /\ pc[c] = "retire" /\ pc[c] \in Holding /\ up /\ view[c] = NoView /\ put[c] = NoPut /\ stage[c] = NoDir
      /\ old \in Dirs /\ old # active /\ files[old] \in Contents /\ active \in Dirs
      /\ UNCHANGED <<active, backups, up, dir, index, request, put, stage, view, now, taken>>
      /\ old' = NoDir
    BY DEF Inv, Types, Locked, Equipped, Separate, Retire, Holding, Saving
<1>2. /\ pc' \in [Clients -> Places] /\ pc'[c] = "done"
      /\ \A e \in Clients \ {c} : pc'[e] = pc[e] /\ pc[e] \notin Holding
    BY <1>1, Alone DEF Inv, Types, Retire, Go, Places, Holding
<1>3. /\ files' \in [Dirs -> Contents \cup {NoDir}]
      /\ \A g \in Dirs \ {old} : files'[g] = files[g]
      /\ files'[old] # NoDir => Revs(files'[old]) \subseteq Revs(files[old])
    <2>1. PICK S \in SUBSET Present(files[old]) :
            files' = [files EXCEPT ![old] = IF S = {} /\ old # Root THEN NoDir
                                            ELSE [i \in Ids |-> IF i \in S THEN @[i] ELSE NoDoc]]
        BY DEF Retire
    <2> DEFINE m == [i \in Ids |-> IF i \in S THEN files[old][i] ELSE NoDoc]
    <2>2. m \in Contents /\ Revs(m) \subseteq Revs(files[old])
        BY <1>1 DEF Contents, Revs, Present
    <2>3. files' = [files EXCEPT ![old] = IF S = {} /\ old # Root THEN NoDir ELSE m]
        BY <2>1
    <2> HIDE DEF m
    <2> QED
        BY <1>1, <2>2, <2>3 DEF Inv, Types
<1>4. /\ files'[active] = files[active]
      /\ \A e \in Clients : stage[e] # NoDir => stage[e] \in Dirs \ {old} /\ files'[stage[e]] = files[stage[e]]
    BY <1>1, <1>3 DEF Inv, Types, Separate, Dirs
<1>5. Types'
    BY <1>1, <1>2, <1>3 DEF Inv, Types
<1>6. Locked'
    BY <1>1, <1>2 DEF Inv, Locked, Holding, Saving
<1>7. Equipped'
    BY <1>1, <1>2 DEF Inv, Equipped, Saving
<1>8. Separate'
    <2>1. \A e \in Clients : pc'[e] \notin {"sync", "retire"} /\ (pc[e] = "sync" => e = c)
        BY <1>2 DEF Holding
    <2>2. \A e \in Clients : stage[e] # NoDir => stage[e] # active
        BY <1>1, <2>1 DEF Inv, Separate
    <2> QED
        BY <1>1, <1>4, <2>1, <2>2, DirsAssumption DEF Inv, Separate, Types, Dirs
<1>9. Dated'
    <2>1. \A g \in Dirs : files'[g] # NoDir => \A t \in Revs(files'[g]) : t <= now'
        BY <1>1, <1>3, NotDir DEF Inv, Dated
    <2>2. \A e \in Clients : pc'[e] = "staged" => pc[e] = "staged" /\ stage[e] # NoDir
        BY <1>2 DEF Inv, Equipped
    <2> QED
        BY <1>1, <1>4, <2>1, <2>2 DEF Inv, Dated
<1>10. Prepared'
    BY <1>2 DEF Prepared, Holding, Saving
<1>11. Saved'
    BY <1>2 DEF Saved, Holding, Saving
<1> QED
    BY <1>5, <1>6, <1>7, <1>8, <1>9, <1>10, <1>11 DEF Inv

\* What is in memory is gone.  The pointer may be an old one again.
LEMMA CrashStep ==
  ASSUME Inv, AtRisk, Crash
  PROVE  Inv'
<1>1. /\ UNCHANGED <<files, backups, now, taken>> /\ ~up' /\ dir' = Root /\ index' = NoArchive /\ old' = NoDir
      /\ \A c \in Clients : /\ pc'[c] = "idle" /\ request'[c] = "none" /\ put'[c] = NoPut
                            /\ stage'[c] = NoDir /\ view'[c] = NoView
    BY DEF Crash
<1>2. active' \in Dirs
    <2>1. active' \in former \cup {active} \/ (active' = old /\ \E c \in Clients : pc[c] = "sync")
        BY DEF Crash
    <2>2. CASE active' \in former \cup {active}
        BY <2>2 DEF AtRisk, Inv, Types
    <2>3. CASE active' = old /\ \E c \in Clients : pc[c] = "sync"
        BY <2>3 DEF Inv, Types, Separate
    <2> QED
        BY <2>1, <2>2, <2>3
<1>3. Types'
    <2>1. NoArchive \in Contents
        BY DEF NoArchive, Contents
    <2> QED
        BY <1>1, <1>2, <2>1 DEF Crash, Inv, Types, Dirs, Places
<1>4. Locked' /\ Equipped' /\ Separate'
    BY <1>1, <1>2 DEF Locked, Equipped, Separate, Holding, Saving
<1>5. Dated'
    BY <1>1 DEF Inv, Dated
<1>6. Prepared' /\ Saved'
    BY <1>1 DEF Prepared, Saved, Saving
<1> QED
    BY <1>3, <1>4, <1>5, <1>6 DEF Inv

\* Generations are removed that the pointer does not name, and if all are, the process is up.
LEMMA StartStep ==
  ASSUME Inv, Start
  PROVE  Inv'
<1>1. /\ ~up /\ UNCHANGED <<active, backups, checkpoint, pins, old, local, now, taken>>
      /\ \/ up' = TRUE /\ dir' = active /\ index' = files[active]
         \/ UNCHANGED <<up, dir, index>>
    BY DEF Start
<1>2. /\ active \in Dirs /\ files[active] \in Contents /\ files[active] # NoDir
      /\ \A c \in Clients : pc[c] = "idle" /\ stage[c] = NoDir /\ put[c] = NoPut
      /\ old = NoDir
    BY <1>1 DEF Start, Inv, Types, Locked, Equipped, Separate, Saving
<1>3. /\ files' \in [Dirs -> Contents \cup {NoDir}] /\ files'[active] = files[active]
      /\ \A g \in Dirs : files'[g] \in {NoDir, files[g]}
    BY <1>2 DEF Inv, Types, Start
<1>4. UNCHANGED <<pc, request, put, stage, view>>
    BY <1>1 DEF local
<1>5. Types'
    BY <1>1, <1>2, <1>3, <1>4 DEF Inv, Types
<1>6. Locked' /\ Equipped' /\ Separate'
    BY <1>1, <1>2, <1>3, <1>4 DEF Inv, Locked, Equipped, Separate, Holding, Saving
<1>7. Dated'
    BY <1>1, <1>2, <1>3, <1>4 DEF Inv, Dated
<1>8. Prepared' /\ Saved'
    BY <1>2, <1>4 DEF Prepared, Saved, Saving
<1> QED
    BY <1>5, <1>6, <1>7, <1>8 DEF Inv

LEMMA InitInv ==
  ASSUME Init
  PROVE  Inv /\ AtRisk
<1>1. /\ files[Root] \in Contents /\ files[Root] # NoDir /\ Revs(files[Root]) \subseteq {0}
      /\ \A g \in Dirs \ {Root} : files[g] = NoDir
      /\ files \in [Dirs -> Contents \cup {NoDir}]
    <2>1. PICK m \in Earlier : files = [d \in Dirs |-> IF d = Root THEN m ELSE NoDir]
        BY DEF Init
    <2>2. m \in Contents /\ Revs(m) \subseteq {0}
        BY EarlierAssumption DEF Revs
    <2> QED
        BY <2>1, <2>2, NotDir DEF Dirs
<1>2. /\ active = Root /\ ~up /\ old = NoDir /\ former = {}
      /\ \A c \in Clients : /\ pc[c] = "idle" /\ request[c] = "none" /\ put[c] = NoPut
                            /\ stage[c] = NoDir /\ view[c] = NoView
    BY DEF Init
<1>3. Types
    <2>1. NoArchive \in Contents
        BY DEF NoArchive, Contents
    <2> QED
        BY <1>1, <2>1 DEF Init, Types, Dirs, Places
<1>4. Locked /\ Equipped /\ Separate /\ AtRisk
    BY <1>1, <1>2 DEF Locked, Equipped, Separate, AtRisk, Holding, Saving
<1>5. Dated
    <2>1. now = 0
        BY DEF Init
    <2>2. \A g \in Dirs : files[g] # NoDir => \A t \in Revs(files[g]) : t <= now
        BY <1>1, <2>1
    <2> QED
        BY <1>2, <2>2 DEF Dated
<1>6. Prepared /\ Saved
    BY <1>2 DEF Prepared, Saved, Saving
<1> QED
    BY <1>3, <1>4, <1>5, <1>6 DEF Inv

-----------------------------------------------------------------------------
(* Revisions tell bodies: whoever names a revision means the document that   *)
(* has it.                                                                   *)

Has(m, i, t, b) == m[i] # NoDoc /\ m[i].rev = t /\ m[i].body = b

Seen(i, t, b) ==
    \/ \E g \in Dirs : files[g] # NoDir /\ Has(files[g], i, t, b)
    \/ \E c \in Clients : put[c] # NoPut /\ put[c].id = i /\ put[c].doc.rev = t /\ put[c].doc.body = b
    \/ \E c \in Clients : view[c] # NoView /\ view[c].id = i /\ view[c].doc.rev = t /\ view[c].doc.body = b

Sealed ==
    /\ \A i \in Ids, t \in Nat, b, e \in Bodies : Seen(i, t, b) /\ Seen(i, t, e) => b = e
    /\ \A c \in Clients : view[c] # NoView => view[c].doc.rev <= now

LEMMA SeenPast ==
  ASSUME Inv, Sealed, NEW i \in Ids, NEW t, NEW b, Seen(i, t, b)
  PROVE  t <= now
<1>1. ASSUME NEW g \in Dirs, files[g] # NoDir, Has(files[g], i, t, b) PROVE t <= now
    BY <1>1 DEF Has, Inv, Dated, Revs, Present
<1>2. ASSUME NEW c \in Clients, put[c] # NoPut, put[c].doc.rev = t PROVE t <= now
    BY <1>2 DEF Inv, Dated
<1>3. ASSUME NEW c \in Clients, view[c] # NoView, view[c].doc.rev = t PROVE t <= now
    BY <1>3 DEF Sealed
<1> QED
    BY <1>1, <1>2, <1>3 DEF Seen

\* A step makes documents of the next revision, one of each id, or none.
LEMMA SealedStep ==
  ASSUME Inv, Sealed, NEW new, now' \in Nat, now' >= now,
         \A i \in Ids, t \in Nat, b \in Bodies : Seen(i, t, b)' => Seen(i, t, b) \/ (t = now + 1 /\ b = new[i]),
         \A c \in Clients : view'[c] # NoView => view'[c].doc.rev <= now'
  PROVE  Sealed'
<1>1. ASSUME NEW i \in Ids, NEW t \in Nat, NEW b \in Bodies, NEW e \in Bodies, Seen(i, t, b)', Seen(i, t, e)'
      PROVE  b = e
    <2>1. now \in Nat
        BY DEF Inv, Types
    <2>2. Seen(i, t, b) => t <= now
        BY SeenPast
    <2>3. Seen(i, t, e) => t <= now
        BY SeenPast
    <2>4. Seen(i, t, b) /\ Seen(i, t, e) => b = e
        BY DEF Sealed
    <2>5. Seen(i, t, b) \/ (t = now + 1 /\ b = new[i])
        BY <1>1
    <2>6. Seen(i, t, e) \/ (t = now + 1 /\ e = new[i])
        BY <1>1
    <2> QED
        BY <2>1, <2>2, <2>3, <2>4, <2>5, <2>6
<1> QED
    BY <1>1 DEF Sealed

\* Documents, puts and versions are forgotten.
LEMMA ShrinkStep ==
  ASSUME Inv, Sealed,
         \A g \in Dirs : files'[g] # NoDir =>
             files[g] # NoDir /\ \A i \in Ids : files'[g][i] # NoDoc => files'[g][i] = files[g][i],
         \A c \in Clients : put'[c] \in {put[c], NoPut} /\ view'[c] \in {view[c], NoView},
         now' = now
  PROVE  Sealed'
<1>1. ASSUME NEW i \in Ids, NEW t \in Nat, NEW b \in Bodies, Seen(i, t, b)'
      PROVE  Seen(i, t, b)
    <2>1. CASE \E g \in Dirs : files'[g] # NoDir /\ Has(files'[g], i, t, b)
        BY <2>1 DEF Has, Seen
    <2>2. CASE \E c \in Clients : put'[c] # NoPut /\ put'[c].id = i /\ put'[c].doc.rev = t /\ put'[c].doc.body = b
        BY <2>2 DEF Seen
    <2>3. CASE \E c \in Clients : view'[c] # NoView /\ view'[c].id = i /\ view'[c].doc.rev = t /\ view'[c].doc.body = b
        BY <2>3 DEF Seen
    <2> QED
        BY <1>1, <2>1, <2>2, <2>3 DEF Seen, Has
<1>2. \A c \in Clients : view'[c] # NoView => view'[c].doc.rev <= now'
    BY DEF Sealed
<1>3. now \in Nat
    BY DEF Inv, Types
<1> QED
    BY <1>1, <1>2, <1>3, SealedStep

\* A client loads a document.
LEMMA LoadSealed ==
  ASSUME Inv, Sealed, NEW c \in Clients, Load(c)
  PROVE  Sealed' /\ Inv'
<1>1. PICK i \in Present(Documents) : view' = [view EXCEPT ![c] = [id |-> i, doc |-> Documents[i]]]
    BY DEF Load
<1>2. /\ up /\ pc[c] = "idle" /\ dir = active /\ active \in Dirs /\ files[active] \in Contents
      /\ UNCHANGED <<files, active, backups, up, dir, index, old, pc, request, put, stage, now, taken>>
    BY DEF Load, Ready, Inv, Types, Separate, disk, memory
<1> DEFINE v == [id |-> i, doc |-> files[active][i]]
<1>3. /\ i \in Ids /\ files[active][i] # NoDoc /\ files[active][i] \in Doc /\ v \in Put
      /\ files[active] # NoDir
    BY <1>2, NotDir DEF Present, Documents, Contents, Put
<1>4. view' = [view EXCEPT ![c] = v] /\ view'[c] = v /\ \A e \in Clients \ {c} : view'[e] = view[e]
    BY <1>1, <1>2 DEF Documents, Inv, Types
<1>5. v.id = i /\ v.doc = files[active][i]
    OBVIOUS
<1> HIDE DEF v
<1>6. Inv'
    BY <1>2, <1>3, <1>4, QuietStep
<1>7. ASSUME NEW j \in Ids, NEW t \in Nat, NEW b \in Bodies, Seen(j, t, b)'
      PROVE  Seen(j, t, b)
    <2>1. CASE \E e \in Clients : view'[e] # NoView /\ view'[e].id = j /\ view'[e].doc.rev = t /\ view'[e].doc.body = b
        <3>1. PICK e \in Clients : view'[e] # NoView /\ view'[e].id = j /\ view'[e].doc.rev = t /\ view'[e].doc.body = b
            BY <2>1
        <3>2. CASE e = c
            <4>1. Has(files[active], j, t, b)
                BY <1>3, <1>4, <1>5, <3>1, <3>2 DEF Has
            <4> QED
                BY <1>2, <1>3, <4>1 DEF Seen
        <3>3. CASE e # c
            BY <1>4, <3>1, <3>3 DEF Seen
        <3> QED
            BY <3>2, <3>3
    <2>2. CASE ~\E e \in Clients : view'[e] # NoView /\ view'[e].id = j /\ view'[e].doc.rev = t /\ view'[e].doc.body = b
        BY <1>2, <1>7, <2>2 DEF Seen, Has
    <2> QED
        BY <2>1, <2>2
<1>8. \A e \in Clients : view'[e] # NoView => view'[e].doc.rev <= now'
    <2>1. v.doc.rev <= now
        BY <1>2, <1>3, <1>5 DEF Inv, Dated, Revs, Present
    <2> QED
        BY <1>2, <1>4, <2>1 DEF Sealed
<1>9. now \in Nat
    BY DEF Inv, Types
<1> QED
    BY <1>2, <1>6, <1>7, <1>8, <1>9, SealedStep

-----------------------------------------------------------------------------
(* The requests, by the steps above.                                         *)

\* A request is refused at once.
LEMMA DenyStep ==
  ASSUME Inv, Sealed, NEW c \in Clients, pc[c] = "idle", Deny(c)
  PROVE  Inv' /\ Sealed'
<1>1. /\ UNCHANGED <<files, active, backups, up, dir, index, old, pc, request, put, stage, now, taken>>
      /\ view' = [view EXCEPT ![c] = NoView]
    BY DEF Deny, disk, memory
<1>2. Inv'
    BY <1>1, QuietStep
<1>3. \A e \in Clients : view'[e] \in {view[e], NoView}
    BY <1>1 DEF Inv, Types
<1>4. Sealed'
    BY <1>1, <1>3, ShrinkStep
<1> QED
    BY <1>2, <1>4

\* A request that has the lock has a document to write.
LEMMA HeldStep ==
  ASSUME Inv, Sealed, NEW c \in Clients, up, MuFree, pc[c] = "idle",
         NEW p \in {"put", "remove"}, NEW r \in {"create", "edit", "share", "delete"}, r = "delete" <=> p = "remove",
         NEW i \in Ids, NEW d \in Doc, Go(c, p), request' = [request EXCEPT ![c] = r],
         put' = [put EXCEPT ![c] = [id |-> i, doc |-> d]],
         UNCHANGED <<disk, memory, stage, view, taken>>,
         now' = now \/ now' = now + 1,
         \/ d.rev = now + 1 /\ now' = now + 1
         \/ Documents[i] # NoDoc /\ d.rev = Documents[i].rev /\ d.body = Documents[i].body,
         Map!Change(r, view[c], Documents, [Documents EXCEPT ![i] = IF p = "put" THEN d ELSE NoDoc])
  PROVE  Inv' /\ Sealed'
<1>1. /\ Documents = files[active] /\ active \in Dirs /\ files[active] # NoDir
      /\ now \in Nat /\ now' \in Nat /\ now' >= now
      /\ UNCHANGED <<files, active, backups, up, dir, index, old>>
    BY DEF Documents, Inv, Types, Separate, disk, memory
<1>2. (d.rev = now + 1 /\ now' = now + 1) \/ d.rev \in Revs(files[active])
    BY <1>1 DEF Revs, Present
<1>3. Inv'
    BY <1>1, <1>2, TakeStep DEF Go
<1> DEFINE q == [id |-> i, doc |-> d]
<1>4. put'[c] = q /\ \A e \in Clients \ {c} : put'[e] = put[e]
    BY DEF Inv, Types
<1>5. q.id = i /\ q.doc = d
    OBVIOUS
<1> HIDE DEF q
<1>6. ASSUME NEW j \in Ids, NEW t \in Nat, NEW b \in Bodies, Seen(j, t, b)'
      PROVE  Seen(j, t, b) \/ (t = now + 1 /\ b = [k \in Ids |-> d.body][j])
    <2>1. CASE \E e \in Clients : put'[e] # NoPut /\ put'[e].id = j /\ put'[e].doc.rev = t /\ put'[e].doc.body = b
        <3>1. PICK e \in Clients : put'[e] # NoPut /\ put'[e].id = j /\ put'[e].doc.rev = t /\ put'[e].doc.body = b
            BY <2>1
        <3>2. CASE e = c
            <4>1. i = j /\ d.rev = t /\ d.body = b
                BY <1>4, <1>5, <3>1, <3>2
            <4>2. CASE d.rev = now + 1
                BY <4>1, <4>2
            <4>3. CASE Documents[i] # NoDoc /\ d.rev = Documents[i].rev /\ d.body = Documents[i].body
                <5>1. Has(files[active], j, t, b)
                    BY <1>1, <4>1, <4>3 DEF Has
                <5> QED
                    BY <1>1, <5>1 DEF Seen
            <4> QED
                BY <4>2, <4>3
        <3>3. CASE e # c
            BY <1>4, <3>1, <3>3 DEF Seen
        <3> QED
            BY <3>2, <3>3
    <2>2. CASE ~\E e \in Clients : put'[e] # NoPut /\ put'[e].id = j /\ put'[e].doc.rev = t /\ put'[e].doc.body = b
        BY <1>1, <1>6, <2>2 DEF Seen, Has
    <2> QED
        BY <2>1, <2>2
<1>7. \A e \in Clients : view[e] # NoView => view[e].doc.rev <= now'
    <2>1. ASSUME NEW e \in Clients, view[e] # NoView PROVE view[e].doc.rev <= now'
        <3>1. view[e].doc.rev \in Nat /\ view[e].doc.rev <= now
            BY <2>1 DEF Inv, Types, Sealed, Put, Doc
        <3> QED
            BY <1>1, <3>1
    <2> QED
        BY <2>1
<1>8. Sealed'
    BY <1>1, <1>6, <1>7, SealedStep
<1> QED
    BY <1>3, <1>8

\* What a client that is not refused has read is what the store holds.
LEMMA StaleCurrent ==
  ASSUME Inv, Sealed, up, NEW c \in Clients, NEW i \in Ids, ~Stale(c, i)
  PROVE  Documents[i] # NoDoc /\ Map!Current(view[c], Documents, i)
<1>1. Documents[i] # NoDoc /\ (view[c] # NoView => view[c].id = i /\ view[c].doc.rev = Documents[i].rev)
    BY DEF Stale
<1>2. Documents = files[active] /\ active \in Dirs /\ files[active] # NoDir /\ Documents[i] \in Doc
    BY <1>1 DEF Documents, Inv, Types, Separate, Contents
<1>3. ASSUME view[c] # NoView PROVE view[c].doc.body = Documents[i].body
    <2> DEFINE t == Documents[i].rev
    <2>1. t \in Nat /\ Documents[i].body \in Bodies /\ view[c].doc.body \in Bodies
        BY <1>2, <1>3 DEF Inv, Types, Put, Doc
    <2>2. Has(files[active], i, t, Documents[i].body)
        BY <1>1, <1>2 DEF Has
    <2>3. Seen(i, t, Documents[i].body)
        BY <1>2, <2>2 DEF Seen
    <2>4. Seen(i, t, view[c].doc.body)
        BY <1>1, <1>3 DEF Seen
    <2> HIDE DEF t
    <2> QED
        BY <2>1, <2>3, <2>4 DEF Sealed
<1> QED
    BY <1>1, <1>3 DEF Map!Current

LEMMA Running ==
  ASSUME Inv, up
  PROVE  /\ Documents \in Contents /\ Documents = files[active] /\ index = Documents /\ dir = active
         /\ active \in Dirs /\ Documents # NoDir
BY DEF Documents, Inv, Types, Separate

LEMMA WriteStep ==
  ASSUME Inv, Sealed, NEW c \in Clients, Ready(c), NEW r \in {"create", "edit", "share"},
         NEW i \in Ids, NEW d \in Doc, Write(c, r, i, d),
         \/ d.rev = now + 1
         \/ Documents[i] # NoDoc /\ d.rev = Documents[i].rev /\ d.body = Documents[i].body,
         Map!Change(r, view[c], Documents, [Documents EXCEPT ![i] = d])
  PROVE  Inv' /\ Sealed'
<1>1. up /\ MuFree /\ pc[c] = "idle"
    BY DEF Ready
<1>2. CASE Deny(c)
    BY <1>1, <1>2, DenyStep
<1>3. CASE ~Deny(c)
    <2>1. /\ Go(c, "put") /\ request' = [request EXCEPT ![c] = r]
          /\ put' = [put EXCEPT ![c] = [id |-> i, doc |-> d]]
          /\ now' = now + 1
          /\ UNCHANGED <<disk, memory, stage, view, taken>>
        BY <1>3 DEF Write
    <2> DEFINE p == "put"
    <2>2. Map!Change(r, view[c], Documents, [Documents EXCEPT ![i] = IF p = "put" THEN d ELSE NoDoc])
        OBVIOUS
    <2>3. p \in {"put", "remove"} /\ Go(c, p) /\ (r = "delete" <=> p = "remove")
        BY <2>1
    <2> HIDE DEF p
    <2> QED
        BY <1>1, <2>1, <2>2, <2>3, HeldStep
<1> QED
    BY <1>2, <1>3

LEMMA CreateStep ==
  ASSUME Inv, Sealed, NEW c \in Clients, Create(c)
  PROVE  Inv' /\ Sealed'
<1>1. Ready(c) /\ up /\ pc[c] = "idle" /\ view[c] = NoView
    BY DEF Create, Ready
<1>2. Documents \in Contents /\ now \in Nat
    BY <1>1, Running DEF Inv, Types
<1>3. PICK i \in Ids \ Present(Documents), b \in Bodies :
        \/ Write(c, "create", i, [body |-> b, rev |-> now + 1, share |-> NoToken])
        \/ Deny(c)
    BY DEF Create
<1> DEFINE d == [body |-> b, rev |-> now + 1, share |-> NoToken]
           m == [Documents EXCEPT ![i] = d]
<1>4. d \in Doc /\ d.rev = now + 1 /\ d.share = NoToken /\ d # NoDoc
    BY <1>2, IdsAssumption DEF Doc
<1> HIDE DEF d
<1>5. Map!Create(Documents, m)
    <2>1. m[i] = d /\ \A j \in Ids \ {i} : m[j] = Documents[j]
        BY <1>2 DEF Contents
    <2>2. i \in Ids \ Map!Present(Documents)
        BY DEF Present, Map!Present
    <2> QED
        BY <1>4, <2>1, <2>2 DEF Map!Create, Map!Others
<1>6. Map!Change("create", view[c], Documents, m)
    BY <1>5 DEF Map!Change
<1>7. CASE Write(c, "create", i, d)
    BY <1>1, <1>4, <1>6, <1>7, WriteStep
<1>8. CASE Deny(c)
    BY <1>1, <1>8, DenyStep
<1> QED
    BY <1>3, <1>7, <1>8 DEF d

LEMMA EditStep ==
  ASSUME Inv, Sealed, NEW c \in Clients, Edit(c)
  PROVE  Inv' /\ Sealed'
<1>1. Ready(c) /\ up /\ pc[c] = "idle"
    BY DEF Edit, Ready
<1>2. Documents \in Contents /\ Documents = files[active] /\ active \in Dirs /\ Documents # NoDir /\ now \in Nat
    BY <1>1, Running DEF Inv, Types
<1>3. PICK i \in Ids, b \in Bodies :
        IF Stale(c, i) THEN Deny(c)
        ELSE LET d == [body |-> b, rev |-> now + 1, share |-> Documents[i].share] IN
             IF view[c] # NoView \/ SoleName([Documents EXCEPT ![i] = d], i)
             THEN Write(c, "edit", i, d)
             ELSE Deny(c)
    BY DEF Edit
<1>4. CASE Deny(c)
    BY <1>1, <1>4, DenyStep
<1>5. CASE ~Deny(c)
    <2> DEFINE d == [body |-> b, rev |-> now + 1, share |-> Documents[i].share]
               m == [Documents EXCEPT ![i] = d]
    <2>1. ~Stale(c, i) /\ Write(c, "edit", i, d) /\ (view[c] = NoView => SoleName(m, i))
        BY <1>3, <1>5
    <2>2. Documents[i] # NoDoc /\ Map!Current(view[c], Documents, i) /\ Documents[i] \in Doc
        BY <1>1, <1>2, <2>1, StaleCurrent DEF Contents
    <2>3. d \in Doc /\ d.rev = now + 1 /\ d.share = Documents[i].share /\ d # NoDoc
        BY <1>2, <2>2, IdsAssumption DEF Doc
    <2> HIDE DEF d
    <2>4. Documents[i].rev # now + 1
        <3>1. Documents[i].rev <= now /\ Documents[i].rev \in Nat
            BY <1>2, <2>2 DEF Inv, Dated, Revs, Present, Doc
        <3> QED
            BY <1>2, <3>1
    <2>5. m[i] = d /\ \A j \in Ids \ {i} : m[j] = Documents[j]
        BY <1>2 DEF Contents
    <2>6. view[c] = NoView => Map!SoleName(m, i)
        BY <2>1 DEF SoleName, Present, Map!SoleName, Map!Present
    <2> HIDE DEF m
    <2>7. Map!Edit(view[c], Documents, m)
        <3>1. i \in Map!Present(Documents)
            BY <2>2 DEF Map!Present
        <3>2. m[i] # NoDoc /\ m[i].rev # Documents[i].rev /\ m[i].share = Documents[i].share
            BY <2>3, <2>4, <2>5
        <3> QED
            BY <2>2, <2>5, <2>6, <3>1, <3>2 DEF Map!Edit, Map!Others
    <2>8. Map!Change("edit", view[c], Documents, m)
        BY <2>7 DEF Map!Change
    <2> QED
        BY <1>1, <2>1, <2>3, <2>8, WriteStep DEF m
<1> QED
    BY <1>4, <1>5

LEMMA ShareStep ==
  ASSUME Inv, Sealed, NEW c \in Clients, Share(c)
  PROVE  Inv' /\ Sealed'
<1>1. Ready(c) /\ up /\ pc[c] = "idle"
    BY DEF Share, Ready
<1>2. Documents \in Contents
    BY <1>1, Running
<1>3. PICK i \in Ids, t \in Tokens \cup {NoToken} :
        IF Documents[i] = NoDoc THEN Deny(c)
        ELSE Write(c, "share", i, [body |-> Documents[i].body, rev |-> Documents[i].rev, share |-> t])
    BY DEF Share
<1>4. CASE Documents[i] = NoDoc
    BY <1>1, <1>3, <1>4, DenyStep
<1>5. CASE Documents[i] # NoDoc
    <2> DEFINE d == [body |-> Documents[i].body, rev |-> Documents[i].rev, share |-> t]
               m == [Documents EXCEPT ![i] = d]
    <2>1. Write(c, "share", i, d)
        BY <1>3, <1>5
    <2>2. Documents[i] \in Doc
        BY <1>2, <1>5 DEF Contents
    <2>3. d \in Doc /\ d.rev = Documents[i].rev /\ d.body = Documents[i].body
        BY <2>2 DEF Doc
    <2>4. m[i] = d /\ \A j \in Ids \ {i} : m[j] = Documents[j]
        BY <1>2 DEF Contents
    <2> HIDE DEF m
    <2>5. Map!Share(Documents, m)
        BY <1>5, <2>4 DEF Map!Share, Map!Present, Map!Others
    <2>6. Map!Change("share", view[c], Documents, m)
        BY <2>5 DEF Map!Change
    <2> QED
        BY <1>1, <1>5, <2>1, <2>3, <2>6, WriteStep DEF m
<1> QED
    BY <1>4, <1>5

LEMMA DeleteStep ==
  ASSUME Inv, Sealed, NEW c \in Clients, Delete(c)
  PROVE  Inv' /\ Sealed'
<1>1. Ready(c) /\ up /\ MuFree /\ pc[c] = "idle"
    BY DEF Delete, Ready
<1>2. Documents \in Contents
    BY <1>1, Running
<1>3. PICK i \in Ids :
        IF Stale(c, i) THEN Deny(c)
        ELSE /\ Go(c, "remove")
             /\ request' = [request EXCEPT ![c] = "delete"]
             /\ put' = [put EXCEPT ![c] = [id |-> i, doc |-> Documents[i]]]
             /\ UNCHANGED <<disk, memory, stage, view, now, taken>>
    BY DEF Delete
<1>4. CASE Stale(c, i)
    BY <1>1, <1>3, <1>4, DenyStep
<1>5. CASE ~Stale(c, i)
    <2> DEFINE d == Documents[i]
               p == "remove"
               r == "delete"
               m == [Documents EXCEPT ![i] = NoDoc]
    <2>1. d # NoDoc /\ Map!Current(view[c], Documents, i) /\ d \in Doc
        BY <1>1, <1>2, <1>5, StaleCurrent DEF Contents
    <2>2. m[i] = NoDoc /\ \A j \in Ids \ {i} : m[j] = Documents[j]
        BY <1>2 DEF Contents
    <2>3. m = [Documents EXCEPT ![i] = IF p = "put" THEN d ELSE NoDoc]
        OBVIOUS
    <2> HIDE DEF m
    <2>4. Map!Delete(view[c], Documents, m)
        BY <2>1, <2>2 DEF Map!Delete, Map!Present, Map!Others
    <2>5. Map!Change(r, view[c], Documents, m)
        BY <2>4 DEF Map!Change
    <2>6. /\ Go(c, p) /\ request' = [request EXCEPT ![c] = r] /\ put' = [put EXCEPT ![c] = [id |-> i, doc |-> d]]
          /\ UNCHANGED <<disk, memory, stage, view, now, taken>>
        BY <1>3, <1>5
    <2>7. p \in {"put", "remove"} /\ r \in {"create", "edit", "share", "delete"} /\ (r = "delete" <=> p = "remove")
        OBVIOUS
    <2>8. Map!Change(r, view[c], Documents, [Documents EXCEPT ![i] = IF p = "put" THEN d ELSE NoDoc])
        BY <2>3, <2>5
    <2> HIDE DEF p, r
    <2> QED
        BY <1>1, <2>1, <2>6, <2>7, <2>8, HeldStep
<1> QED
    BY <1>4, <1>5

LEMMA PublishSealed ==
  ASSUME Inv, Sealed, NEW c \in Clients, Publish(c)
  PROVE  Sealed'
<1> DEFINE i == put[c].id
           d == IF pc[c] = "put" THEN put[c].doc ELSE NoDoc
<1>1. pc[c] \in {"put", "remove"} /\ put[c] # NoPut /\ put[c] \in Put
    BY DEF Publish, Inv, Equipped, Types
<1>2. /\ i \in Ids /\ d \in Doc \cup {NoDoc} /\ (d # NoDoc => d = put[c].doc) /\ i = put[c].id
    BY <1>1 DEF Put
<1>3. up /\ dir = active /\ files[active] \in Contents /\ active \in Dirs
    BY <1>1 DEF Inv, Types, Locked, Separate
<1>4. /\ now' = now /\ now \in Nat
      /\ \A e \in Clients : put'[e] \in {put[e], NoPut} /\ view'[e] \in {view[e], NoView}
      /\ files' = files \/ files' = [files EXCEPT ![active] = [files[active] EXCEPT ![i] = d]]
    BY <1>3 DEF Publish, Documents, Forget, Inv, Types
<1>5. /\ \A g \in Dirs \ {active} : files'[g] = files[g]
      /\ \A j \in Ids : files'[active][j] = files[active][j] \/ (j = i /\ files'[active][j] = d)
    <2> DEFINE m == [files[active] EXCEPT ![i] = d]
    <2>1. \A j \in Ids : m[j] = files[active][j] \/ (j = i /\ m[j] = d)
        BY <1>3 DEF Contents
    <2> HIDE DEF m
    <2> QED
        BY <1>3, <1>4, <2>1 DEF Inv, Types, m
<1> HIDE DEF d, i
<1>6. ASSUME NEW j \in Ids, NEW t \in Nat, NEW b \in Bodies, Seen(j, t, b)'
      PROVE  Seen(j, t, b)
    <2>1. ASSUME NEW g \in Dirs, files'[g] # NoDir, Has(files'[g], j, t, b)
          PROVE  Seen(j, t, b)
        <3>1. CASE g # active \/ files'[active][j] = files[active][j]
            <4>1. Has(files[g], j, t, b) /\ files[g] # NoDir
                BY <1>3, <1>5, <2>1, <3>1, NotDir DEF Has
            <4> QED
                BY <4>1 DEF Seen
        <3>2. CASE g = active /\ j = i /\ files'[active][j] = d
            BY <1>1, <1>2, <2>1, <3>2 DEF Has, Seen
        <3> QED
            BY <1>5, <3>1, <3>2
    <2>2. CASE \E e \in Clients : put'[e] # NoPut /\ put'[e].id = j /\ put'[e].doc.rev = t /\ put'[e].doc.body = b
        BY <1>4, <2>2 DEF Seen
    <2>3. CASE \E e \in Clients : view'[e] # NoView /\ view'[e].id = j /\ view'[e].doc.rev = t /\ view'[e].doc.body = b
        BY <1>4, <2>3 DEF Seen
    <2> QED
        BY <1>6, <2>1, <2>2, <2>3 DEF Seen, Has
<1>7. \A e \in Clients : view'[e] # NoView => view'[e].doc.rev <= now'
    BY <1>4 DEF Sealed
<1> QED
    BY <1>4, <1>6, <1>7, SealedStep

\* The documents, puts and versions of a step that ends a request or takes a directory away.
LEMMA CancelSealed ==
  ASSUME Inv, Sealed, NEW c \in Clients, Cancel(c), now' = now
  PROVE  Sealed'
<1>1. \A g \in Dirs : files'[g] \in {files[g], NoDir}
    BY DEF Cancel, Inv, Types
<1>2. \A e \in Clients : put'[e] \in {put[e], NoPut} /\ view'[e] \in {view[e], NoView}
    BY DEF Cancel, Forget, Inv, Types
<1> QED
    BY <1>1, <1>2, ShrinkStep

-----------------------------------------------------------------------------
(* Snapshots.                                                                *)

LEMMA OldestOf ==
  ASSUME NEW S, S # {}, \A b \in S : b.name \in Nat
  PROVE  Oldest(S) \in S
<1> DEFINE T == {b.name : b \in S}
<1>1. T # {} /\ T \subseteq Nat /\ \A b \in S : b.name \in T
    OBVIOUS
<1>2. \A n \in T : \E b \in S : b.name = n
    OBVIOUS
<1> HIDE DEF T
<1>3. IsWellFoundedOn(OpToRel(<, Nat), Nat)
    BY NatLessThanWellFounded
<1>4. PICK n \in T : \A k \in T : ~(<<k, n>> \in OpToRel(<, Nat))
    BY <1>1, <1>3, WFMin
<1>5. \A k \in T : n <= k
    <2>1. \A k \in T : ~(k < n)
        BY <1>1, <1>4 DEF OpToRel
    <2> QED
        BY <1>1, <2>1
<1>6. \E b \in S : \A o \in S : b.name <= o.name
    BY <1>1, <1>2, <1>5
<1> QED
    BY <1>6 DEF Oldest

\* After the rename the newest snapshot is the one just made.
LEMMA NewestOf ==
  ASSUME Inv, NEW c \in Clients, pc[c] = "trim"
  PROVE  /\ Newest(backups) \in backups /\ Newest(backups).name = taken
         /\ Newest(backups).docs = Strip(files[active])
         /\ \A o \in backups : o.name = taken => o = Newest(backups)
<1>1. PICK b \in backups : /\ b.name = taken /\ b.docs = Strip(files[active])
                           /\ \A o \in backups : o.name = taken => o = b
    BY DEF Inv, Saved
<1>2. taken \in Nat /\ \A o \in backups : o.name \in Nat /\ o.name <= taken
    BY DEF Inv, Types
<1>3. \E n \in backups : \A o \in backups : o.name <= n.name
    BY <1>1, <1>2
<1>4. Newest(backups) \in backups /\ \A o \in backups : o.name <= Newest(backups).name
    BY <1>3 DEF Newest
<1>5. Newest(backups).name = taken
    BY <1>1, <1>2, <1>4
<1> QED
    BY <1>1, <1>4, <1>5

\* Nothing changes that the revisions are about.
LEMMA StillSealed ==
  ASSUME Inv, Sealed, UNCHANGED <<files, put, view, now>>
  PROVE  Sealed'
<1>1. \A c \in Clients : put'[c] \in {put[c], NoPut} /\ view'[c] \in {view[c], NoView}
    OBVIOUS
<1> QED
    BY <1>1, ShrinkStep

LEMMA SnapshotWriteStep ==
  ASSUME Inv, Sealed, NEW c \in Clients, SnapshotWrite(c)
  PROVE  Inv' /\ Sealed'
<1>1. /\ pc[c] = "snapshot" /\ pc[c] \in Saving
      /\ UNCHANGED <<up, dir, index, old, now, taken>>
      /\ taken \in Nat /\ \A b \in backups : b.docs \in Archive /\ b.name \in 1..taken
      /\ pc = [pc EXCEPT ![c] = "snapshot"]
    BY DEF SnapshotWrite, Saving, memory, Inv, Types
<1>2. CASE Go(c, "rename") /\ UNCHANGED <<disk, stage, request, put, view>>
    <2> DEFINE p == "rename"
    <2>1. Go(c, p) /\ p \in Saving /\ p # "trim" /\ p # "commit"
        BY <1>2 DEF Saving
    <2> HIDE DEF p
    <2>2. /\ UNCHANGED <<files, active, request, put, stage, view>> /\ backups' = backups /\ Secured(c, p)
        BY <1>2, <2>1 DEF disk, Secured
    <2> QED
        BY <1>1, <2>1, <2>2, ProceedStep, StillSealed
<1>3. CASE backups' = backups \ {Oldest(Removable(backups))} /\ UNCHANGED <<files, active, checkpoint, local>>
    <2> DEFINE p == "snapshot"
    <2>1. p \in Saving /\ p # "trim" /\ p # "commit" /\ Go(c, p)
        BY <1>1, <1>3 DEF Saving, Go, local
    <2> HIDE DEF p
    <2>2. /\ UNCHANGED <<files, active, request, put, stage, view>> /\ Secured(c, p)
          /\ \A b \in backups' : b.docs \in Archive /\ b.name \in 1..taken
        BY <1>1, <1>3, <2>1 DEF local, Secured
    <2> QED
        BY <1>1, <2>1, <2>2, ProceedStep, StillSealed
<1>4. CASE Cancel(c) /\ UNCHANGED <<active, backups, checkpoint>>
    BY <1>1, <1>4, CancelStep, CancelSealed
<1> QED
    BY <1>2, <1>3, <1>4 DEF SnapshotWrite

LEMMA SnapshotRenameStep ==
  ASSUME Inv, Sealed, NEW c \in Clients, SnapshotRename(c)
  PROVE  Inv' /\ Sealed'
<1>1. /\ pc[c] = "rename" /\ pc[c] \in Saving /\ pc[c] \in Holding
      /\ UNCHANGED <<active, checkpoint, up, dir, index, old, now>>
      /\ taken \in Nat /\ \A b \in backups : b.docs \in Archive /\ b.name \in 1..taken
    BY DEF SnapshotRename, Saving, Holding, memory, Inv, Types
<1>2. up /\ Documents \in Contents /\ Documents = files[active]
    BY <1>1, Running DEF Inv, Locked, Holding
<1>3. CASE /\ backups' = backups \cup {[name |-> taken + 1, docs |-> Strip(Documents)]}
           /\ taken' = taken + 1 /\ Go(c, "trim") /\ UNCHANGED <<files, stage, request, put, view>>
    <2> DEFINE p == "trim"
               n == [name |-> taken + 1, docs |-> Strip(files[active])]
    <2>1. n.name = taken' /\ n.docs = Strip(files[active]) /\ n.docs \in Archive /\ backups' = backups \cup {n}
        BY <1>2, <1>3, StripType
    <2> HIDE DEF n
    <2>2. taken' \in Nat /\ \A b \in backups' : b.docs \in Archive /\ b.name \in 1..taken'
        BY <1>1, <1>3, <2>1
    <2>3. \A o \in backups' : o.name = taken' => o = n
        BY <1>1, <1>3, <2>1
    <2>4. p \in Saving /\ p # "commit" /\ Go(c, p) /\ Secured(c, p)
        BY <1>3, <2>1, <2>3 DEF Saving, Secured
    <2> HIDE DEF p
    <2> QED
        BY <1>1, <1>3, <2>2, <2>4, ProceedStep, StillSealed
<1>4. CASE Cancel(c) /\ UNCHANGED <<backups, taken>>
    BY <1>1, <1>4, CancelStep, CancelSealed
<1> QED
    BY <1>3, <1>4 DEF SnapshotRename

LEMMA SnapshotTrimStep ==
  ASSUME Inv, Sealed, NEW c \in Clients, SnapshotTrim(c)
  PROVE  Inv' /\ Sealed'
<1> DEFINE extra == Removable(backups \ {Newest(backups)})
           n     == Newest(backups)
<1>1. /\ pc[c] = "trim" /\ pc[c] \in Saving
      /\ UNCHANGED <<active, up, dir, index, old, now, taken>>
      /\ taken \in Nat /\ \A b \in backups : b.docs \in Archive /\ b.name \in 1..taken
      /\ pc = [pc EXCEPT ![c] = "trim"]
    BY DEF SnapshotTrim, Saving, memory, Inv, Types
<1>2. /\ n \in backups /\ n.name = taken /\ n.docs = Strip(files[active])
      /\ \A o \in backups : o.name = taken => o = n
    BY <1>1, NewestOf
<1>3. extra # {} => Oldest(extra) \in extra
    BY <1>1, OldestOf DEF Removable
<1>4. n \notin extra
    BY DEF Removable
<1> HIDE DEF extra, n
<1>5. CASE extra # {} /\ backups' = backups \ {Oldest(extra)} /\ UNCHANGED <<files, checkpoint, local>>
    <2> DEFINE p == "trim"
    <2>1. n \in backups'
        BY <1>2, <1>3, <1>4, <1>5
    <2>2. p \in Saving /\ p # "commit" /\ Go(c, p) /\ Secured(c, p)
        BY <1>1, <1>2, <1>5, <2>1 DEF Saving, Secured, Go, local
    <2> HIDE DEF p
    <2>3. UNCHANGED <<files, request, put, stage, view>> /\ \A b \in backups' : b.docs \in Archive /\ b.name \in 1..taken'
        BY <1>1, <1>5 DEF local
    <2> QED
        BY <1>1, <2>2, <2>3, ProceedStep, StillSealed
<1>6. CASE /\ IF request[c] = "snapshot" THEN Go(c, "done") /\ Forget(c)
              ELSE Go(c, "commit") /\ UNCHANGED <<request, put, view>>
           /\ UNCHANGED <<files, backups, stage>>
    <2>1. CASE request[c] = "snapshot"
        <3>1. Go(c, "done") /\ Forget(c) /\ UNCHANGED <<files, backups, stage>>
            BY <1>6, <2>1
        <3>2. Inv'
            BY <1>1, <2>1, <3>1, FinishStep
        <3>3. \A e \in Clients : put'[e] \in {put[e], NoPut} /\ view'[e] \in {view[e], NoView}
            BY <3>1 DEF Forget, Inv, Types
        <3>4. Sealed'
            BY <1>1, <3>1, <3>3, ShrinkStep
        <3> QED
            BY <3>2, <3>4
    <2>2. CASE request[c] # "snapshot"
        <3> DEFINE p == "commit"
        <3>1. p \in Saving /\ Go(c, p) /\ Secured(c, p) /\ UNCHANGED <<files, backups, stage, request, put, view>>
            BY <1>2, <1>6, <2>2 DEF Saving, Secured
        <3> HIDE DEF p
        <3> QED
            BY <1>1, <2>2, <3>1, ProceedStep, StillSealed
    <2> QED
        BY <2>1, <2>2
<1>7. CASE Cancel(c) /\ UNCHANGED <<backups, checkpoint>>
    BY <1>1, <1>7, CancelStep, CancelSealed
<1> QED
    BY <1>5, <1>6, <1>7 DEF SnapshotTrim, extra

LEMMA SnapshotStep ==
  ASSUME Inv, Sealed, NEW c \in Clients, Snapshot(c) \/ SnapshotIfChanged(c)
  PROVE  Inv' /\ Sealed'
<1>1. up /\ MuFree /\ pc[c] = "idle"
    BY DEF Snapshot, SnapshotIfChanged, Lock
<1>2. CASE BeginSnapshot(c)
    <2>1. UNCHANGED <<files, put, view, now>>
        BY <1>2 DEF BeginSnapshot, disk
    <2> QED
        BY <1>1, <1>2, <2>1, BeginStep, StillSealed
<1>3. CASE UNCHANGED <<files, active, backups, memory, local, now, taken>>
    <2>1. UNCHANGED <<files, active, backups, up, dir, index, old, pc, request, put, stage, view, now, taken>>
        BY <1>3 DEF memory, local
    <2> QED
        BY <2>1, QuietStep, StillSealed
<1>4. CASE Deny(c)
    BY <1>1, <1>4, DenyStep
<1> QED
    BY <1>2, <1>3, <1>4 DEF Snapshot, SnapshotIfChanged

LEMMA ReaderStep ==
  ASSUME Inv, Sealed, NEW r \in Readers, Open(r) \/ CloseDownload(r)
  PROVE  Inv' /\ Sealed'
<1>1. UNCHANGED <<files, active, backups, up, dir, index, old, pc, request, put, stage, view, now, taken>>
    BY DEF Open, CloseDownload, disk, local
<1> QED
    BY <1>1, QuietStep, StillSealed

-----------------------------------------------------------------------------
(* Generations.                                                              *)

LEMMA StageSealed ==
  ASSUME Inv, Sealed, up, NEW c \in Clients, NEW r, NEW m \in Contents, Stage(c, r, m), now' = now + 1,
         \A i \in Ids : m[i] # NoDoc => m[i].rev = now + 1 \/ m[i] = files[active][i]
  PROVE  Sealed'
<1>1. /\ put' = put /\ view' = view /\ active \in Dirs /\ files[active] # NoDir
      /\ now \in Nat /\ now' \in Nat /\ now' >= now
    BY DEF Stage, Inv, Types, Separate
<1>2. \A g \in Dirs : files'[g] = files[g] \/ files'[g] = m
    BY DEF Stage, Inv, Types
<1> DEFINE new == [i \in Ids |-> m[i].body]
<1>3. ASSUME NEW i \in Ids, NEW t \in Nat, NEW b \in Bodies, Seen(i, t, b)'
      PROVE  Seen(i, t, b) \/ (t = now + 1 /\ b = new[i])
    <2>1. ASSUME NEW g \in Dirs, files'[g] # NoDir, Has(files'[g], i, t, b)
          PROVE  Seen(i, t, b) \/ (t = now + 1 /\ b = new[i])
        <3>1. CASE files'[g] = files[g]
            BY <2>1, <3>1 DEF Seen
        <3>2. CASE files'[g] = m
            <4>1. m[i] # NoDoc /\ m[i].rev = t /\ m[i].body = b
                BY <2>1, <3>2 DEF Has
            <4>2. CASE m[i].rev = now + 1
                BY <4>1, <4>2
            <4>3. CASE m[i] = files[active][i]
                <5>1. Has(files[active], i, t, b)
                    BY <4>1, <4>3 DEF Has
                <5> QED
                    BY <1>1, <5>1 DEF Seen
            <4> QED
                BY <4>1, <4>2, <4>3
        <3> QED
            BY <1>2, <3>1, <3>2
    <2>2. CASE ~\E g \in Dirs : files'[g] # NoDir /\ Has(files'[g], i, t, b)
        <3>1. \/ \E e \in Clients : put[e] # NoPut /\ put[e].id = i /\ put[e].doc.rev = t /\ put[e].doc.body = b
              \/ \E e \in Clients : view[e] # NoView /\ view[e].id = i /\ view[e].doc.rev = t /\ view[e].doc.body = b
            BY <1>1, <1>3, <2>2 DEF Seen, Has
        <3> QED
            BY <3>1 DEF Seen
    <2> QED
        BY <2>1, <2>2
<1>4. ASSUME NEW e \in Clients, view'[e] # NoView PROVE view'[e].doc.rev <= now'
    <2>1. view[e] # NoView /\ view[e].doc.rev \in Nat /\ view[e].doc.rev <= now
        BY <1>1, <1>4 DEF Inv, Types, Sealed, Put, Doc
    <2> QED
        BY <1>1, <2>1
<1> HIDE DEF new
<1> QED
    BY <1>1, <1>3, <1>4, SealedStep

LEMMA RestoreStep ==
  ASSUME Inv, Sealed, NEW c \in Clients, Restore(c)
  PROVE  Inv' /\ Sealed'
<1>1. up /\ pc[c] = "idle" /\ now \in Nat
    BY DEF Restore, Inv, Types
<1>2. PICK a \in Uploads \cup {b.docs : b \in backups} :
        \/ Stage(c, "restore", Stamp(a, now + 1)) /\ Go(c, "staged") /\ now' = now + 1
        \/ Deny(c)
    BY DEF Restore
<1>3. CASE Deny(c)
    BY <1>1, <1>3, DenyStep
<1>4. CASE Stage(c, "restore", Stamp(a, now + 1)) /\ Go(c, "staged") /\ now' = now + 1
    <2> DEFINE m == Stamp(a, now + 1)
               p == "staged"
               r == "restore"
    <2>1. a \in Archive
        BY SizesAssumption DEF Inv, Types
    <2>2. m \in Contents /\ Revs(m) \subseteq {now + 1}
        BY <1>1, <2>1, StampType
    <2>3. Stage(c, r, m) /\ Go(c, p) /\ p = "staged" /\ r = "restore"
        BY <1>4
    <2> HIDE DEF m, p, r
    <2>4. \A i \in Ids : m[i] # NoDoc => m[i].rev = now + 1
        BY <2>2 DEF Revs, Present
    <2>5. Inv'
        BY <1>1, <1>4, <2>2, <2>3, StageStep
    <2>6. Sealed'
        BY <1>1, <1>4, <2>2, <2>3, <2>4, StageSealed
    <2> QED
        BY <2>5, <2>6
<1> QED
    BY <1>2, <1>3, <1>4

\* A replaced collection keeps other kinds, has names that differ, and new revisions.
LEMMA ReplacementChange ==
  ASSUME Inv, up, NEW k \in {KindOf[i] : i \in Ids}, NEW B \in SUBSET Bodies, NEW f,
         \A b, e \in B : b # e => NameOf[b] # NameOf[e]
  PROVE  /\ Map!ReplaceKind(Documents, Replacement(k, B, f))
         /\ \A i \in Ids : Replacement(k, B, f)[i] # NoDoc =>
                Replacement(k, B, f)[i].rev = now + 1 \/ Replacement(k, B, f)[i] = Documents[i]
<1> DEFINE body(i) == CHOOSE b \in B : f[b] = i
           m       == Replacement(k, B, f)
<1>1. Documents \in Contents /\ index = Documents /\ now \in Nat /\ Documents = files[active] /\ Documents # NoDir
      /\ active \in Dirs
    BY Running DEF Inv, Types
<1>2. ASSUME NEW i \in Ids, KindOf[i] = k, m[i] # NoDoc
      PROVE  /\ body(i) \in B /\ f[body(i)] = i /\ m[i].body = body(i) /\ m[i].rev = now + 1
             /\ m[i].share = IF Documents[i] = NoDoc THEN NoToken ELSE Documents[i].share
    <2>1. \E b \in B : f[b] = i
        BY <1>2 DEF Replacement
    <2>2. m[i] = [body |-> body(i), rev |-> now + 1,
                  share |-> IF Documents[i] = NoDoc THEN NoToken ELSE Documents[i].share]
        BY <1>1, <1>2, <2>1 DEF Replacement
    <2> HIDE DEF m
    <2> QED
        BY <2>1, <2>2
<1>3. ASSUME NEW i \in Ids, KindOf[i] # k PROVE m[i] = Documents[i]
    BY <1>3 DEF Replacement
<1> HIDE DEF m, body
<1>4. ASSUME NEW i \in Ids, KindOf[i] = k, m[i] # NoDoc PROVE Map!SoleName(m, i)
    <2>1. ASSUME NEW j \in Ids \ {i}, m[j] # NoDoc, KindOf[j] = k PROVE NameOf[m[j].body] # NameOf[m[i].body]
        <3>1. body(i) \in B /\ body(j) \in B /\ body(i) # body(j) /\ m[i].body = body(i) /\ m[j].body = body(j)
            BY <1>2, <1>4, <2>1
        <3> QED
            BY <3>1
    <2> QED
        BY <1>4, <2>1 DEF Map!SoleName, Map!Present
<1>5. ASSUME NEW i \in Ids, Documents[i] # NoDoc PROVE Documents[i].rev # now + 1
    <2>1. Documents[i].rev \in Nat /\ Documents[i].rev <= now
        BY <1>1, <1>5 DEF Inv, Dated, Revs, Present, Contents, Doc
    <2> QED
        BY <1>1, <2>1
<1>6. Map!ReplaceKind(Documents, m)
    BY <1>2, <1>3, <1>4, <1>5 DEF Map!ReplaceKind
<1> QED
    BY <1>2, <1>3, <1>6 DEF m

LEMMA ReplaceStep ==
  ASSUME Inv, Sealed, NEW c \in Clients, ReplaceCollection(c)
  PROVE  Inv' /\ Sealed'
<1>1. up /\ MuFree /\ pc[c] = "idle" /\ now \in Nat
    BY DEF ReplaceCollection, Lock, Inv, Types
<1>2. PICK k \in {KindOf[i] : i \in Ids}, B \in SUBSET Bodies :
        IF (\E b, e \in B : b # e /\ NameOf[b] = NameOf[e])
           \/ \E b \in B : Cardinality(Named(k, NameOf[b])) > 1
        THEN Deny(c)
        ELSE \E f \in Assignments(k, B) :
                LET m == Replacement(k, B, f) IN
                IF Cardinality(Present(m)) <= MaxResources /\ Bytes(m) <= MaxBytes
                THEN Stage(c, "replace", m) /\ Go(c, "snapshot") /\ now' = now + 1
                ELSE Deny(c)
    BY DEF ReplaceCollection
<1>3. CASE Deny(c)
    BY <1>1, <1>3, DenyStep
<1>4. CASE ~Deny(c)
    <2>1. \A b, e \in B : b # e => NameOf[b] # NameOf[e]
        BY <1>2, <1>4
    <2>2. PICK f : Stage(c, "replace", Replacement(k, B, f)) /\ Go(c, "snapshot") /\ now' = now + 1
        BY <1>2, <1>4
    <2> DEFINE m == Replacement(k, B, f)
               p == "snapshot"
               r == "replace"
    <2>3. Documents \in Contents /\ index = Documents /\ Documents = files[active]
        BY <1>1, Running
    <2>4. m \in Contents /\ Revs(m) \subseteq Revs(files[active]) \cup {now + 1}
        BY <1>1, <2>3, ReplacementType
    <2>5. /\ Map!ReplaceKind(files[active], m)
          /\ \A i \in Ids : m[i] # NoDoc => m[i].rev = now + 1 \/ m[i] = files[active][i]
        BY <1>1, <2>1, <2>3, ReplacementChange
    <2>6. Map!Change(r, view[c], files[active], m)
        BY <2>5 DEF Map!Change
    <2>7. Stage(c, r, m) /\ Go(c, p) /\ p = "snapshot" /\ r = "replace"
        BY <2>2
    <2> HIDE DEF m, p, r
    <2>8. Inv'
        BY <1>1, <2>2, <2>4, <2>6, <2>7, StageStep
    <2>9. Sealed'
        BY <1>1, <2>2, <2>4, <2>5, <2>7, StageSealed
    <2> QED
        BY <2>8, <2>9
<1> QED
    BY <1>3, <1>4

LEMMA CommitStep ==
  ASSUME Inv, Sealed, NEW c \in Clients, Commit(c)
  PROVE  Inv' /\ Sealed'
<1>1. pc[c] = "commit" /\ pc[c] \in Saving /\ UNCHANGED <<backups, checkpoint, up, pins, now, taken>>
    BY DEF Commit, Saving
<1>2. CASE /\ active' = stage[c] /\ dir' = stage[c] /\ index' = files[stage[c]] /\ old' = dir
           /\ Go(c, "sync") /\ UNCHANGED <<files, stage, request, put, view>>
    BY <1>1, <1>2, SwitchStep, StillSealed
<1>3. CASE Cancel(c) /\ UNCHANGED <<active, dir, index, old>>
    BY <1>1, <1>3, CancelStep, CancelSealed
<1> QED
    BY <1>2, <1>3 DEF Commit

LEMMA ReturnStep ==
  ASSUME Inv, Sealed, NEW c \in Clients, Return(c)
  PROVE  Inv' /\ Sealed'
<1>1. /\ pc[c] \in {"done", "refused"} /\ pc[c] \notin Holding /\ up
      /\ UNCHANGED <<files, active, backups, up, dir, index, old, request, put, stage, view, now, taken>>
    BY DEF Return, Holding, Saving, Inv, Locked, disk, memory
<1>2. /\ pc' \in [Clients -> Places] /\ pc'[c] = "idle" /\ \A e \in Clients \ {c} : pc'[e] = pc[e]
    BY DEF Return, Go, Inv, Types, Places
<1>3. Types' /\ Locked'
    BY <1>1, <1>2 DEF Inv, Types, Locked, Holding, Saving
<1>4. Equipped'
    BY <1>1, <1>2 DEF Inv, Equipped, Saving
<1>5. Separate'
    BY <1>1, <1>2 DEF Inv, Separate
<1>6. Dated'
    BY <1>1, <1>2 DEF Inv, Dated
<1>7. Prepared'
    BY <1>1, <1>2 DEF Inv, Prepared, Saving
<1>8. Saved'
    BY <1>1, <1>2 DEF Inv, Saved
<1>9. Sealed'
    BY <1>1, StillSealed
<1> QED
    BY <1>3, <1>4, <1>5, <1>6, <1>7, <1>8, <1>9 DEF Inv

\* What a restore does after the rename, and what ends the process, only forgets.
LEMMA ForgetSealed ==
  ASSUME Inv, Sealed, (\E c \in Clients : Sync(c) \/ Retire(c)) \/ Crash \/ Start
  PROVE  Sealed'
<1>1. now' = now
    BY DEF Sync, Retire, Crash, Start
<1>2. ASSUME NEW c \in Clients, Sync(c) PROVE Sealed'
    <2>1. files' = files /\ \A e \in Clients : put'[e] \in {put[e], NoPut} /\ view'[e] \in {view[e], NoView}
        BY <1>2 DEF Sync, Forget, Inv, Types, disk
    <2> QED
        BY <1>1, <2>1, ShrinkStep
<1>3. ASSUME NEW c \in Clients, Retire(c) PROVE Sealed'
    <2>1. put' = put /\ view' = view /\ old \in Dirs /\ files[old] # NoDir
        BY <1>3 DEF Retire, Inv, Types, Separate
    <2>2. PICK S \in SUBSET Present(files[old]) :
            files' = [files EXCEPT ![old] = IF S = {} /\ old # Root THEN NoDir
                                            ELSE [i \in Ids |-> IF i \in S THEN @[i] ELSE NoDoc]]
        BY <1>3 DEF Retire
    <2>3. \A g \in Dirs \ {old} : files'[g] = files[g]
        BY <2>2 DEF Inv, Types
    <2> DEFINE m == [i \in Ids |-> IF i \in S THEN files[old][i] ELSE NoDoc]
    <2>4. files'[old] = NoDir \/ files'[old] = m
        BY <2>1, <2>2 DEF Inv, Types
    <2>5. \A i \in Ids : m[i] # NoDoc => m[i] = files[old][i]
        OBVIOUS
    <2> HIDE DEF m
    <2>6. \A g \in Dirs : files'[g] # NoDir =>
              files[g] # NoDir /\ \A i \in Ids : files'[g][i] # NoDoc => files'[g][i] = files[g][i]
        BY <2>1, <2>3, <2>4, <2>5
    <2>7. \A e \in Clients : put'[e] \in {put[e], NoPut} /\ view'[e] \in {view[e], NoView}
        BY <2>1
    <2> QED
        BY <1>1, <2>6, <2>7, ShrinkStep
<1>4. ASSUME Crash PROVE Sealed'
    <2>1. files' = files /\ \A e \in Clients : put'[e] \in {put[e], NoPut} /\ view'[e] \in {view[e], NoView}
        BY <1>4 DEF Crash
    <2> QED
        BY <1>1, <2>1, ShrinkStep
<1>5. ASSUME Start PROVE Sealed'
    <2>1. \A g \in Dirs : files'[g] \in {files[g], NoDir}
        BY <1>5 DEF Start
    <2>2. \A e \in Clients : put'[e] \in {put[e], NoPut} /\ view'[e] \in {view[e], NoView}
        BY <1>5 DEF Start, local
    <2> QED
        BY <1>1, <2>1, <2>2, ShrinkStep
<1> QED
    BY <1>2, <1>3, <1>4, <1>5

-----------------------------------------------------------------------------
(* All steps.                                                                *)

LEMMA InvStep ==
  ASSUME Inv, AtRisk, Sealed, [Next]_vars
  PROVE  Inv' /\ Sealed'
<1>1. CASE UNCHANGED vars
    <2>1. UNCHANGED <<files, active, backups, up, dir, index, old, pc, request, put, stage, view, now, taken>>
        BY <1>1 DEF vars, disk, memory, local
    <2> QED
        BY <2>1, QuietStep, StillSealed
<1>2. ASSUME NEW c \in Clients, Load(c) PROVE Inv' /\ Sealed'
    BY <1>2, LoadSealed
<1>3. ASSUME NEW c \in Clients, Create(c) PROVE Inv' /\ Sealed'
    BY <1>3, CreateStep
<1>4. ASSUME NEW c \in Clients, Edit(c) PROVE Inv' /\ Sealed'
    BY <1>4, EditStep
<1>5. ASSUME NEW c \in Clients, Share(c) PROVE Inv' /\ Sealed'
    BY <1>5, ShareStep
<1>6. ASSUME NEW c \in Clients, Delete(c) PROVE Inv' /\ Sealed'
    BY <1>6, DeleteStep
<1>7. ASSUME NEW c \in Clients, Publish(c) PROVE Inv' /\ Sealed'
    BY <1>7, PublishStep, PublishSealed
<1>8. ASSUME NEW c \in Clients, Snapshot(c) \/ SnapshotIfChanged(c) PROVE Inv' /\ Sealed'
    BY <1>8, SnapshotStep
<1>9. ASSUME NEW c \in Clients, SnapshotWrite(c) PROVE Inv' /\ Sealed'
    BY <1>9, SnapshotWriteStep
<1>10. ASSUME NEW c \in Clients, SnapshotRename(c) PROVE Inv' /\ Sealed'
    BY <1>10, SnapshotRenameStep
<1>11. ASSUME NEW c \in Clients, SnapshotTrim(c) PROVE Inv' /\ Sealed'
    BY <1>11, SnapshotTrimStep
<1>12. ASSUME NEW c \in Clients, Restore(c) PROVE Inv' /\ Sealed'
    BY <1>12, RestoreStep
<1>13. ASSUME NEW c \in Clients, TakeLocks(c) PROVE Inv' /\ Sealed'
    <2>1. UNCHANGED <<files, put, view, now>>
        BY <1>13 DEF TakeLocks, disk
    <2> QED
        BY <1>13, <2>1, LockStep, StillSealed
<1>14. ASSUME NEW c \in Clients, ReplaceCollection(c) PROVE Inv' /\ Sealed'
    BY <1>14, ReplaceStep
<1>15. ASSUME NEW c \in Clients, Commit(c) PROVE Inv' /\ Sealed'
    BY <1>15, CommitStep
<1>16. ASSUME NEW c \in Clients, Sync(c) PROVE Inv' /\ Sealed'
    BY <1>16, SyncStep, ForgetSealed
<1>17. ASSUME NEW c \in Clients, Retire(c) PROVE Inv' /\ Sealed'
    BY <1>17, RetireStep, ForgetSealed
<1>18. ASSUME NEW c \in Clients, Return(c) PROVE Inv' /\ Sealed'
    BY <1>18, ReturnStep
<1>19. ASSUME NEW r \in Readers, Open(r) \/ CloseDownload(r) PROVE Inv' /\ Sealed'
    BY <1>19, ReaderStep
<1>20. CASE Crash
    BY <1>20, CrashStep, ForgetSealed
<1>21. CASE Start
    BY <1>21, StartStep, ForgetSealed
<1>22. CASE StartRefused
    BY <1>1, <1>22 DEF StartRefused
<1> QED
    BY <1>1, <1>2, <1>3, <1>4, <1>5, <1>6, <1>7, <1>8, <1>9, <1>10, <1>11, <1>12, <1>13, <1>14, <1>15,
       <1>16, <1>17, <1>18, <1>19, <1>20, <1>21, <1>22 DEF Next

\* Staging takes a directory of its own; a replaced one was in use until then.
LEMMA AtRiskStep ==
  ASSUME Inv, AtRisk, [Next]_vars
  PROVE  AtRisk'
<1>1. NoDir \notin former /\ active \in Dirs /\ old \in Dirs \cup {NoDir}
    BY DirsAssumption DEF AtRisk, Inv, Types
<1>2. ASSUME UNCHANGED <<former, active, up>>, \A c \in Clients : stage'[c] \in {stage[c], NoDir} \cup (Gens \ former)
      PROVE  AtRisk'
    BY <1>1, <1>2 DEF AtRisk
<1>3. ASSUME NEW c \in Clients, Cancel(c)
      PROVE  \A d \in Clients : stage'[d] \in {stage[d], NoDir}
    BY <1>3 DEF Cancel, Inv, Types
<1>4. ASSUME NEW c \in Clients, NEW r, NEW m, Stage(c, r, m)
      PROVE  /\ UNCHANGED <<former, active, up>>
             /\ \A d \in Clients : stage'[d] \in {stage[d], NoDir} \cup (Gens \ former)
    BY <1>4 DEF Stage, memory, Inv, Types
<1>5. ASSUME NEW c \in Clients, Deny(c) PROVE UNCHANGED <<former, active, up, stage>>
    BY <1>5 DEF Deny, disk, memory
<1>6. ASSUME NEW c \in Clients, NEW r, NEW i, NEW d, Write(c, r, i, d) PROVE UNCHANGED <<former, active, up, stage>>
    BY <1>5, <1>6 DEF Write, disk, memory
<1>7. ASSUME NEW c \in Clients, Load(c) \/ Create(c) \/ Edit(c) \/ Share(c) \/ Delete(c)
      PROVE  UNCHANGED <<former, active, up, stage>>
    <2>1. CASE Load(c)
        BY <2>1 DEF Load, disk, memory
    <2>2. CASE Create(c)
        BY <1>5, <1>6, <2>2 DEF Create
    <2>3. CASE Edit(c)
        BY <1>5, <1>6, <2>3 DEF Edit
    <2>4. CASE Share(c)
        BY <1>5, <1>6, <2>4 DEF Share
    <2>5. CASE Delete(c)
        BY <1>5, <2>5 DEF Delete, disk, memory
    <2> QED
        BY <1>7, <2>1, <2>2, <2>3, <2>4, <2>5
<1>8. ASSUME NEW c \in Clients, Publish(c) \/ TakeLocks(c) \/ Retire(c) \/ Return(c)
      PROVE  UNCHANGED <<former, active, up, stage>>
    BY <1>8 DEF Publish, TakeLocks, Retire, Return, disk, memory
<1>9. ASSUME NEW c \in Clients, Snapshot(c) \/ SnapshotIfChanged(c)
      PROVE  UNCHANGED <<former, active, up, stage>>
    BY <1>5, <1>9 DEF Snapshot, SnapshotIfChanged, BeginSnapshot, disk, memory, local
<1>10. ASSUME NEW c \in Clients, SnapshotWrite(c) \/ SnapshotRename(c) \/ SnapshotTrim(c)
       PROVE  UNCHANGED <<former, active, up>> /\ \A d \in Clients : stage'[d] \in {stage[d], NoDir}
    <2>1. CASE SnapshotWrite(c)
        BY <1>3, <2>1 DEF SnapshotWrite, disk, memory, local
    <2>2. CASE SnapshotRename(c)
        BY <1>3, <2>2 DEF SnapshotRename, memory
    <2>3. CASE SnapshotTrim(c)
        BY <1>3, <2>3 DEF SnapshotTrim, memory, local
    <2> QED
        BY <1>10, <2>1, <2>2, <2>3
<1>11. ASSUME NEW c \in Clients, Restore(c)
       PROVE  /\ UNCHANGED <<former, active, up>>
              /\ \A d \in Clients : stage'[d] \in {stage[d], NoDir} \cup (Gens \ former)
    <2>1. Deny(c) \/ \E m : Stage(c, "restore", m)
        BY <1>11 DEF Restore
    <2> QED
        BY <1>4, <1>5, <2>1
<1>12. ASSUME NEW c \in Clients, ReplaceCollection(c)
       PROVE  /\ UNCHANGED <<former, active, up>>
              /\ \A d \in Clients : stage'[d] \in {stage[d], NoDir} \cup (Gens \ former)
    <2>1. Deny(c) \/ \E m : Stage(c, "replace", m)
        BY <1>12 DEF ReplaceCollection
    <2> QED
        BY <1>4, <1>5, <2>1
<1>13. ASSUME NEW c \in Clients, Commit(c)
       PROVE  AtRisk'
    <2>1. UNCHANGED <<former, up>> /\ stage[c] # NoDir /\ up
        BY <1>13 DEF Commit, Inv, Equipped, Locked, Saving
    <2>2. CASE active' = stage[c] /\ UNCHANGED stage
        BY <2>1, <2>2 DEF AtRisk
    <2>3. CASE Cancel(c) /\ UNCHANGED active
        BY <1>2, <1>3, <2>1, <2>3
    <2> QED
        BY <1>13, <2>2, <2>3 DEF Commit
<1>14. ASSUME NEW c \in Clients, Sync(c)
       PROVE  AtRisk'
    <2>1. /\ pc[c] = "sync" /\ former' \in {{}, former \cup {old}} /\ UNCHANGED <<active, up>>
          /\ stage' = [stage EXCEPT ![c] = NoDir]
        BY <1>14 DEF Sync, memory
    <2>2. old \in Dirs /\ old # active /\ up
        BY <2>1 DEF Inv, Types, Separate, Locked
    <2>3. \A d \in Clients : stage'[d] \in {stage[d], NoDir} /\ (stage[d] # NoDir => stage[d] # old)
        BY <2>1 DEF Inv, Types, Separate
    <2> QED
        BY <1>1, <2>1, <2>2, <2>3, DirsAssumption DEF AtRisk
<1>15. ASSUME NEW r \in Readers, Open(r) \/ CloseDownload(r)
       PROVE  UNCHANGED <<former, active, up, stage>>
    BY <1>15 DEF Open, CloseDownload, disk, local
<1>16. CASE Crash
    BY <1>16 DEF Crash, AtRisk
<1>17. CASE Start
    BY <1>1, <1>17 DEF Start, AtRisk, local
<1>18. CASE StartRefused \/ UNCHANGED vars
    BY <1>2, <1>18 DEF StartRefused, vars, disk, memory, local
<1> QED
    BY <1>2, <1>7, <1>8, <1>9, <1>10, <1>11, <1>12, <1>13, <1>14, <1>15, <1>16, <1>17, <1>18 DEF Next

LEMMA InitSealed ==
  ASSUME Init
  PROVE  Sealed
<1>1. ASSUME NEW i \in Ids, NEW t, NEW b, Seen(i, t, b) PROVE files[Root][i].body = b
    BY <1>1 DEF Init, Seen, Has
<1>2. \A c \in Clients : view[c] = NoView
    BY DEF Init
<1> QED
    BY <1>1, <1>2 DEF Sealed

\* At every moment one request at most holds Store.mu, directories in use are distinct, what
\* the holder has staged is the change it was asked for, and a revision tells its body
\* (store.go, backup.go, compat_store.go).
THEOREM InvAlways == Spec => [](Inv /\ AtRisk /\ Sealed)
<1>1. Init => Inv /\ AtRisk /\ Sealed
    BY InitInv, InitSealed
<1>2. Inv /\ AtRisk /\ Sealed /\ [Next]_vars => Inv' /\ AtRisk' /\ Sealed'
    BY InvStep, AtRiskStep
<1> QED
    BY <1>1, <1>2, PTL DEF Spec

-----------------------------------------------------------------------------
(* The refinement: what each step is in ResourceMap.                         *)

NoSync == \A c \in Clients : pc[c] # "sync"

LEMMA HoldsType ==
  ASSUME Types, NEW d \in Dirs
  PROVE  Holds(d) \in Contents /\ (files[d] # NoDir => Holds(d) = files[d])
<1>1. NoArchive \in Contents
    BY DEF NoArchive, Contents
<1> QED
    BY <1>1 DEF Holds, Types

LEMMA Settled ==
  ASSUME Inv, NoSync, up
  PROVE  Visible = files[active] /\ Visible \in Contents
BY DEF NoSync, Visible, Holds, Inv, Types, Separate

LEMMA OneStatus ==
  ASSUME NEW c \in Clients, \A e \in Clients \ {c} : pc'[e] = pc[e] /\ request'[e] = request[e],
         NEW s, s = IF pc'[c] \in {"idle", "done", "refused"} THEN pc'[c]
                    ELSE IF pc'[c] = "retire" THEN "done" ELSE request'[c]
  PROVE  Status' = [Status EXCEPT ![c] = s]
BY DEF Status

LEMMA SameStatus ==
  ASSUME NEW c \in Clients, Status' = [Status EXCEPT ![c] = Status[c]]
  PROVE  Status' = Status
BY DEF Status

Past == {Holds(d) : d \in former}

\* A step that requests do not see.
Same == UNCHANGED <<Visible, Status, view>>

\* What requests see has not changed.
LEMMA SameVisible ==
  ASSUME Inv, UNCHANGED <<active, old>>, files'[active] = files[active], old # NoDir => files'[old] = files[old],
         (\E c \in Clients : pc'[c] = "sync") <=> (\E c \in Clients : pc[c] = "sync")
  PROVE  Visible' = Visible
<1>1. (\E c \in Clients : pc[c] = "sync") => old # NoDir
    BY DEF Inv, Separate
<1> QED
    BY <1>1 DEF Visible, Holds

LEMMA DenyMap ==
  ASSUME Inv, NEW c \in Clients, pc[c] = "idle", Deny(c)
  PROVE  Map!Return(c)
<1>1. UNCHANGED <<files, active, old, pc, request>> /\ view' = [view EXCEPT ![c] = NoView]
    BY DEF Deny, disk, memory
<1>2. Visible' = Visible
    BY <1>1, SameVisible
<1>3. Status[c] = "idle" /\ Status' = [Status EXCEPT ![c] = "idle"]
    BY <1>1 DEF Status
<1> QED
    BY <1>1, <1>2, <1>3 DEF Map!Return

LEMMA BeginMap ==
  ASSUME Inv, NEW c \in Clients, pc[c] = "idle", NEW p \in {"put", "remove", "snapshot", "staged"}, Go(c, p),
         NEW r \in Map!Requests, request' = [request EXCEPT ![c] = r],
         UNCHANGED <<active, old, view>>, files'[active] = files[active], old # NoDir => files'[old] = files[old]
  PROVE  Map!Begin(c)
<1>1. /\ pc'[c] = p /\ request'[c] = r
      /\ \A e \in Clients \ {c} : pc'[e] = pc[e] /\ request'[e] = request[e]
    BY DEF Go, Inv, Types
<1>2. Visible' = Visible
    BY <1>1, SameVisible
<1>3. Status' = [Status EXCEPT ![c] = r]
    BY <1>1, OneStatus
<1>4. Status[c] = "idle"
    BY DEF Status
<1> QED
    BY <1>2, <1>3, <1>4 DEF Map!Begin

\* A request ends: performed, if the documents are as it wanted them, or refused.
LEMMA EndMap ==
  ASSUME Inv, NEW c \in Clients, pc[c] \in Holding \ {"retire"},
         NEW s \in {"done", "refused"}, NEW p \in {"done", "refused", "retire"}, p = s \/ (p = "retire" /\ s = "done"),
         Go(c, p), Forget(c),
         s = "done" => Visible' \in Contents /\ Map!Change(request[c], view[c], Visible, Visible'),
         s = "refused" => Visible' = Visible
  PROVE  /\ Status[c] = request[c]
         /\ s = "done" => Map!Perform(c)
         /\ s = "refused" \/ request[c] \notin Map!Wholesale => Map!Ordinary
<1>1. /\ pc'[c] = p
      /\ \A e \in Clients \ {c} : pc'[e] = pc[e] /\ request'[e] = request[e]
    BY DEF Go, Forget, Inv, Types
<1>2. Status' = [Status EXCEPT ![c] = s]
    BY <1>1, OneStatus
<1>3. Status[c] = request[c] /\ request[c] \in Map!Requests
    BY DEF Status, Inv, Types, Equipped, Holding, Saving, Map!Requests
<1>4. view' = [view EXCEPT ![c] = NoView]
    BY DEF Forget
<1>5. ASSUME s = "done" PROVE Map!Perform(c)
    BY <1>2, <1>3, <1>4, <1>5 DEF Map!Perform, Map!Effect, Map!Contents, Contents, Map!Doc, Doc
<1>6. ASSUME s = "refused" PROVE Map!Refuse(c)
    BY <1>2, <1>3, <1>4, <1>6 DEF Map!Refuse
<1> QED
    BY <1>3, <1>5, <1>6 DEF Map!Ordinary

LEMMA CancelMap ==
  ASSUME Inv, NEW c \in Clients, pc[c] \in Saving, Cancel(c), UNCHANGED <<active, old>>
  PROVE  Map!Ordinary
<1>1. pc[c] \in Holding \ {"retire"} /\ pc[c] # "sync" /\ \A e \in Clients \ {c} : pc[e] \notin Holding
    BY Alone DEF Inv, Holding, Saving
<1>2. NoSync /\ old = NoDir
    BY <1>1 DEF NoSync, Holding, Inv, Separate, Saving
<1>3. /\ Go(c, "refused") /\ Forget(c) /\ files'[active] = files[active]
    <2>1. stage[c] # active
        BY <1>1, DirsAssumption DEF Inv, Types, Separate, Dirs
    <2> QED
        BY <2>1 DEF Cancel, Inv, Types
<1>4. \A e \in Clients : pc'[e] # "sync"
    BY <1>2, <1>3 DEF NoSync, Go, Inv, Types
<1>5. Visible' = Visible
    BY <1>2, <1>3, <1>4, SameVisible DEF NoSync
<1> DEFINE s == "refused"
<1>6. s \in {"done", "refused"} /\ Go(c, s) /\ s # "done"
    BY <1>3
<1> HIDE DEF s
<1> QED
    BY <1>1, <1>3, <1>5, <1>6, EndMap

LEMMA WriteMap ==
  ASSUME Inv, NEW c \in Clients, pc[c] = "idle", NEW r \in Map!Requests, NEW i, NEW d, Write(c, r, i, d)
  PROVE  Map!Ordinary
<1>1. CASE Deny(c)
    BY <1>1, DenyMap DEF Map!Ordinary
<1>2. CASE ~Deny(c)
    <2> DEFINE p == "put"
    <2>1. /\ p \in {"put", "remove", "snapshot", "staged"} /\ Go(c, p) /\ request' = [request EXCEPT ![c] = r]
          /\ UNCHANGED <<active, old, view, files>>
        BY <1>2 DEF Write, disk, memory
    <2> HIDE DEF p
    <2> QED
        BY <2>1, BeginMap DEF Map!Ordinary
<1> QED
    BY <1>1, <1>2

LEMMA EditingMap ==
  ASSUME Inv, NEW c \in Clients, Create(c) \/ Edit(c) \/ Share(c) \/ Delete(c)
  PROVE  Map!Ordinary
<1>1. pc[c] = "idle"
    BY DEF Create, Edit, Share, Delete, Ready
<1>2. CASE Deny(c)
    BY <1>1, <1>2, DenyMap DEF Map!Ordinary
<1>3. CASE \E r \in {"create", "edit", "share"} : \E i, d : Write(c, r, i, d)
    BY <1>1, <1>3, WriteMap DEF Map!Requests
<1>4. CASE Go(c, "remove") /\ request' = [request EXCEPT ![c] = "delete"] /\ UNCHANGED <<disk, memory, view>>
    <2> DEFINE p == "remove"
               r == "delete"
    <2>1. /\ p \in {"put", "remove", "snapshot", "staged"} /\ r \in Map!Requests
          /\ Go(c, p) /\ request' = [request EXCEPT ![c] = r] /\ UNCHANGED <<active, old, view, files>>
        BY <1>4 DEF Map!Requests, disk, memory
    <2> HIDE DEF p, r
    <2> QED
        BY <1>1, <2>1, BeginMap DEF Map!Ordinary
<1>5. ASSUME Create(c) PROVE Deny(c) \/ \E r \in {"create", "edit", "share"} : \E i, d : Write(c, r, i, d)
    BY <1>5 DEF Create
<1>6. ASSUME Edit(c) PROVE Deny(c) \/ \E r \in {"create", "edit", "share"} : \E i, d : Write(c, r, i, d)
    BY <1>6 DEF Edit
<1>7. ASSUME Share(c) PROVE Deny(c) \/ \E r \in {"create", "edit", "share"} : \E i, d : Write(c, r, i, d)
    BY <1>7 DEF Share
<1>8. ASSUME Delete(c)
      PROVE  \/ Deny(c)
             \/ Go(c, "remove") /\ request' = [request EXCEPT ![c] = "delete"] /\ UNCHANGED <<disk, memory, view>>
    BY <1>8 DEF Delete
<1> QED
    BY <1>2, <1>3, <1>4, <1>5, <1>6, <1>7, <1>8

LEMMA LoadMap ==
  ASSUME Inv, NEW c \in Clients, Load(c)
  PROVE  Map!Ordinary
<1>1. up /\ MuFree /\ pc[c] = "idle" /\ UNCHANGED <<files, active, old, pc, request>>
    BY DEF Load, Ready, disk, memory
<1>2. Visible = Documents
    BY <1>1, Settled, Running DEF NoSync, MuFree
<1>3. Visible' = Visible /\ Status' = Status /\ Status[c] = "idle"
    BY <1>1, SameVisible DEF Status
<1>4. \E i \in Map!Present(Visible) : view' = [view EXCEPT ![c] = [id |-> i, doc |-> Visible[i]]]
    BY <1>2 DEF Load, Present, Map!Present
<1> QED
    BY <1>3, <1>4 DEF Map!Ordinary, Map!Load

LEMMA PublishMap ==
  ASSUME Inv, NEW c \in Clients, Publish(c)
  PROVE  Map!Ordinary
<1> DEFINE i == put[c].id
           d == IF pc[c] = "put" THEN put[c].doc ELSE NoDoc
           m == [files[active] EXCEPT ![i] = d]
<1>1. /\ pc[c] \in {"put", "remove"} /\ put[c] # NoPut /\ pc[c] \in Holding \ {"retire"} /\ put[c] \in Put
      /\ UNCHANGED <<active, old>> /\ Forget(c)
    BY DEF Publish, Inv, Equipped, Types, Holding
<1>2. up /\ dir = active /\ active \in Dirs /\ files[active] \in Contents /\ old = NoDir /\ NoSync
    <2>1. \A e \in Clients \ {c} : pc[e] \notin Holding
        BY <1>1, Alone DEF Inv
    <2> QED
        BY <1>1, <2>1 DEF Inv, Locked, Types, Separate, NoSync, Holding
<1>3. ASSUME Go(c, "done") \/ Go(c, "refused") PROVE \A e \in Clients : pc'[e] # "sync"
    BY <1>2, <1>3 DEF NoSync, Go, Inv, Types
<1>4. Visible = files[active]
    BY <1>2, Settled
<1>5. CASE Go(c, "refused") /\ UNCHANGED <<files, index>>
    <2> DEFINE s == "refused"
    <2>1. Visible' = Visible
        BY <1>1, <1>2, <1>3, <1>5, SameVisible DEF NoSync
    <2>2. s \in {"done", "refused"} /\ Go(c, s) /\ s # "done"
        BY <1>5
    <2> HIDE DEF s
    <2> QED
        BY <1>1, <2>1, <2>2, EndMap
<1>6. CASE Go(c, "done") /\ files' = [files EXCEPT ![dir] = [Documents EXCEPT ![i] = d]]
    <2> DEFINE s == "done"
    <2>1. m \in Contents
        BY <1>1, <1>2 DEF Contents, Put
    <2>2. Map!Change(request[c], view[c], files[active], m)
        BY <1>1 DEF Inv, Prepared
    <2>3. files' = [files EXCEPT ![active] = m]
        BY <1>2, <1>6 DEF Documents
    <2> HIDE DEF m
    <2>4. files'[active] = m /\ m # NoDir
        BY <1>2, <2>1, <2>3, NotDir DEF Inv, Types
    <2>5. Visible' = m
        BY <1>1, <1>3, <1>6, <2>4 DEF Visible, Holds
    <2>6. s \in {"done", "refused"} /\ Go(c, s) /\ s # "refused"
        BY <1>6
    <2> HIDE DEF s
    <2>7. request[c] \notin Map!Wholesale
        BY <1>1 DEF Inv, Equipped, Map!Wholesale
    <2> QED
        BY <1>1, <1>4, <2>1, <2>2, <2>5, <2>6, <2>7, EndMap
<1> QED
    BY <1>5, <1>6 DEF Publish

LEMMA StageMap ==
  ASSUME Inv, up, NEW c \in Clients, pc[c] = "idle", NEW p \in {"staged", "snapshot"}, Go(c, p),
         NEW r \in Map!Requests, NEW m, Stage(c, r, m)
  PROVE  Map!Ordinary
<1>1. PICK g \in Gens : /\ files[g] = NoDir
                        /\ files' = [files EXCEPT ![g] = m]
                        /\ request' = [request EXCEPT ![c] = r]
                        /\ UNCHANGED <<active, backups, checkpoint, memory, put, view, taken>>
    BY DEF Stage
<1>2. files'[active] = files[active] /\ (old # NoDir => files'[old] = files[old]) /\ UNCHANGED <<active, old, view>>
    BY <1>1 DEF Inv, Types, Separate, memory
<1>3. p \in {"put", "remove", "snapshot", "staged"}
    OBVIOUS
<1> QED
    BY <1>1, <1>2, <1>3, BeginMap DEF Map!Ordinary

LEMMA GenerationMap ==
  ASSUME Inv, NEW c \in Clients, Restore(c) \/ ReplaceCollection(c)
  PROVE  Map!Ordinary
<1>1. pc[c] = "idle" /\ up
    BY DEF Restore, ReplaceCollection, Lock
<1>2. CASE Deny(c)
    BY <1>1, <1>2, DenyMap DEF Map!Ordinary
<1>3. ASSUME NEW r \in {"restore", "replace"}, NEW p \in {"staged", "snapshot"}, NEW m, Stage(c, r, m), Go(c, p)
      PROVE  Map!Ordinary
    <2>1. r \in Map!Requests
        BY DEF Map!Requests
    <2> QED
        BY <1>1, <1>3, <2>1, StageMap
<1>4. ASSUME Restore(c) PROVE Deny(c) \/ \E m : Stage(c, "restore", m) /\ Go(c, "staged")
    BY <1>4 DEF Restore
<1>5. ASSUME ReplaceCollection(c) PROVE Deny(c) \/ \E m : Stage(c, "replace", m) /\ Go(c, "snapshot")
    BY <1>5 DEF ReplaceCollection
<1> QED
    BY <1>2, <1>3, <1>4, <1>5

\* A request goes on without an effect.
LEMMA ProceedMap ==
  ASSUME Inv, NEW c \in Clients, pc[c] \in Saving \cup {"staged"}, NEW p \in Saving \cup {"sync"}, Go(c, p),
         UNCHANGED <<request, view>>, Visible' = Visible
  PROVE  Same
<1>1. pc'[c] = p /\ \A e \in Clients \ {c} : pc'[e] = pc[e] /\ request'[e] = request[e]
    BY DEF Go, Inv, Types
<1>2. Status' = [Status EXCEPT ![c] = request[c]]
    BY <1>1, OneStatus DEF Saving
<1>3. Status[c] = request[c]
    BY DEF Status, Saving
<1>4. Status' = Status
    BY <1>2, <1>3, SameStatus
<1> QED
    BY <1>4 DEF Same

LEMMA SavingFacts ==
  ASSUME Inv, NEW c \in Clients, pc[c] \in Saving
  PROVE  /\ pc[c] \in Holding \ {"retire"} /\ up /\ dir = active /\ NoSync
         /\ \A e \in Clients \ {c} : pc[e] \notin Holding
<1>1. pc[c] \in Holding \ {"retire"} /\ pc[c] \notin {"sync", "idle"}
    BY DEF Holding, Saving
<1>2. \A e \in Clients \ {c} : pc[e] \notin Holding
    BY <1>1, Alone DEF Inv
<1>3. up /\ dir = active
    BY <1>1 DEF Inv, Locked, Separate
<1>4. NoSync
    BY <1>1, <1>2 DEF NoSync, Holding
<1> QED
    BY <1>1, <1>2, <1>3, <1>4

\* Between the steps of a snapshot, nobody's pointer is about to be synced.
LEMMA SavingVisible ==
  ASSUME Inv, NEW c \in Clients, pc[c] \in Saving, NEW p \in Places \ {"sync"}, Go(c, p), UNCHANGED <<files, active, old>>
  PROVE  Visible' = Visible
<1>1. NoSync
    BY SavingFacts
<1>2. \A e \in Clients : pc'[e] # "sync"
    BY <1>1 DEF NoSync, Go, Inv, Types
<1> QED
    BY <1>1, <1>2, SameVisible DEF NoSync

LEMMA SnapshotMap ==
  ASSUME Inv, NEW c \in Clients,
         Snapshot(c) \/ SnapshotIfChanged(c) \/ SnapshotWrite(c) \/ SnapshotRename(c) \/ SnapshotTrim(c)
  PROVE  Map!Ordinary \/ Same
<1>1. CASE Snapshot(c) \/ SnapshotIfChanged(c)
    <2>1. pc[c] = "idle"
        BY <1>1 DEF Snapshot, SnapshotIfChanged
    <2>2. CASE Deny(c)
        BY <2>1, <2>2, DenyMap DEF Map!Ordinary
    <2>3. CASE BeginSnapshot(c)
        <3> DEFINE p == "snapshot"
                   r == "snapshot"
        <3>1. /\ p \in {"put", "remove", "snapshot", "staged"} /\ r \in Map!Requests
              /\ Go(c, p) /\ request' = [request EXCEPT ![c] = r] /\ UNCHANGED <<active, old, view, files>>
            BY <2>3 DEF BeginSnapshot, Map!Requests, disk, memory
        <3> HIDE DEF p, r
        <3> QED
            BY <2>1, <3>1, BeginMap DEF Map!Ordinary
    <2>4. CASE UNCHANGED <<files, active, backups, memory, local, now, taken>>
        <3>1. UNCHANGED <<files, active, old, pc, request, view>>
            BY <2>4 DEF memory, local
        <3>2. Visible' = Visible /\ Status' = Status
            BY <3>1, SameVisible DEF Status
        <3> QED
            BY <3>1, <3>2 DEF Same
    <2> QED
        BY <1>1, <2>2, <2>3, <2>4 DEF Snapshot, SnapshotIfChanged
<1>2. CASE SnapshotWrite(c) \/ SnapshotRename(c) \/ SnapshotTrim(c)
    <2>1. pc[c] \in Saving /\ UNCHANGED <<active, old>> /\ pc = [pc EXCEPT ![c] = pc[c]]
        BY <1>2 DEF SnapshotWrite, SnapshotRename, SnapshotTrim, Saving, disk, memory, Inv, Types
    <2>2. CASE Cancel(c)
        BY <2>1, <2>2, CancelMap
    <2>3. ASSUME NEW p \in Saving, Go(c, p), UNCHANGED <<files, request, view>> PROVE Same
        <3>1. p \in Places \ {"sync"}
            BY DEF Places, Holding, Saving
        <3>2. Visible' = Visible
            BY <2>1, <2>3, <3>1, SavingVisible
        <3> QED
            BY <2>1, <2>3, <3>2, ProceedMap
    <2>4. CASE UNCHANGED <<files, local>>
        <3>1. Go(c, pc[c]) /\ UNCHANGED <<files, request, view>>
            BY <2>1, <2>4 DEF Go, local
        <3> QED
            BY <2>1, <2>3, <3>1
    <2>5. CASE request[c] = "snapshot" /\ Go(c, "done") /\ Forget(c) /\ UNCHANGED files
        <3> DEFINE s == "done"
        <3>1. s \in {"done", "refused"} /\ s # "refused" /\ Go(c, s) /\ s \in Places \ {"sync"}
            BY <2>5 DEF Places
        <3> HIDE DEF s
        <3>2. Visible' = Visible /\ Visible \in Contents
            BY <2>1, <2>5, <3>1, SavingVisible, SavingFacts, Settled
        <3>3. Map!Change(request[c], view[c], Visible, Visible')
            BY <2>5, <3>2 DEF Map!Change
        <3>4. request[c] \notin Map!Wholesale
            BY <2>5 DEF Map!Wholesale
        <3> QED
            BY <2>1, <2>5, <3>1, <3>2, <3>3, <3>4, SavingFacts, EndMap
    <2>6. ASSUME SnapshotWrite(c)
          PROVE  Cancel(c) \/ UNCHANGED <<files, local>> \/ (Go(c, "rename") /\ UNCHANGED <<files, request, view>>)
        BY <2>6 DEF SnapshotWrite, disk
    <2>7. ASSUME SnapshotRename(c)
          PROVE  Cancel(c) \/ (Go(c, "trim") /\ UNCHANGED <<files, request, view>>)
        BY <2>7 DEF SnapshotRename
    <2>8. ASSUME SnapshotTrim(c)
          PROVE  \/ Cancel(c) \/ UNCHANGED <<files, local>>
                 \/ request[c] = "snapshot" /\ Go(c, "done") /\ Forget(c) /\ UNCHANGED files
                 \/ Go(c, "commit") /\ UNCHANGED <<files, request, view>>
        BY <2>8 DEF SnapshotTrim
    <2>9. {"rename", "trim", "commit"} \subseteq Saving
        BY DEF Saving
    <2> QED
        BY <1>2, <2>2, <2>3, <2>4, <2>5, <2>6, <2>7, <2>8, <2>9
<1> QED
    BY <1>1, <1>2

LEMMA CommitMap ==
  ASSUME Inv, NEW c \in Clients, Commit(c)
  PROVE  Map!Ordinary \/ Same
<1>1. pc[c] = "commit" /\ pc[c] \in Saving
    BY DEF Commit, Saving
<1>2. dir = active /\ Visible = files[active]
    BY <1>1, SavingFacts, Settled
<1>3. CASE old' = dir /\ Go(c, "sync") /\ UNCHANGED <<files, request, view>>
    <2>1. pc'[c] = "sync"
        BY <1>3 DEF Go, Inv, Types
    <2>2. Visible' = Visible
        BY <1>1, <1>2, <1>3, <2>1, SavingFacts DEF Visible, Holds, Inv, Separate
    <2> DEFINE p == "sync"
    <2>3. p \in Saving \cup {"sync"} /\ Go(c, p)
        BY <1>3
    <2> HIDE DEF p
    <2> QED
        BY <1>1, <1>3, <2>2, <2>3, ProceedMap
<1>4. CASE Cancel(c) /\ UNCHANGED <<active, dir, index, old>>
    BY <1>1, <1>4, CancelMap
<1> QED
    BY <1>3, <1>4 DEF Commit

LEMMA LocksMap ==
  ASSUME Inv, NEW c \in Clients, TakeLocks(c)
  PROVE  Same
<1>1. /\ pc[c] = "staged" /\ MuFree /\ Go(c, "snapshot")
      /\ UNCHANGED <<files, active, old, request, view>>
    BY DEF TakeLocks, Lock, disk, memory
<1>2. NoSync
    BY <1>1 DEF MuFree, NoSync
<1>3. \A e \in Clients : pc'[e] # "sync"
    BY <1>1, <1>2 DEF NoSync, Go, Inv, Types
<1>4. Visible' = Visible
    BY <1>1, <1>2, <1>3, SameVisible DEF NoSync
<1> DEFINE p == "snapshot"
<1>5. p \in Saving \cup {"sync"} /\ Go(c, p)
    BY <1>1 DEF Saving
<1> HIDE DEF p
<1> QED
    BY <1>1, <1>4, <1>5, ProceedMap

\* Whether the disk confirms it or not.
LEMMA SyncMap ==
  ASSUME Inv, NEW c \in Clients, Sync(c)
  PROVE  Status[c] \in Map!Wholesale /\ Map!Perform(c) /\ Past' \in {{}, Past \cup {Visible}}
<1>1. /\ pc[c] = "sync" /\ pc[c] \in Holding \ {"retire"} /\ Go(c, "retire") /\ Forget(c)
      /\ UNCHANGED <<files, active, old>> /\ former' \in {{}, former \cup {old}}
    BY DEF Sync, Holding, memory
<1>2. \A e \in Clients \ {c} : pc[e] \notin Holding
    BY <1>1, Alone DEF Inv
<1>3. \A e \in Clients : pc'[e] # "sync"
    BY <1>1, <1>2 DEF Go, Inv, Types, Holding
<1>4. up /\ files[active] # NoDir /\ files[old] # NoDir
    BY <1>1 DEF Inv, Locked, Separate
<1>5. Visible = files[old] /\ Visible' = files[active] /\ Visible = Holds(old)
    BY <1>1, <1>3, <1>4 DEF Visible, Holds
<1>6. Map!Change(request[c], view[c], files[old], files[active]) /\ files[active] \in Contents
    BY <1>1, <1>4 DEF Inv, Prepared, Types, Separate
<1>7. request[c] \in Map!Wholesale
    BY <1>1 DEF Inv, Equipped, Map!Wholesale
<1>8. Past' \in {{}, Past \cup {Visible}}
    <2>1. \A d : Holds(d)' = Holds(d)
        BY <1>1 DEF Holds
    <2> QED
        BY <1>1, <1>5, <2>1 DEF Past
<1> DEFINE s == "done"
           p == "retire"
<1>9. s \in {"done", "refused"} /\ s # "refused" /\ p \in {"done", "refused", "retire"}
      /\ (p = "retire" /\ s = "done") /\ Go(c, p)
    BY <1>1
<1> HIDE DEF s, p
<1>10. Status[c] = request[c] /\ Map!Perform(c)
    BY <1>1, <1>5, <1>6, <1>9, EndMap
<1> QED
    BY <1>7, <1>8, <1>10

\* The replaced documents go, which a crash may bring back or not.
LEMMA RetireMap ==
  ASSUME Inv, AtRisk, NEW c \in Clients, Retire(c)
  PROVE  Same /\ \A m \in Past' : \E d \in Past : Map!Part(m, d)
<1>1. /\ pc[c] = "retire" /\ pc[c] \in Holding /\ Go(c, "done") /\ UNCHANGED <<active, request, view>>
      /\ files'[active] = files[active]
    BY DEF Retire, Holding, Inv, Types, Separate
<1>2. pc'[c] = "done" /\ \A e \in Clients \ {c} : pc'[e] = pc[e] /\ pc[e] \notin Holding
    BY <1>1, Alone DEF Inv, Go, Types
<1>3. Status' = Status
    <2>1. Status' = [Status EXCEPT ![c] = "done"]
        BY <1>1, <1>2, OneStatus
    <2>2. Status[c] = "done"
        BY <1>1 DEF Status
    <2> QED
        BY <2>1, <2>2, SameStatus
<1>4. Visible' = Visible
    BY <1>1, <1>2 DEF Visible, Holds, Holding
<1>5. ASSUME NEW d \in former PROVE Map!Part(Holds(d)', Holds(d))
    <2>1. d \in Dirs /\ Holds(d) \in Contents /\ old \in Dirs /\ files[old] \in Contents
        BY HoldsType DEF AtRisk, Inv, Types, Separate, Retire
    <2>2. PICK S \in SUBSET Present(files[old]) :
            files' = [files EXCEPT ![old] = IF S = {} /\ old # Root THEN NoDir
                                            ELSE [i \in Ids |-> IF i \in S THEN @[i] ELSE NoDoc]]
        BY DEF Retire
    <2> DEFINE left == [i \in Ids |-> IF i \in S THEN files[old][i] ELSE NoDoc]
    <2>3. CASE d # old
        <3>1. Holds(d)' = Holds(d)
            BY <2>1, <2>2, <2>3 DEF Holds, Inv, Types
        <3> QED
            BY <2>1, <3>1 DEF Map!Part, Map!Contents, Contents, Map!Doc, Doc
    <2>4. CASE d = old
        <3>1. left \in Contents /\ left # NoDir /\ Holds(d) = files[old] /\ NoArchive \in Contents
            BY <2>1, <2>4, NotDir DEF Contents, Holds, NoArchive
        <3>2. Holds(d)' = NoArchive \/ Holds(d)' = left
            BY <2>1, <2>2, <2>4, <3>1 DEF Holds, Inv, Types
        <3>3. \A i \in Ids : left[i] \in {files[old][i], NoDoc} /\ NoArchive[i] = NoDoc
            BY DEF NoArchive
        <3> HIDE DEF left
        <3> QED
            BY <3>1, <3>2, <3>3 DEF Map!Part, Map!Contents, Contents, Map!Doc, Doc
    <2> QED
        BY <2>3, <2>4
<1>6. UNCHANGED former
    BY DEF Retire
<1> QED
    BY <1>1, <1>3, <1>4, <1>5, <1>6 DEF Same, Past

LEMMA ReturnMap ==
  ASSUME Inv, NEW c \in Clients, Return(c)
  PROVE  Map!Ordinary
<1>1. /\ pc[c] \in {"done", "refused"} /\ Go(c, "idle") /\ UNCHANGED <<files, active, old, request, view>>
      /\ view[c] = NoView /\ view = [view EXCEPT ![c] = NoView]
    BY DEF Return, disk, memory, Inv, Equipped, Types
<1>2. pc'[c] = "idle" /\ \A e \in Clients \ {c} : pc'[e] = pc[e]
    BY <1>1 DEF Inv, Go, Types
<1>3. Status' = [Status EXCEPT ![c] = "idle"] /\ Status[c] \in {"done", "refused", "idle"}
    <2>1. Status' = [Status EXCEPT ![c] = "idle"]
        BY <1>1, <1>2, OneStatus
    <2> QED
        BY <1>1, <2>1 DEF Status
<1>4. Visible' = Visible
    BY <1>1, <1>2, SameVisible
<1> QED
    BY <1>1, <1>3, <1>4 DEF Map!Ordinary, Map!Return

\* A replacement that the crash meets between its rename and the sync has happened or not.
LEMMA CrashMap ==
  ASSUME Inv, AtRisk, Crash
  PROVE  Map!Crash
<1>1. /\ UNCHANGED files /\ up /\ files[active] # NoDir
      /\ Status' = [c \in Clients |-> "idle"] /\ view' = [c \in Clients |-> NoView]
      /\ \A c \in Clients : pc'[c] = "idle"
      /\ Past' = {}
    BY DEF Crash, Status, Past, Inv, Separate
<1>2. Visible' = Holds(active')
    BY <1>1 DEF Visible, Holds
<1>3. CASE active' = active /\ NoSync
    <2>1. Visible' = Visible
        BY <1>1, <1>2, <1>3, Settled DEF Holds
    <2> QED
        BY <1>1, <2>1 DEF Map!Crash, Past
<1>4. CASE active' = active /\ ~NoSync
    <2>1. PICK c \in Clients : pc[c] = "sync"
        BY <1>4 DEF NoSync
    <2>2. /\ Visible = files[old] /\ Visible' = files[active] /\ files[active] \in Contents
          /\ Status[c] = request[c]
        BY <1>1, <1>2, <1>4, <2>1 DEF Visible, Holds, Status, Inv, Types, Separate
    <2>3. Map!Change(request[c], view[c], files[old], files[active])
        BY <2>1 DEF Inv, Prepared
    <2>4. Map!Effect(c, Visible')
        BY <2>2, <2>3 DEF Map!Effect, Map!Contents, Contents, Map!Doc, Doc
    <2> QED
        BY <1>1, <2>4 DEF Map!Crash, Past
<1>5. CASE active' = old /\ \E c \in Clients : pc[c] = "sync"
    <2>1. Visible' = Visible
        BY <1>2, <1>5 DEF Visible
    <2> QED
        BY <1>1, <2>1 DEF Map!Crash, Past
<1>6. CASE active' \in former
    <2>1. Visible' \in Past
        BY <1>2, <1>6 DEF Past
    <2> QED
        BY <1>1, <2>1 DEF Map!Crash, Past
<1> QED
    BY <1>3, <1>4, <1>5, <1>6 DEF Crash

LEMMA QuietMap ==
  ASSUME Inv, (\E r \in Readers : Open(r) \/ CloseDownload(r)) \/ Start \/ StartRefused \/ UNCHANGED vars
  PROVE  Same
<1>1. UNCHANGED <<active, old, pc, request, view>> /\ files'[active] = files[active]
      /\ (old # NoDir => files'[old] = files[old])
    <2>1. ASSUME NEW r \in Readers, Open(r) \/ CloseDownload(r) PROVE UNCHANGED <<files, active, old, pc, request, view>>
        BY <2>1 DEF Open, CloseDownload, disk, local
    <2>2. ASSUME Start PROVE /\ UNCHANGED <<active, old, pc, request, view>> /\ files'[active] = files[active]
                             /\ old = NoDir
        <3>1. ~up /\ UNCHANGED <<active, old, pc, request, view>> /\ active \in Dirs
            BY <2>2 DEF Start, local, Inv, Types
        <3>2. files'[active] = files[active]
            BY <2>2, <3>1 DEF Start
        <3>3. old = NoDir
            BY <3>1 DEF Inv, Locked, Separate
        <3> QED
            BY <3>1, <3>2, <3>3
    <2>3. ASSUME StartRefused \/ UNCHANGED vars PROVE UNCHANGED <<files, active, old, pc, request, view>>
        BY <2>3 DEF StartRefused, vars, disk, memory, local
    <2> QED
        BY <2>1, <2>2, <2>3
<1>2. Visible' = Visible /\ Status' = Status
    BY <1>1, SameVisible DEF Status
<1> QED
    BY <1>1, <1>2 DEF Same

\* Nothing else touches what a crash may bring back.
LEMMA PastStep ==
  ASSUME Inv, AtRisk, [Next]_vars
  PROVE  (\E c \in Clients : Sync(c) \/ Retire(c)) \/ Crash \/ Past' = Past
<1>1. former \subseteq Dirs /\ active \notin former /\ (~up => former = {}) /\ \A c \in Clients : stage[c] \notin former
    BY DEF AtRisk
<1>2. ASSUME UNCHANGED former, \A d \in former : files'[d] = files[d] PROVE Past' = Past
    <2>1. \A d \in former : Holds(d)' = Holds(d)
        BY <1>2 DEF Holds
    <2> QED
        BY <1>2, <2>1 DEF Past
<1>3. ASSUME NEW c \in Clients, Cancel(c) PROVE \A d \in former : files'[d] = files[d]
    BY <1>1, <1>3 DEF Cancel, Inv, Types
<1>4. ASSUME NEW c \in Clients, NEW r, NEW m, Stage(c, r, m)
      PROVE  UNCHANGED former /\ \A d \in former : files'[d] = files[d]
    BY <1>1, <1>4 DEF Stage, Inv, Types
<1>5. ASSUME NEW c \in Clients, Deny(c) PROVE UNCHANGED <<files, former>>
    BY <1>5 DEF Deny, disk
<1>6. ASSUME NEW c \in Clients, NEW r, NEW i, NEW d, Write(c, r, i, d) PROVE UNCHANGED <<files, former>>
    BY <1>5, <1>6 DEF Write, disk
<1>7. ASSUME NEW c \in Clients, Load(c) \/ Create(c) \/ Edit(c) \/ Share(c) \/ Delete(c)
      PROVE  UNCHANGED <<files, former>>
    <2>1. CASE Load(c)
        BY <2>1 DEF Load, disk
    <2>2. CASE Create(c)
        BY <1>5, <1>6, <2>2 DEF Create
    <2>3. CASE Edit(c)
        BY <1>5, <1>6, <2>3 DEF Edit
    <2>4. CASE Share(c)
        BY <1>5, <1>6, <2>4 DEF Share
    <2>5. CASE Delete(c)
        BY <1>5, <2>5 DEF Delete, disk
    <2> QED
        BY <1>7, <2>1, <2>2, <2>3, <2>4, <2>5
<1>8. ASSUME NEW c \in Clients, Publish(c)
      PROVE  UNCHANGED former /\ \A d \in former : files'[d] = files[d]
    <2>1. up /\ dir = active
        BY <1>8 DEF Publish, Inv, Locked, Separate
    <2> QED
        BY <1>1, <1>8, <2>1 DEF Publish, Inv, Types
<1>9. ASSUME NEW c \in Clients, TakeLocks(c) \/ Return(c) \/ Snapshot(c) \/ SnapshotIfChanged(c)
      PROVE  UNCHANGED <<files, former>>
    BY <1>5, <1>9 DEF TakeLocks, Return, Snapshot, SnapshotIfChanged, BeginSnapshot, disk
<1>10. ASSUME NEW c \in Clients, SnapshotWrite(c) \/ SnapshotRename(c) \/ SnapshotTrim(c) \/ Commit(c)
       PROVE  UNCHANGED former /\ \A d \in former : files'[d] = files[d]
    <2>1. CASE SnapshotWrite(c)
        BY <1>3, <2>1 DEF SnapshotWrite, disk
    <2>2. CASE SnapshotRename(c)
        BY <1>3, <2>2 DEF SnapshotRename
    <2>3. CASE SnapshotTrim(c)
        BY <1>3, <2>3 DEF SnapshotTrim
    <2>4. CASE Commit(c)
        BY <1>3, <2>4 DEF Commit
    <2> QED
        BY <1>10, <2>1, <2>2, <2>3, <2>4
<1>11. ASSUME NEW c \in Clients, Restore(c) \/ ReplaceCollection(c)
       PROVE  UNCHANGED former /\ \A d \in former : files'[d] = files[d]
    <2>1. ASSUME Restore(c) PROVE Deny(c) \/ \E m : Stage(c, "restore", m)
        BY <2>1 DEF Restore
    <2>2. ASSUME ReplaceCollection(c) PROVE Deny(c) \/ \E m : Stage(c, "replace", m)
        BY <2>2 DEF ReplaceCollection
    <2> QED
        BY <1>4, <1>5, <1>11, <2>1, <2>2
<1>12. ASSUME NEW r \in Readers, Open(r) \/ CloseDownload(r) PROVE UNCHANGED <<files, former>>
    BY <1>12 DEF Open, CloseDownload, disk
<1>13. ASSUME Start PROVE UNCHANGED former /\ former = {}
    BY <1>1, <1>13 DEF Start
<1>14. ASSUME StartRefused \/ UNCHANGED vars PROVE UNCHANGED <<files, former>>
    BY <1>14 DEF StartRefused, vars, disk
<1> QED
    BY <1>2, <1>7, <1>8, <1>9, <1>10, <1>11, <1>12, <1>13, <1>14 DEF Next

LEMMA MapStep ==
  ASSUME Inv, AtRisk, [Next]_vars
  PROVE  [Map!Next]_Map!vars
<1>1. ASSUME Map!Ordinary, Past' = Past PROVE Map!Next
    BY <1>1 DEF Map!Next, Past
<1>2. ASSUME Same, Past' = Past PROVE UNCHANGED Map!vars
    BY <1>2 DEF Same, Map!vars, Past
<1>3. CASE Crash
    BY <1>3, CrashMap DEF Map!Next
<1>4. ASSUME NEW c \in Clients, Sync(c) PROVE Map!Next
    <2>1. Map!Replace(c)
        BY <1>4, SyncMap DEF Map!Replace, Past
    <2> QED
        BY <2>1 DEF Map!Next
<1>5. ASSUME NEW c \in Clients, Retire(c) PROVE Map!Next
    <2>1. Map!Remove
        BY <1>5, RetireMap DEF Map!Remove, Same, Past
    <2> QED
        BY <2>1 DEF Map!Next
<1>6. CASE ~Crash /\ ~\E c \in Clients : Sync(c) \/ Retire(c)
    <2>1. Past' = Past
        BY <1>6, PastStep
    <2>2. CASE (\E r \in Readers : Open(r) \/ CloseDownload(r)) \/ Start \/ StartRefused \/ UNCHANGED vars
        BY <1>2, <2>1, <2>2, QuietMap
    <2>3. ASSUME NEW c \in Clients, Create(c) \/ Edit(c) \/ Share(c) \/ Delete(c) PROVE Map!Next
        BY <1>1, <2>1, <2>3, EditingMap
    <2>4. ASSUME NEW c \in Clients, Load(c) \/ Publish(c) \/ Restore(c) \/ ReplaceCollection(c) \/ Return(c)
          PROVE  Map!Next
        BY <1>1, <2>1, <2>4, LoadMap, PublishMap, GenerationMap, ReturnMap
    <2>5. ASSUME NEW c \in Clients,
                 Snapshot(c) \/ SnapshotIfChanged(c) \/ SnapshotWrite(c) \/ SnapshotRename(c) \/ SnapshotTrim(c)
          PROVE  Map!Next \/ UNCHANGED Map!vars
        BY <1>1, <1>2, <2>1, <2>5, SnapshotMap
    <2>6. ASSUME NEW c \in Clients, TakeLocks(c) \/ Commit(c)
          PROVE  Map!Next \/ UNCHANGED Map!vars
        BY <1>1, <1>2, <2>1, <2>6, LocksMap, CommitMap
    <2> QED
        BY <1>6, <2>2, <2>3, <2>4, <2>5, <2>6 DEF Next
<1> QED
    BY <1>3, <1>4, <1>5, <1>6

LEMMA MapInit ==
  ASSUME Init
  PROVE  Map!Init
<1>1. /\ Status = [c \in Clients |-> "idle"] /\ Past = {}
      /\ \A c \in Clients : pc[c] # "sync"
    BY DEF Init, Status, Past
<1>2. active \in Dirs /\ Visible = Holds(active)
    BY <1>1 DEF Init, Visible, Dirs
<1>3. Visible \in Contents
    BY <1>2, InitInv, HoldsType DEF Inv
<1> QED
    BY <1>1, <1>3 DEF Init, Map!Init, Map!Contents, Contents, Map!Doc, Doc, Past

\* The store of files, pointers and locks is a map that requests change one at a time,
\* wholly or not at all, and without losing an edit, whatever else fails and whenever it
\* crashes; but once the sync of a new pointer has failed, which commitGenerationLocked
\* ignores, a crash may put what is left of replaced documents in place of the new ones
\* (store.go, backup.go, compat_store.go).
THEOREM StoreIsMap == Spec => MapKept
<1>1. Init => Map!Init
    BY MapInit
<1>2. Inv /\ AtRisk /\ [Next]_vars => [Map!Next]_Map!vars
    BY MapStep
<1> QED
    BY <1>1, <1>2, InvAlways, PTL DEF Spec, MapKept, Map!Spec

\* While the process runs, the index is what the active directory holds (put, deleteLocked,
\* commitGenerationLocked, NewStore).
THEOREM IndexIsExact == Spec => []IndexExact
<1>1. Inv => IndexExact
    BY DEF Inv, Separate, IndexExact
<1> QED
    BY <1>1, InvAlways, PTL

LEMMA UndoableStep ==
  ASSUME Inv, Next, active' # active, up'
  PROVE  \E b \in backups : b.docs = Strip(files[active])
<1>1. PICK c \in Clients : Commit(c)
    <2>1. ASSUME NEW c \in Clients, Load(c) \/ Create(c) \/ Edit(c) \/ Share(c) \/ Delete(c) PROVE active' = active
        BY <2>1 DEF Load, Create, Edit, Share, Delete, Write, Deny, disk
    <2>2. ASSUME NEW c \in Clients, Restore(c) \/ ReplaceCollection(c) PROVE active' = active
        BY <2>2 DEF Restore, ReplaceCollection, Stage, Deny, disk
    <2>3. ASSUME NEW c \in Clients, Snapshot(c) \/ SnapshotIfChanged(c) \/ SnapshotWrite(c)
                                    \/ SnapshotRename(c) \/ SnapshotTrim(c)
          PROVE active' = active
        BY <2>3 DEF Snapshot, SnapshotIfChanged, BeginSnapshot, SnapshotWrite, SnapshotRename, SnapshotTrim, Deny, disk
    <2>4. ASSUME NEW c \in Clients, Publish(c) \/ TakeLocks(c) \/ Sync(c) \/ Retire(c) \/ Return(c) PROVE active' = active
        BY <2>4 DEF Publish, TakeLocks, Sync, Retire, Return, disk
    <2>5. ASSUME NEW r \in Readers, Open(r) \/ CloseDownload(r) PROVE active' = active
        BY <2>5 DEF Open, CloseDownload, disk
    <2>6. Start => active' = active
        BY DEF Start
    <2>7. Crash => ~up'
        BY DEF Crash
    <2>8. StartRefused => active' = active
        BY DEF StartRefused, vars, disk
    <2> QED
        BY <2>1, <2>2, <2>3, <2>4, <2>5, <2>6, <2>7, <2>8 DEF Next
<1> QED
    BY <1>1 DEF Inv, Saved, Commit

\* A restore or a replacement switches to new documents only when a snapshot holds the old.
THEOREM ReplacedIsUndoable == Spec => Undoable
<1>1. Inv /\ [Next]_vars => [active' # active /\ up' => \E b \in backups : b.docs = Strip(files[active])]_vars
    BY UndoableStep
<1> QED
    BY <1>1, InvAlways, PTL DEF Spec, Undoable

-----------------------------------------------------------------------------
(* Snapshots that stay, and what the daily check relies on.                  *)

\* One step removes at most one snapshot, that nobody downloads, and never the last.
LEMMA RemovalStep ==
  ASSUME Inv, NEW c \in Clients, SnapshotWrite(c) \/ SnapshotTrim(c)
  PROVE  /\ backups' \subseteq backups
         /\ \A b \in backups : b \notin backups' => ~Pinned(b) /\ backups' # {}
<1>1. \A b \in backups : b.name \in Nat
    BY DEF Inv, Types
<1>2. CASE UNCHANGED backups
    BY <1>2
<1>3. CASE SnapshotWrite(c) /\ backups' # backups
    <2> DEFINE o == Oldest(Removable(backups))
    <2>1. /\ Cardinality(backups) > 1 /\ Removable(backups) # {}
          /\ backups' = backups \ {o}
        BY <1>3 DEF SnapshotWrite, disk
    <2>2. o \in Removable(backups)
        BY <1>1, <2>1, OldestOf DEF Removable
    <2> HIDE DEF o
    <2>3. backups # {o}
        BY <2>1, FS_Singleton
    <2> QED
        BY <2>1, <2>2, <2>3 DEF Removable
<1>4. CASE SnapshotTrim(c) /\ backups' # backups
    <2> DEFINE n == Newest(backups)
               extra == Removable(backups \ {n})
    <2>1. pc[c] = "trim" /\ extra # {} /\ backups' = backups \ {Oldest(extra)}
        BY <1>4 DEF SnapshotTrim
    <2>2. n \in backups
        BY <2>1, NewestOf
    <2>3. Oldest(extra) \in extra
        BY <1>1, <2>1, OldestOf DEF Removable
    <2> HIDE DEF n
    <2> QED
        BY <2>1, <2>2, <2>3 DEF Removable
<1> QED
    BY <1>2, <1>3, <1>4

\* Other steps remove none.
LEMMA NoRemoval ==
  ASSUME [Next]_vars, \A c \in Clients : ~SnapshotWrite(c) /\ ~SnapshotTrim(c) /\ ~SnapshotRename(c)
  PROVE  backups' = backups
<1>1. ASSUME NEW c \in Clients, Load(c) \/ Create(c) \/ Edit(c) \/ Share(c) \/ Delete(c) PROVE backups' = backups
    BY <1>1 DEF Load, Create, Edit, Share, Delete, Write, Deny, disk
<1>2. ASSUME NEW c \in Clients, Restore(c) \/ ReplaceCollection(c) PROVE backups' = backups
    BY <1>2 DEF Restore, ReplaceCollection, Stage, Deny, disk
<1>3. ASSUME NEW c \in Clients, Snapshot(c) \/ SnapshotIfChanged(c) PROVE backups' = backups
    BY <1>3 DEF Snapshot, SnapshotIfChanged, BeginSnapshot, Deny, disk
<1>4. ASSUME NEW c \in Clients, Publish(c) \/ TakeLocks(c) \/ Commit(c) \/ Sync(c) \/ Retire(c) \/ Return(c)
      PROVE backups' = backups
    BY <1>4 DEF Publish, TakeLocks, Commit, Sync, Retire, Return, disk
<1>5. ASSUME NEW r \in Readers, Open(r) \/ CloseDownload(r) PROVE backups' = backups
    BY <1>5 DEF Open, CloseDownload, disk
<1>6. Crash \/ Start => backups' = backups
    BY DEF Crash, Start
<1>7. StartRefused \/ UNCHANGED vars => backups' = backups
    BY DEF StartRefused, vars, disk
<1> QED
    BY <1>1, <1>2, <1>3, <1>4, <1>5, <1>6, <1>7 DEF Next

\* Rotation never removes a snapshot that is being downloaded, nor the last one (snapshotWriter.Write,
\* the trim of createBackupLocked).
THEOREM SnapshotsAreKept == Spec => SnapshotsKept
<1>1. ASSUME Inv, [Next]_vars
      PROVE  \A b \in backups : b \notin backups' => ~Pinned(b) /\ backups' # {}
    <2>1. CASE \E c \in Clients : SnapshotWrite(c) \/ SnapshotTrim(c)
        BY <1>1, <2>1, RemovalStep
    <2>2. CASE \E c \in Clients : SnapshotRename(c)
        BY <2>2 DEF SnapshotRename
    <2>3. CASE \A c \in Clients : ~SnapshotWrite(c) /\ ~SnapshotTrim(c) /\ ~SnapshotRename(c)
        BY <1>1, <2>3, NoRemoval
    <2> QED
        BY <2>1, <2>2, <2>3
<1> QED
    BY <1>1, InvAlways, PTL DEF Spec, SnapshotsKept

\* The checkpoint tells what the snapshot that it names holds.
Checked ==
    /\ checkpoint \in [fingerprint : Archive \cup {NoDoc}, snapshot : Nat] /\ checkpoint.snapshot <= taken
    /\ \A b \in backups : b.name = checkpoint.snapshot => b.docs = checkpoint.fingerprint

LEMMA CheckedStep ==
  ASSUME Inv, Checked, [Next]_vars
  PROVE  Checked'
<1>1. taken \in Nat /\ \A b \in backups : b.name \in 1..taken
    BY DEF Inv, Types
<1>2. ASSUME UNCHANGED <<checkpoint, taken>>, backups' \subseteq backups PROVE Checked'
    BY <1>2 DEF Checked
<1>3. ASSUME NEW c \in Clients, SnapshotWrite(c) PROVE Checked'
    BY <1>2, <1>3, RemovalStep DEF SnapshotWrite, disk
<1>4. ASSUME NEW c \in Clients, SnapshotRename(c) PROVE Checked'
    <2>1. CASE UNCHANGED <<backups, taken>>
        BY <1>2, <1>4, <2>1 DEF SnapshotRename
    <2>2. CASE taken' = taken + 1 /\ backups' = backups \cup {[name |-> taken + 1, docs |-> Strip(Documents)]}
        <3> DEFINE n == [name |-> taken + 1, docs |-> Strip(Documents)]
        <3>1. n.name = taken + 1 /\ checkpoint' = checkpoint /\ backups' = backups \cup {n}
            BY <1>4, <2>2 DEF SnapshotRename
        <3> HIDE DEF n
        <3>2. checkpoint.snapshot \in Nat /\ n.name # checkpoint.snapshot
            BY <1>1, <3>1 DEF Checked
        <3> QED
            BY <1>1, <2>2, <3>1, <3>2 DEF Checked
    <2> QED
        BY <1>4, <2>1, <2>2 DEF SnapshotRename
<1>5. ASSUME NEW c \in Clients, SnapshotTrim(c) PROVE Checked'
    <2>1. CASE checkpoint' = checkpoint
        BY <1>2, <1>5, <2>1, RemovalStep DEF SnapshotTrim
    <2>2. CASE checkpoint' = [fingerprint |-> Fingerprint, snapshot |-> Newest(backups).name] /\ UNCHANGED backups
        <3>1. pc[c] = "trim" /\ taken' = taken
            BY <1>5 DEF SnapshotTrim
        <3>2. up /\ index = files[active] /\ index \in Contents
            BY <3>1 DEF Inv, Locked, Separate, Types
        <3>3. Fingerprint = Strip(files[active]) /\ Fingerprint \in Archive
            BY <3>2, StripType DEF Fingerprint
        <3> QED
            BY <1>1, <2>2, <3>1, <3>3, NewestOf DEF Checked
    <2> QED
        BY <1>5, <2>1, <2>2 DEF SnapshotTrim
<1>6. ASSUME NEW c \in Clients, SnapshotIfChanged(c) PROVE Checked'
    <2>1. CASE UNCHANGED <<checkpoint, backups, taken>>
        BY <1>2, <2>1
    <2>2. CASE /\ checkpoint' = [checkpoint EXCEPT !.fingerprint = Fingerprint] /\ UNCHANGED <<backups, taken>>
               /\ Unchanged
        <3>1. up /\ Fingerprint \in Archive
            BY <1>6, StripType DEF SnapshotIfChanged, Lock, Fingerprint, Inv, Types
        <3>2. Fingerprint = checkpoint.fingerprint \/ backups = {}
            BY <2>2 DEF Unchanged
        <3>3. /\ checkpoint' \in [fingerprint : Archive \cup {NoDoc}, snapshot : Nat]
              /\ checkpoint'.snapshot = checkpoint.snapshot /\ checkpoint'.fingerprint = Fingerprint
            BY <2>2, <3>1 DEF Checked
        <3> QED
            BY <2>2, <3>2, <3>3 DEF Checked
    <2> QED
        BY <1>6, <2>1, <2>2 DEF SnapshotIfChanged, BeginSnapshot, Deny, disk
<1>7. CASE \A c \in Clients : /\ ~SnapshotWrite(c) /\ ~SnapshotTrim(c) /\ ~SnapshotRename(c)
                              /\ ~SnapshotIfChanged(c)
    <2>1. backups' = backups
        BY <1>7, NoRemoval
    <2>2. UNCHANGED <<checkpoint, taken>>
        <3>1. ASSUME NEW c \in Clients, Load(c) \/ Create(c) \/ Edit(c) \/ Share(c) \/ Delete(c)
              PROVE  UNCHANGED <<checkpoint, taken>>
            BY <3>1 DEF Load, Create, Edit, Share, Delete, Write, Deny, disk
        <3>2. ASSUME NEW c \in Clients, Restore(c) \/ ReplaceCollection(c) \/ Snapshot(c)
              PROVE  UNCHANGED <<checkpoint, taken>>
            BY <3>2 DEF Restore, ReplaceCollection, Snapshot, BeginSnapshot, Stage, Deny, disk
        <3>3. ASSUME NEW c \in Clients, Publish(c) \/ TakeLocks(c) \/ Commit(c) \/ Sync(c) \/ Retire(c) \/ Return(c)
              PROVE  UNCHANGED <<checkpoint, taken>>
            BY <3>3 DEF Publish, TakeLocks, Commit, Sync, Retire, Return, disk
        <3>4. ASSUME NEW r \in Readers, Open(r) \/ CloseDownload(r) PROVE UNCHANGED <<checkpoint, taken>>
            BY <3>4 DEF Open, CloseDownload, disk
        <3>5. Crash \/ Start \/ StartRefused \/ UNCHANGED vars => UNCHANGED <<checkpoint, taken>>
            BY DEF Crash, Start, StartRefused, vars, disk
        <3> QED
            BY <1>7, <3>1, <3>2, <3>3, <3>4, <3>5 DEF Next
    <2> QED
        BY <1>2, <2>1, <2>2
<1> QED
    BY <1>3, <1>4, <1>5, <1>6, <1>7

\* When SnapshotIfChanged skips a snapshot, one that holds the documents of now is there.
THEOREM CheckpointIsTrue == Spec => []CheckpointTrue
<1>1. Init => Checked
    BY DEF Init, Checked
<1>2. Inv /\ Checked /\ [Next]_vars => Checked'
    BY CheckedStep
<1>3. Inv /\ Checked => CheckpointTrue
    BY DEF Checked, CheckpointTrue, Unchanged, Fingerprint
<1> QED
    BY <1>1, <1>2, <1>3, InvAlways, PTL DEF Spec

-----------------------------------------------------------------------------
(* Types.                                                                    *)

Rooted == files[Root] # NoDir /\ pins \in [Readers -> Nat]

LEMMA RootedStep ==
  ASSUME Inv, Rooted, [Next]_vars
  PROVE  Rooted'
<1>1. files \in [Dirs -> Contents \cup {NoDir}] /\ Root \in Dirs /\ Root \notin Gens
    BY DirsAssumption DEF Inv, Types, Dirs
<1>2. ASSUME UNCHANGED <<files, pins>> PROVE Rooted'
    BY <1>2 DEF Rooted
<1>3. ASSUME NEW c \in Clients, Load(c) \/ Create(c) \/ Edit(c) \/ Share(c) \/ Delete(c) PROVE UNCHANGED <<files, pins>>
    BY <1>3 DEF Load, Create, Edit, Share, Delete, Write, Deny, disk, memory
<1>4. ASSUME NEW c \in Clients, Publish(c) PROVE Rooted'
    <2> DEFINE m == [Documents EXCEPT ![put[c].id] = IF pc[c] = "put" THEN put[c].doc ELSE NoDoc]
    <2>1. pins' = pins /\ (files' = files \/ files' = [files EXCEPT ![dir] = m])
        BY <1>4 DEF Publish
    <2>2. m # NoDir
        <3>1. pc[c] \in {"put", "remove"} /\ put[c] \in Put
            BY <1>4 DEF Publish, Inv, Equipped, Types
        <3>2. Documents \in Contents
            BY <3>1, Running DEF Inv, Locked
        <3>3. m \in Contents
            BY <3>1, <3>2 DEF Contents, Put
        <3> QED
            BY <3>3, NotDir
    <2> HIDE DEF m
    <2> QED
        BY <1>1, <2>1, <2>2 DEF Rooted
<1>5. ASSUME NEW c \in Clients, Cancel(c), pins' = pins PROVE Rooted'
    <2>1. files' = files \/ (stage[c] # NoDir /\ files' = [files EXCEPT ![stage[c]] = NoDir])
        BY <1>5 DEF Cancel
    <2>2. stage[c] # NoDir => stage[c] # Root
        BY <1>1 DEF Inv, Types
    <2> QED
        BY <1>1, <1>5, <2>1, <2>2 DEF Rooted
<1>6. ASSUME NEW c \in Clients, SnapshotWrite(c) \/ SnapshotRename(c) \/ SnapshotTrim(c) \/ Commit(c) PROVE Rooted'
    <2>1. pins' = pins /\ (files' = files \/ Cancel(c))
        BY <1>6 DEF SnapshotWrite, SnapshotRename, SnapshotTrim, Commit, disk, memory
    <2> QED
        BY <1>2, <1>5, <2>1
<1>7. ASSUME NEW c \in Clients, Snapshot(c) \/ SnapshotIfChanged(c) \/ TakeLocks(c) \/ Sync(c) \/ Return(c)
      PROVE  UNCHANGED <<files, pins>>
    BY <1>7 DEF Snapshot, SnapshotIfChanged, BeginSnapshot, TakeLocks, Sync, Return, Deny, disk, memory
<1>8. ASSUME NEW c \in Clients, Restore(c) \/ ReplaceCollection(c) PROVE Rooted'
    <2>1. CASE Deny(c)
        BY <1>2, <2>1 DEF Deny, disk, memory
    <2>2. ASSUME NEW r, NEW m, Stage(c, r, m) PROVE Rooted'
        BY <1>1, <2>2 DEF Stage, Rooted, memory
    <2> QED
        BY <1>8, <2>1, <2>2 DEF Restore, ReplaceCollection
<1>9. ASSUME NEW c \in Clients, Retire(c) PROVE Rooted'
    <2>1. PICK S \in SUBSET Present(files[old]) :
            files' = [files EXCEPT ![old] = IF S = {} /\ old # Root THEN NoDir
                                            ELSE [i \in Ids |-> IF i \in S THEN @[i] ELSE NoDoc]]
        BY <1>9 DEF Retire
    <2> DEFINE m == [i \in Ids |-> IF i \in S THEN files[old][i] ELSE NoDoc]
    <2>2. files[old] \in Contents
        BY <1>9 DEF Retire, Inv, Types, Separate
    <2>3. m \in Contents
        BY <2>2 DEF Contents
    <2>4. files' = [files EXCEPT ![old] = IF S = {} /\ old # Root THEN NoDir ELSE m] /\ m # NoDir
        BY <2>1, <2>3, NotDir
    <2> HIDE DEF m
    <2> QED
        BY <1>1, <1>9, <2>4 DEF Retire, Rooted
<1>10. ASSUME NEW r \in Readers, Open(r) \/ CloseDownload(r) PROVE Rooted'
    <2>1. files' = files /\ \A b \in backups : b.name \in Nat
        BY <1>10 DEF Open, CloseDownload, disk, Inv, Types
    <2> QED
        BY <1>10, <2>1 DEF Open, CloseDownload, Rooted
<1>11. Crash => Rooted'
    BY DEF Crash, Rooted
<1>12. Start => Rooted'
    BY <1>1 DEF Start, Rooted
<1>13. StartRefused \/ UNCHANGED vars => UNCHANGED <<files, pins>>
    BY DEF StartRefused, vars, disk, memory
<1> QED
    BY <1>2, <1>3, <1>4, <1>6, <1>7, <1>8, <1>9, <1>10, <1>11, <1>12, <1>13 DEF Next

\* The variables have their types; the root directory, and every directory that somebody is
\* about to switch to or has switched away from, is there (NewStore, commitGenerationLocked).
THEOREM TypeCorrect == Spec => []TypeOK
<1>1. Init => Checked /\ Rooted
    <2>1. ASSUME Init PROVE files[Root] # NoDir
        <3>1. PICK m \in Earlier : files = [d \in Dirs |-> IF d = Root THEN m ELSE NoDir]
            BY <2>1 DEF Init
        <3> QED
            BY <3>1, EarlierAssumption, NotDir DEF Dirs
    <2>2. Init => Checked /\ pins \in [Readers -> Nat]
        BY DEF Init, Checked
    <2> QED
        BY <2>1, <2>2 DEF Rooted
<1>2. Inv /\ Checked /\ Rooted /\ [Next]_vars => Checked' /\ Rooted'
    BY CheckedStep, RootedStep
<1>3. Inv /\ AtRisk /\ Checked /\ Rooted => TypeOK
    <2> SUFFICES ASSUME Inv, AtRisk, Checked, Rooted PROVE TypeOK
        OBVIOUS
    <2>1. ASSUME NEW c \in Clients
          PROVE  /\ put[c] \in Put \cup {NoPut} /\ stage[c] \in Gens \cup {NoDir} /\ view[c] \in Put \cup {NoView}
                 /\ pc[c] \in {"put", "remove"} => put[c] # NoPut
                 /\ pc[c] \in {"staged", "commit"} => files[stage[c]] # NoDir
                 /\ pc[c] \in {"sync", "retire"} => old # NoDir /\ files[old] # NoDir
        BY DEF Inv, Types, Equipped, Separate, Saving
    <2>2. former \subseteq Dirs /\ (up => files[active] # NoDir)
        BY DEF AtRisk, Inv, Separate
    <2> QED
        BY <2>1, <2>2 DEF Inv, Types, Checked, Rooted, TypeOK
<1> QED
    BY <1>1, <1>2, <1>3, InvAlways, PTL DEF Spec

-----------------------------------------------------------------------------
(* What is stored fits.                                                      *)

Units(m)    == {x \in Present(m) \X (1..MaxBytes + 1) : x[2] <= SizeOf[m[x[1]].body]}
Blocks(S)   == {x \in S \X (0..MaxBytes) : x[2] <= Bytes(x[1].docs)}

LEMMA UnitsFinite ==
  ASSUME NEW m
  PROVE  IsFiniteSet(Units(m)) /\ Bytes(m) = Cardinality(Units(m)) /\ Bytes(m) \in Nat
<1>1. IsFiniteSet(Present(m))
    BY IdsAssumption, FS_Subset DEF Present
<1>2. IsFiniteSet(1..MaxBytes + 1)
    <2>1. MaxBytes + 1 \in Int /\ 1 \in Int
        BY LimitAssumption
    <2> QED
        BY <2>1, FS_Interval
<1>3. IsFiniteSet(Present(m) \X (1..MaxBytes + 1))
    BY <1>1, <1>2, FS_Product
<1>4. IsFiniteSet(Units(m))
    BY <1>3, FS_Subset DEF Units
<1> QED
    BY <1>4, FS_CardinalityType DEF Units, Bytes

LEMMA UnitsMonotone ==
  ASSUME NEW m, NEW n, Units(m) \subseteq Units(n)
  PROVE  Bytes(m) <= Bytes(n)
BY UnitsFinite, FS_Subset

\* A row of the pairs that are counted.
LEMMA RowSize ==
  ASSUME NEW i, NEW a \in Nat, NEW b \in Nat, a <= b + 1
  PROVE  IsFiniteSet({i} \X (a..b)) /\ Cardinality({i} \X (a..b)) = b - a + 1
<1>1. IsFiniteSet({i}) /\ Cardinality({i}) = 1
    BY FS_Singleton
<1>2. IsFiniteSet(a..b) /\ Cardinality(a..b) = b - a + 1
    BY FS_Interval
<1> QED
    BY <1>1, <1>2, FS_Product

\* One more document, or another in its place, takes no more than its size.
LEMMA PutSize ==
  ASSUME NEW m \in Contents, NEW i \in Ids, NEW d \in Doc
  PROVE  Bytes([m EXCEPT ![i] = d]) <= Bytes(m) + SizeOf[d.body]
<1> DEFINE n == [m EXCEPT ![i] = d]
           s == SizeOf[d.body]
           R == {i} \X (1..s)
<1>1. s \in Nat \ {0} /\ MaxBytes \in Nat
    BY SizesAssumption, LimitAssumption DEF Doc
<1>2. n[i] = d /\ (\A j \in Ids \ {i} : n[j] = m[j])
    BY DEF Contents
<1> HIDE DEF n, s
<1>3. ASSUME NEW x \in Units(n) PROVE x \in Units(m) \cup R
    <2>1. x \in Present(n) \X (1..MaxBytes + 1) /\ x[2] <= SizeOf[n[x[1]].body]
        BY DEF Units
    <2>2. x = <<x[1], x[2]>> /\ x[1] \in Present(n) /\ x[2] \in 1..MaxBytes + 1 /\ x[1] \in Ids
        BY <2>1 DEF Present
    <2>3. CASE x[1] = i
        <3>1. x[2] <= s
            BY <1>2, <2>1, <2>3 DEF s
        <3>2. x[2] \in 1..s
            BY <1>1, <2>2, <3>1
        <3> QED
            BY <2>2, <2>3, <3>2
    <2>4. CASE x[1] # i
        <3>1. x[1] \in Present(m) /\ x[2] <= SizeOf[m[x[1]].body]
            BY <1>2, <2>1, <2>2, <2>4 DEF Present
        <3>2. x \in Present(m) \X (1..MaxBytes + 1)
            BY <2>1, <3>1
        <3> QED
            BY <3>1, <3>2 DEF Units
    <2> QED
        BY <2>3, <2>4
<1>4. IsFiniteSet(R) /\ Cardinality(R) = s
    <2>1. 1 \in Nat /\ s \in Nat /\ 1 <= s + 1
        BY <1>1
    <2>2. IsFiniteSet({i} \X (1..s)) /\ Cardinality({i} \X (1..s)) = s - 1 + 1
        BY <2>1, RowSize
    <2> QED
        BY <2>1, <2>2
<1>5. IsFiniteSet(Units(m)) /\ IsFiniteSet(Units(n))
    BY UnitsFinite
<1> HIDE DEF R
<1>6. Cardinality(Units(m) \cup R) <= Cardinality(Units(m)) + s /\ IsFiniteSet(Units(m) \cup R)
    <2>1. IsFiniteSet(Units(m) \cap R)
        BY <1>5, FS_Subset
    <2>2. Cardinality(Units(m) \cap R) \in Nat /\ Cardinality(Units(m)) \in Nat
        BY <1>5, <2>1, FS_CardinalityType
    <2> QED
        BY <1>1, <1>4, <1>5, <2>2, FS_Union
<1>7. Cardinality(Units(n)) <= Cardinality(Units(m) \cup R)
    BY <1>3, <1>6, FS_Subset
<1>8. Bytes(n) = Cardinality(Units(n)) /\ Bytes(m) = Cardinality(Units(m)) /\ Bytes(n) \in Nat /\ Bytes(m) \in Nat
    BY UnitsFinite
<1>9. Cardinality(Units(m) \cup R) \in Nat
    BY <1>6, FS_CardinalityType
<1>10. Bytes(n) <= Bytes(m) + s
    BY <1>1, <1>6, <1>7, <1>8, <1>9
<1> QED
    BY <1>10 DEF n, s

LEMMA RemoveSize ==
  ASSUME NEW m \in Contents, NEW i \in Ids
  PROVE  Bytes([m EXCEPT ![i] = NoDoc]) <= Bytes(m)
<1> DEFINE n == [m EXCEPT ![i] = NoDoc]
<1>1. n[i] = NoDoc /\ (\A j \in Ids \ {i} : n[j] = m[j])
    BY DEF Contents
<1> HIDE DEF n
<1>2. ASSUME NEW x \in Units(n) PROVE x \in Units(m)
    <2>1. x \in Present(n) \X (1..MaxBytes + 1) /\ x[2] <= SizeOf[n[x[1]].body]
        BY DEF Units
    <2>2. x[1] \in Present(m) /\ n[x[1]] = m[x[1]]
        BY <1>1, <2>1 DEF Present
    <2> QED
        BY <2>1, <2>2 DEF Units
<1> QED
    BY <1>2, UnitsMonotone DEF n

\* Times and revisions take no room.
LEMMA SameSize ==
  ASSUME NEW m, NEW n, \A i \in Ids : (m[i] = NoDoc <=> n[i] = NoDoc) /\ (m[i] # NoDoc => m[i].body = n[i].body)
  PROVE  Bytes(m) = Bytes(n)
<1>1. Present(m) = Present(n)
    BY DEF Present
<1>2. Units(m) = Units(n)
    <2>1. ASSUME NEW x \in Present(m) \X (1..MaxBytes + 1) PROVE m[x[1]].body = n[x[1]].body
        BY DEF Present
    <2> QED
        BY <1>1, <2>1 DEF Units
<1> QED
    BY <1>2, UnitsFinite

LEMMA StampSize ==
  ASSUME NEW a \in Archive, NEW t \in Nat
  PROVE  Bytes(Stamp(a, t)) = Bytes(a)
<1>1. ASSUME NEW i \in Ids
      PROVE  /\ Stamp(a, t)[i] = NoDoc <=> a[i] = NoDoc
             /\ a[i] # NoDoc => Stamp(a, t)[i].body = a[i].body
    <2>1. CASE a[i] = NoDoc
        BY <2>1 DEF Stamp
    <2>2. CASE a[i] # NoDoc
        <3> DEFINE d == [body |-> a[i].body, rev |-> t, share |-> a[i].share]
        <3>1. Stamp(a, t)[i] = d
            BY <2>2 DEF Stamp
        <3>2. d \in Doc /\ d.body = a[i].body
            BY <2>2 DEF Archive, Record, Doc
        <3> HIDE DEF d
        <3> QED
            BY <2>2, <3>1, <3>2, IdsAssumption
    <2> QED
        BY <2>1, <2>2
<1> QED
    BY <1>1, SameSize

LEMMA StripSize ==
  ASSUME NEW m \in Contents
  PROVE  Bytes(Strip(m)) = Bytes(m)
<1>1. ASSUME NEW i \in Ids
      PROVE  /\ Strip(m)[i] = NoDoc <=> m[i] = NoDoc
             /\ m[i] # NoDoc => Strip(m)[i].body = m[i].body
    <2>1. CASE m[i] = NoDoc
        BY <2>1 DEF Strip
    <2>2. CASE m[i] # NoDoc
        <3> DEFINE d == [body |-> m[i].body, share |-> m[i].share]
        <3>1. Strip(m)[i] = d
            BY <2>2 DEF Strip
        <3>2. d \in Record /\ d.body = m[i].body
            BY <2>2 DEF Contents, Record, Doc
        <3> HIDE DEF d
        <3> QED
            BY <2>2, <3>1, <3>2, IdsAssumption
    <2> QED
        BY <2>1, <2>2
<1> QED
    BY <1>1, SameSize

LEMMA BlocksFinite ==
  ASSUME NEW S, IsFiniteSet(S)
  PROVE  IsFiniteSet(Blocks(S)) /\ ArchiveBytes(S) = Cardinality(Blocks(S)) /\ ArchiveBytes(S) \in Nat
<1>1. IsFiniteSet(0..MaxBytes)
    BY LimitAssumption, FS_Interval
<1>2. IsFiniteSet(S \X (0..MaxBytes))
    BY <1>1, FS_Product
<1>3. IsFiniteSet(Blocks(S))
    BY <1>2, FS_Subset DEF Blocks
<1> QED
    BY <1>3, FS_CardinalityType DEF Blocks, ArchiveBytes

LEMMA RemoveBlocks ==
  ASSUME NEW S, IsFiniteSet(S), NEW T \in SUBSET S
  PROVE  IsFiniteSet(T) /\ ArchiveBytes(T) <= ArchiveBytes(S)
<1>1. IsFiniteSet(T) /\ Blocks(T) \subseteq Blocks(S)
    BY FS_Subset DEF Blocks
<1> QED
    BY <1>1, BlocksFinite, FS_Subset

\* An archive takes its documents and one unit more.
LEMMA AddBlocks ==
  ASSUME NEW S, IsFiniteSet(S), NEW n
  PROVE  IsFiniteSet(S \cup {n}) /\ ArchiveBytes(S \cup {n}) <= ArchiveBytes(S) + Bytes(n.docs) + 1
<1> DEFINE k == Bytes(n.docs)
           R == {n} \X (0..k)
<1>1. k \in Nat /\ 0 \in Nat /\ 0 <= k + 1
    BY UnitsFinite
<1> HIDE DEF k
<1>2. IsFiniteSet(R) /\ Cardinality(R) = k + 1
    <2>1. IsFiniteSet({n} \X (0..k)) /\ Cardinality({n} \X (0..k)) = k - 0 + 1
        BY <1>1, RowSize
    <2> QED
        BY <1>1, <2>1
<1>3. IsFiniteSet(S \cup {n})
    BY FS_AddElement
<1>4. ASSUME NEW x \in Blocks(S \cup {n}) PROVE x \in Blocks(S) \cup R
    <2>1. x \in (S \cup {n}) \X (0..MaxBytes) /\ x[2] <= Bytes(x[1].docs)
        BY DEF Blocks
    <2>2. x = <<x[1], x[2]>> /\ x[1] \in S \cup {n} /\ x[2] \in 0..MaxBytes
        BY <2>1
    <2>3. CASE x[1] \in S
        <3>1. x \in S \X (0..MaxBytes)
            BY <2>2, <2>3
        <3> QED
            BY <2>1, <3>1 DEF Blocks
    <2>4. CASE x[1] = n
        <3>1. x[2] <= k
            BY <2>1, <2>4 DEF k
        <3>2. x[2] \in 0..k
            BY <1>1, <2>2, <3>1, LimitAssumption
        <3> QED
            BY <2>2, <2>4, <3>2
    <2> QED
        BY <2>2, <2>3, <2>4
<1> HIDE DEF R
<1>5. IsFiniteSet(Blocks(S)) /\ IsFiniteSet(Blocks(S \cup {n}))
    BY <1>3, BlocksFinite
<1>6. IsFiniteSet(Blocks(S) \cap R)
    BY <1>5, FS_Subset
<1>7. /\ Cardinality(Blocks(S) \cap R) \in Nat /\ Cardinality(Blocks(S)) \in Nat
      /\ Cardinality(Blocks(S \cup {n})) \in Nat
    BY <1>5, <1>6, FS_CardinalityType
<1>8. /\ IsFiniteSet(Blocks(S) \cup R)
      /\ Cardinality(Blocks(S) \cup R) = Cardinality(Blocks(S)) + (k + 1) - Cardinality(Blocks(S) \cap R)
    BY <1>2, <1>5, FS_Union
<1>9. Cardinality(Blocks(S \cup {n})) <= Cardinality(Blocks(S) \cup R)
    BY <1>4, <1>8, FS_Subset
<1>10. Cardinality(Blocks(S \cup {n})) <= Cardinality(Blocks(S)) + k + 1
    BY <1>1, <1>7, <1>8, <1>9
<1> QED
    BY <1>3, <1>10, BlocksFinite DEF k

Fits ==
    /\ Bytes(Holds(active)) <= MaxBytes
    /\ old # NoDir => Bytes(files[old]) <= MaxBytes
    /\ \A c \in Clients :
        /\ pc[c] = "put"    => Bytes(files[active]) + SizeOf[put[c].doc.body] <= MaxBytes
        /\ pc[c] = "rename" => ArchiveBytes(backups) + Bytes(files[active]) < BackupLimit
        /\ stage[c] # NoDir => Bytes(files[stage[c]]) <= MaxBytes
    /\ IsFiniteSet(backups) /\ ArchiveBytes(backups) <= BackupLimit

\* Nothing is added.
LEMMA FitsLess ==
  ASSUME Fits, files'[active'] = files[active], old' # NoDir => old' = old /\ files'[old] = files[old],
         backups' \in SUBSET backups,
         \A c \in Clients : /\ pc'[c] = "put" => pc[c] = "put" /\ put'[c] = put[c]
                            /\ pc'[c] = "rename" => pc[c] = "rename"
                            /\ stage'[c] # NoDir => stage'[c] = stage[c] /\ files'[stage[c]] = files[stage[c]]
  PROVE  Fits'
<1>1. IsFiniteSet(backups') /\ ArchiveBytes(backups') <= ArchiveBytes(backups)
    BY RemoveBlocks DEF Fits
<1>2. /\ ArchiveBytes(backups') \in Nat /\ ArchiveBytes(backups) \in Nat /\ BackupLimit \in Nat
      /\ Bytes(files[active]) \in Nat
    BY <1>1, BlocksFinite, UnitsFinite, LimitAssumption DEF Fits
<1>3. ArchiveBytes(backups') <= BackupLimit
    BY <1>1, <1>2 DEF Fits
<1>4. ASSUME NEW c \in Clients, pc'[c] = "rename" PROVE ArchiveBytes(backups') + Bytes(files'[active']) < BackupLimit
    BY <1>1, <1>2, <1>4 DEF Fits
<1> QED
    BY <1>1, <1>3, <1>4 DEF Fits, Holds

LEMMA FitsCancel ==
  ASSUME Inv, Fits, NEW c \in Clients, pc[c] \in Saving, Cancel(c), UNCHANGED <<active, backups, old>>
  PROVE  Fits'
<1>1. NoSync /\ (\A e \in Clients \ {c} : pc[e] \notin Holding) /\ pc[c] \notin {"sync", "retire"}
    BY SavingFacts DEF Saving
<1>2. old = NoDir
    BY <1>1 DEF Inv, Separate, Holding
<1>3. stage[c] # active
    BY <1>1, DirsAssumption DEF Inv, Types, Separate, NoSync, Dirs
<1>4. files'[active] = files[active] /\ \A g \in Dirs : g # stage[c] => files'[g] = files[g]
    BY <1>3 DEF Cancel, Inv, Types
<1>5. ASSUME NEW e \in Clients
      PROVE  /\ pc'[e] = "put" => pc[e] = "put" /\ put'[e] = put[e]
             /\ pc'[e] = "rename" => pc[e] = "rename"
             /\ stage'[e] # NoDir => stage'[e] = stage[e] /\ files'[stage[e]] = files[stage[e]]
    <2>1. CASE e = c
        BY <2>1 DEF Cancel, Go, Inv, Types
    <2>2. CASE e # c
        <3>1. pc'[e] = pc[e] /\ put'[e] = put[e] /\ stage'[e] = stage[e]
            BY <2>2 DEF Cancel, Forget, Go, Inv, Types
        <3>2. stage[e] # NoDir => stage[e] # stage[c] /\ stage[e] \in Dirs
            BY <2>2 DEF Inv, Types, Separate, Dirs
        <3> QED
            BY <1>4, <3>1, <3>2
    <2> QED
        BY <2>1, <2>2
<1> QED
    BY <1>2, <1>4, <1>5, FitsLess

\* Only where a client is changes, and it is not about to write or to rename.
LEMMA FitsMove ==
  ASSUME Inv, Fits, NEW c \in Clients, NEW p \in Places \ {"put", "rename"}, Go(c, p),
         UNCHANGED <<files, active, old>>, backups' \in SUBSET backups,
         \A e \in Clients \ {c} : put'[e] = put[e],
         \A e \in Clients : stage'[e] \in {stage[e], NoDir}
  PROVE  Fits'
<1>1. pc'[c] = p /\ \A e \in Clients \ {c} : pc'[e] = pc[e]
    BY DEF Go, Inv, Types
<1> QED
    BY <1>1, FitsLess

LEMMA FitsSame ==
  ASSUME Fits, UNCHANGED <<files, active, old, pc, put, stage>>, backups' \in SUBSET backups
  PROVE  Fits'
BY FitsLess

LEMMA FitsDeny ==
  ASSUME Fits, NEW c \in Clients, Deny(c)
  PROVE  Fits'
<1>1. UNCHANGED <<files, active, old, pc, put, stage, backups>>
    BY DEF Deny, disk, memory
<1> QED
    BY <1>1, FitsSame

LEMMA FitsWrite ==
  ASSUME Inv, Fits, NEW c \in Clients, Ready(c), NEW r, NEW i \in Ids, NEW d \in Doc, Write(c, r, i, d)
  PROVE  Fits'
<1>1. CASE Deny(c)
    BY <1>1, FitsDeny
<1>2. CASE ~Deny(c)
    <2> DEFINE q == [id |-> i, doc |-> d]
    <2>1. /\ Bytes(Documents) + SizeOf[d.body] <= MaxBytes
          /\ Go(c, "put") /\ put' = [put EXCEPT ![c] = q] /\ UNCHANGED <<files, active, old, stage, backups>>
        BY <1>2 DEF Write, Room, disk, memory
    <2>2. q.doc = d
        OBVIOUS
    <2> HIDE DEF q
    <2>3. put'[c] = q /\ pc'[c] = "put" /\ \A e \in Clients \ {c} : put'[e] = put[e] /\ pc'[e] = pc[e]
        BY <2>1 DEF Go, Inv, Types
    <2>4. Documents = files[active]
        BY Running DEF Ready
    <2> QED
        BY <2>1, <2>2, <2>3, <2>4 DEF Fits, Holds
<1> QED
    BY <1>1, <1>2

LEMMA FitsEditing ==
  ASSUME Inv, Fits, NEW c \in Clients, Create(c) \/ Edit(c) \/ Share(c) \/ Delete(c)
  PROVE  Fits'
<1>1. up /\ Ready(c) /\ Documents \in Contents /\ now \in Nat
    BY Running DEF Create, Edit, Share, Delete, Ready, Inv, Types
<1>2. CASE Deny(c)
    BY <1>2, FitsDeny
<1>3. ASSUME NEW r, NEW i \in Ids, NEW d \in Doc, Write(c, r, i, d) PROVE Fits'
    BY <1>1, <1>3, FitsWrite
<1>4. ASSUME Create(c) PROVE Fits'
    <2>1. PICK i \in Ids, b \in Bodies :
            Deny(c) \/ Write(c, "create", i, [body |-> b, rev |-> now + 1, share |-> NoToken])
        BY <1>4 DEF Create
    <2>2. [body |-> b, rev |-> now + 1, share |-> NoToken] \in Doc
        BY <1>1 DEF Doc
    <2> QED
        BY <1>2, <1>3, <2>1, <2>2
<1>5. ASSUME Edit(c) PROVE Fits'
    <2>1. PICK i \in Ids, b \in Bodies :
            \/ Deny(c)
            \/ /\ ~Stale(c, i)
               /\ Write(c, "edit", i, [body |-> b, rev |-> now + 1, share |-> Documents[i].share])
        BY <1>5 DEF Edit
    <2>2. ~Stale(c, i) => [body |-> b, rev |-> now + 1, share |-> Documents[i].share] \in Doc
        BY <1>1 DEF Stale, Doc, Contents
    <2> QED
        BY <1>2, <1>3, <2>1, <2>2
<1>6. ASSUME Share(c) PROVE Fits'
    <2>1. PICK i \in Ids, t \in Tokens \cup {NoToken} :
            \/ Deny(c)
            \/ /\ Documents[i] # NoDoc
               /\ Write(c, "share", i, [body |-> Documents[i].body, rev |-> Documents[i].rev, share |-> t])
        BY <1>6 DEF Share
    <2>2. Documents[i] # NoDoc => [body |-> Documents[i].body, rev |-> Documents[i].rev, share |-> t] \in Doc
        BY <1>1 DEF Doc, Contents
    <2> QED
        BY <1>2, <1>3, <2>1, <2>2
<1>7. ASSUME Delete(c) PROVE Fits'
    <2>1. PICK i \in Ids :
            \/ Deny(c)
            \/ /\ Go(c, "remove") /\ put' = [put EXCEPT ![c] = [id |-> i, doc |-> Documents[i]]]
               /\ UNCHANGED <<disk, memory, stage>>
        BY <1>7 DEF Delete
    <2>2. CASE Go(c, "remove") /\ put' = [put EXCEPT ![c] = [id |-> i, doc |-> Documents[i]]]
               /\ UNCHANGED <<disk, memory, stage>>
        <3> DEFINE p == "remove"
        <3>1. Go(c, p) /\ p \in Places \ {"put", "rename"} /\ UNCHANGED <<files, active, old, stage, backups>>
            BY <2>2 DEF Places, Holding, disk, memory
        <3>2. \A e \in Clients \ {c} : put'[e] = put[e]
            BY <2>2 DEF Inv, Types
        <3> HIDE DEF p
        <3> QED
            BY <3>1, <3>2, FitsMove
    <2> QED
        BY <1>2, <2>1, <2>2
<1> QED
    BY <1>4, <1>5, <1>6, <1>7

LEMMA FitsPublish ==
  ASSUME Inv, Fits, NEW c \in Clients, Publish(c)
  PROVE  Fits'
<1> DEFINE i == put[c].id
           d == IF pc[c] = "put" THEN put[c].doc ELSE NoDoc
           m == [files[active] EXCEPT ![i] = d]
<1>1. /\ pc[c] \in {"put", "remove"} /\ put[c] \in Put /\ pc[c] \in Holding
      /\ UNCHANGED <<active, backups, old, stage>>
      /\ \A e \in Clients \ {c} : put'[e] = put[e]
    BY DEF Publish, Forget, Inv, Equipped, Types, Holding
<1>2. /\ dir = active /\ active \in Dirs /\ files[active] \in Contents /\ old = NoDir
      /\ \A e \in Clients \ {c} : pc[e] \notin Holding
      /\ \A e \in Clients : stage[e] # NoDir => stage[e] # active /\ stage[e] \in Dirs
    <2>1. \A e \in Clients \ {c} : pc[e] \notin Holding
        BY <1>1, Alone DEF Inv
    <2> QED
        BY <1>1, <2>1 DEF Inv, Locked, Types, Separate, Holding, Dirs
<1>3. CASE Go(c, "refused") /\ UNCHANGED files
    <2> DEFINE p == "refused"
    <2>1. Go(c, p) /\ p \in Places \ {"put", "rename"}
        BY <1>3 DEF Places
    <2> HIDE DEF p
    <2> QED
        BY <1>1, <1>3, <2>1, FitsMove
<1>4. CASE Go(c, "done") /\ files' = [files EXCEPT ![dir] = [Documents EXCEPT ![i] = d]]
    <2>1. /\ files'[active] = m /\ \A g \in Dirs \ {active} : files'[g] = files[g]
        BY <1>2, <1>4 DEF Documents, Inv, Types
    <2>2. Bytes(m) <= MaxBytes
        <3>1. i \in Ids /\ put[c].doc \in Doc
            BY <1>1 DEF Put
        <3>2. MaxBytes \in Nat /\ Bytes(m) \in Nat /\ Bytes(files[active]) \in Nat
            BY LimitAssumption, UnitsFinite
        <3>3. CASE pc[c] = "put"
            <4>1. Bytes(m) <= Bytes(files[active]) + SizeOf[put[c].doc.body] /\ SizeOf[put[c].doc.body] \in Nat
                BY <1>2, <3>1, <3>3, PutSize, SizesAssumption DEF Doc
            <4>2. Bytes(files[active]) + SizeOf[put[c].doc.body] <= MaxBytes
                BY <3>3 DEF Fits
            <4> HIDE DEF m, i, d
            <4> QED
                BY <3>2, <4>1, <4>2
        <3>4. CASE pc[c] = "remove"
            <4>1. Bytes(m) <= Bytes(files[active]) /\ Bytes(files[active]) <= MaxBytes
                BY <1>2, <3>1, <3>4, RemoveSize, NotDir DEF Fits, Holds
            <4> HIDE DEF m, i, d
            <4> QED
                BY <3>2, <4>1
        <3> QED
            BY <1>1, <3>3, <3>4
    <2>5. m # NoDir
        <3>1. m \in Contents
            BY <1>1, <1>2 DEF Contents, Put
        <3> HIDE DEF m, i, d
        <3> QED
            BY <3>1, NotDir
    <2> HIDE DEF m, i, d
    <2>3. pc'[c] = "done" /\ \A e \in Clients \ {c} : pc'[e] = pc[e] /\ pc'[e] \notin {"put", "rename"}
        BY <1>2, <1>4 DEF Go, Inv, Types, Holding, Saving
    <2>4. ASSUME NEW e \in Clients, stage'[e] # NoDir PROVE Bytes(files'[stage'[e]]) <= MaxBytes
        BY <1>1, <1>2, <2>1, <2>4 DEF Fits
    <2> QED
        BY <1>1, <1>2, <2>1, <2>2, <2>3, <2>4, <2>5 DEF Fits, Holds
<1> QED
    BY <1>3, <1>4 DEF Publish

LEMMA FitsSnapshot ==
  ASSUME Inv, Fits, NEW c \in Clients,
         Snapshot(c) \/ SnapshotIfChanged(c) \/ SnapshotWrite(c) \/ SnapshotRename(c) \/ SnapshotTrim(c)
  PROVE  Fits'
<1>1. CASE Snapshot(c) \/ SnapshotIfChanged(c)
    <2>1. CASE BeginSnapshot(c)
        <3> DEFINE p == "snapshot"
        <3>1. /\ Go(c, p) /\ p \in Places \ {"put", "rename"} /\ UNCHANGED <<files, active, old, stage, put, backups>>
            BY <2>1 DEF BeginSnapshot, Places, Holding, Saving, disk, memory
        <3> HIDE DEF p
        <3> QED
            BY <3>1, FitsMove
    <2>2. CASE UNCHANGED <<files, active, backups, memory, local, now, taken>>
        <3>1. UNCHANGED <<files, active, old, pc, put, stage, backups>>
            BY <2>2 DEF memory, local
        <3> QED
            BY <3>1, FitsSame
    <2> QED
        BY <1>1, <2>1, <2>2, FitsDeny DEF Snapshot, SnapshotIfChanged
<1>2. CASE SnapshotWrite(c) \/ SnapshotRename(c) \/ SnapshotTrim(c)
    <2>1. /\ pc[c] \in Saving /\ UNCHANGED <<active, old>> /\ up /\ Documents = files[active] /\ Documents \in Contents
          /\ \A e \in Clients \ {c} : pc[e] \notin Holding
        <3>1. pc[c] \in Saving /\ UNCHANGED <<active, old>>
            BY <1>2 DEF SnapshotWrite, SnapshotRename, SnapshotTrim, Saving, disk, memory
        <3> QED
            BY <3>1, SavingFacts, Running
    <2>2. CASE Cancel(c) /\ backups' = backups
        BY <2>1, <2>2, FitsCancel
    <2>3. CASE UNCHANGED <<files, local>> /\ backups' \in SUBSET backups
        <3>1. UNCHANGED <<files, active, old, pc, put, stage>>
            BY <2>1, <2>3 DEF local
        <3> QED
            BY <2>3, <3>1, FitsSame
    <2>4. ASSUME NEW p \in {"trim", "commit", "done"}, Go(c, p), UNCHANGED <<files, backups, stage>>,
                 \A e \in Clients \ {c} : put'[e] = put[e]
          PROVE  Fits'
        <3>1. p \in Places \ {"put", "rename"}
            BY DEF Places, Holding, Saving
        <3> QED
            BY <2>1, <2>4, <3>1, FitsMove
    <2>5. CASE SnapshotWrite(c)
        <3>1. CASE /\ ArchiveBytes(backups) + Bytes(Documents) < BackupLimit
                   /\ Go(c, "rename") /\ UNCHANGED <<disk, stage, request, put, view>>
            <4>1. /\ pc'[c] = "rename" /\ \A e \in Clients \ {c} : pc'[e] = pc[e] /\ pc'[e] \notin {"put", "rename"}
                BY <2>1, <3>1 DEF Go, Inv, Types, Holding, Saving
            <4>2. UNCHANGED <<files, backups, stage, put>>
                BY <3>1 DEF disk
            <4> QED
                BY <2>1, <3>1, <4>1, <4>2 DEF Fits, Holds
        <3>2. CASE backups' = backups \ {Oldest(Removable(backups))} /\ UNCHANGED <<files, active, checkpoint, local>>
            BY <2>3, <3>2
        <3> QED
            BY <2>2, <2>5, <3>1, <3>2 DEF SnapshotWrite
    <2>6. CASE SnapshotRename(c)
        <3>1. CASE /\ backups' = backups \cup {[name |-> taken + 1, docs |-> Strip(Documents)]}
                   /\ Go(c, "trim") /\ UNCHANGED <<files, stage, request, put, view>>
            <4> DEFINE n == [name |-> taken + 1, docs |-> Strip(Documents)]
            <4>1. backups' = backups \cup {n} /\ n.docs = Strip(Documents)
                BY <3>1
            <4> HIDE DEF n
            <4>2. Bytes(n.docs) = Bytes(files[active])
                BY <2>1, <4>1, StripSize
            <4>3. IsFiniteSet(backups') /\ ArchiveBytes(backups') <= ArchiveBytes(backups) + Bytes(files[active]) + 1
                BY <4>1, <4>2, AddBlocks DEF Fits
            <4>4. pc[c] = "rename" /\ ArchiveBytes(backups) + Bytes(files[active]) < BackupLimit
                BY <2>6 DEF SnapshotRename, Fits
            <4>5. /\ ArchiveBytes(backups') \in Nat /\ ArchiveBytes(backups) \in Nat /\ BackupLimit \in Nat
                  /\ Bytes(files[active]) \in Nat
                BY <4>3, BlocksFinite, UnitsFinite, LimitAssumption DEF Fits
            <4>6. ArchiveBytes(backups') <= BackupLimit
                BY <4>3, <4>4, <4>5
            <4>7. /\ pc'[c] = "trim" /\ \A e \in Clients \ {c} : pc'[e] = pc[e] /\ pc'[e] \notin {"put", "rename"}
                BY <2>1, <3>1 DEF Go, Inv, Types, Holding, Saving
            <4> QED
                BY <2>1, <3>1, <4>3, <4>6, <4>7 DEF Fits, Holds
        <3> QED
            BY <2>2, <2>6, <3>1 DEF SnapshotRename
    <2>7. CASE SnapshotTrim(c)
        <3>1. CASE \/ /\ backups' = backups \ {Oldest(Removable(backups \ {Newest(backups)}))}
                      /\ UNCHANGED <<files, checkpoint, local>>
                   \/ Cancel(c) /\ UNCHANGED <<backups, checkpoint>>
            BY <2>2, <2>3, <3>1
        <3>2. CASE /\ IF request[c] = "snapshot" THEN Go(c, "done") /\ Forget(c)
                      ELSE Go(c, "commit") /\ UNCHANGED <<request, put, view>>
                   /\ UNCHANGED <<files, backups, stage>>
            <4>1. \A e \in Clients \ {c} : put'[e] = put[e]
                BY <3>2 DEF Forget, Inv, Types
            <4> QED
                BY <2>4, <3>2, <4>1
        <3> QED
            BY <2>7, <3>1, <3>2 DEF SnapshotTrim
    <2> QED
        BY <1>2, <2>5, <2>6, <2>7
<1> QED
    BY <1>1, <1>2

LEMMA FitsStage ==
  ASSUME Inv, Fits, up, NEW c \in Clients, NEW r, NEW m, Stage(c, r, m), Bytes(m) <= MaxBytes,
         NEW p \in {"staged", "snapshot"}, Go(c, p)
  PROVE  Fits'
<1>1. PICK g \in Gens : /\ files[g] = NoDir /\ files' = [files EXCEPT ![g] = m] /\ stage' = [stage EXCEPT ![c] = g]
                        /\ UNCHANGED <<active, backups, old, put>>
    BY DEF Stage, memory
<1>2. /\ files'[g] = m /\ \A h \in Dirs \ {g} : files'[h] = files[h]
      /\ active \in Dirs \ {g} /\ (old # NoDir => old \in Dirs \ {g})
      /\ \A e \in Clients : stage[e] # NoDir => stage[e] \in Dirs \ {g}
    BY <1>1 DEF Inv, Types, Separate, Dirs
<1>3. /\ pc'[c] = p /\ stage'[c] = g /\ \A e \in Clients \ {c} : pc'[e] = pc[e] /\ stage'[e] = stage[e]
    BY <1>1 DEF Go, Inv, Types
<1>4. ASSUME NEW e \in Clients, stage'[e] # NoDir PROVE Bytes(files'[stage'[e]]) <= MaxBytes
    BY <1>2, <1>3, <1>4 DEF Fits
<1> QED
    BY <1>1, <1>2, <1>3, <1>4 DEF Fits, Holds

LEMMA FitsGeneration ==
  ASSUME Inv, Fits, NEW c \in Clients, Restore(c) \/ ReplaceCollection(c)
  PROVE  Fits'
<1>0. up
    BY DEF Restore, ReplaceCollection, Lock
<1>1. ASSUME NEW r, NEW m, Stage(c, r, m), Bytes(m) <= MaxBytes, Go(c, "staged") \/ Go(c, "snapshot") PROVE Fits'
    BY <1>0, <1>1, FitsStage
<1>2. ASSUME Restore(c) PROVE Fits'
    <2>1. PICK a \in Uploads \cup {b.docs : b \in backups} :
            \/ Bytes(a) <= MaxBytes /\ Stage(c, "restore", Stamp(a, now + 1)) /\ Go(c, "staged")
            \/ Deny(c)
        BY <1>2 DEF Restore
    <2>2. a \in Archive /\ now + 1 \in Nat
        BY SizesAssumption DEF Inv, Types
    <2>3. Bytes(Stamp(a, now + 1)) = Bytes(a)
        BY <2>2, StampSize
    <2> QED
        BY <1>1, <2>1, <2>3, FitsDeny
<1>3. ASSUME ReplaceCollection(c) PROVE Fits'
    <2>1. PICK k, B, f :
            \/ /\ Bytes(Replacement(k, B, f)) <= MaxBytes
               /\ Stage(c, "replace", Replacement(k, B, f)) /\ Go(c, "snapshot")
            \/ Deny(c)
        BY <1>3 DEF ReplaceCollection
    <2> QED
        BY <1>1, <2>1, FitsDeny
<1> QED
    BY <1>2, <1>3

LEMMA FitsCommit ==
  ASSUME Inv, Fits, NEW c \in Clients, Commit(c)
  PROVE  Fits'
<1>1. pc[c] = "commit" /\ pc[c] \in Saving /\ backups' = backups
    BY DEF Commit, Saving
<1>2. /\ dir = active /\ (\A e \in Clients \ {c} : pc[e] \notin Holding) /\ stage[c] # NoDir
      /\ files[active] # NoDir /\ files[stage[c]] # NoDir
    BY <1>1, SavingFacts DEF Inv, Equipped, Separate
<1>3. CASE active' = stage[c] /\ old' = dir /\ Go(c, "sync") /\ UNCHANGED <<files, stage, put>>
    <2>1. /\ pc'[c] = "sync" /\ \A e \in Clients \ {c} : pc'[e] = pc[e] /\ pc'[e] \notin {"put", "rename"}
        BY <1>2, <1>3 DEF Go, Inv, Types, Holding, Saving
    <2> QED
        BY <1>1, <1>2, <1>3, <2>1 DEF Fits, Holds
<1>4. CASE Cancel(c) /\ UNCHANGED <<active, old>>
    BY <1>1, <1>4, FitsCancel
<1> QED
    BY <1>3, <1>4 DEF Commit

LEMMA FitsRetire ==
  ASSUME Inv, Fits, NEW c \in Clients, Retire(c)
  PROVE  Fits'
<1>1. /\ UNCHANGED <<active, backups, stage, put>> /\ old' = NoDir /\ old # active /\ active \in Dirs
      /\ \A g \in Dirs : g # old => files'[g] = files[g]
    BY DEF Retire, Inv, Types, Separate
<1>2. \A e \in Clients : stage[e] # NoDir => stage[e] \in Dirs /\ stage[e] # old
    BY DEF Inv, Types, Separate, Dirs
<1>3. pc'[c] = "done" /\ \A e \in Clients \ {c} : pc'[e] = pc[e]
    BY DEF Retire, Go, Inv, Types
<1> QED
    BY <1>1, <1>2, <1>3, FitsLess

\* What a crash may bring back.
Spare == \A m \in Past : Bytes(m) <= MaxBytes

LEMMA SpareStep ==
  ASSUME Inv, AtRisk, Fits, Spare, [Next]_vars
  PROVE  Spare'
<1>1. CASE Past' = Past
    BY <1>1 DEF Spare
<1>2. ASSUME NEW c \in Clients, Sync(c) PROVE Spare'
    <2>1. pc[c] = "sync" /\ old # NoDir /\ files[old] # NoDir
        BY <1>2 DEF Sync, Inv, Separate
    <2>2. Bytes(Visible) <= MaxBytes
        BY <2>1 DEF Visible, Holds, Fits
    <2> QED
        BY <1>2, <2>2, SyncMap DEF Spare
<1>3. ASSUME NEW c \in Clients, Retire(c) PROVE Spare'
    <2>1. ASSUME NEW m \in Past' PROVE Bytes(m) <= MaxBytes
        <3>1. PICK d \in Past : Map!Part(m, d)
            BY <1>3, <2>1, RetireMap
        <3>2. Bytes(m) <= Bytes(d)
            <4>1. Units(m) \subseteq Units(d)
                BY <3>1 DEF Map!Part, Units, Present
            <4> QED
                BY <4>1, UnitsMonotone
        <3>3. Bytes(d) <= MaxBytes
            BY DEF Spare
        <3> QED
            BY <3>2, <3>3, UnitsFinite, LimitAssumption
    <2> QED
        BY <2>1 DEF Spare
<1>4. CASE Crash
    <2>1. Past' = {}
        BY <1>4 DEF Crash, Past
    <2> QED
        BY <2>1 DEF Spare
<1> QED
    BY <1>1, <1>2, <1>3, <1>4, PastStep

LEMMA FitsStep ==
  ASSUME Inv, AtRisk, Fits, Spare, [Next]_vars
  PROVE  Fits'
<1>1. ASSUME NEW c \in Clients, Load(c) PROVE Fits'
    <2>1. UNCHANGED <<files, active, old, pc, put, stage, backups>>
        BY <1>1 DEF Load, disk, memory
    <2> QED
        BY <2>1, FitsSame
<1>2. ASSUME NEW c \in Clients, TakeLocks(c) PROVE Fits'
    <2> DEFINE p == "snapshot"
    <2>1. Go(c, p) /\ p \in Places \ {"put", "rename"} /\ UNCHANGED <<files, active, old, stage, put, backups>>
        BY <1>2 DEF TakeLocks, Places, Holding, Saving, disk, memory
    <2> HIDE DEF p
    <2> QED
        BY <2>1, FitsMove
<1>3. ASSUME NEW c \in Clients, Sync(c) PROVE Fits'
    <2> DEFINE p == "retire"
    <2>1. Go(c, p) /\ p \in Places \ {"put", "rename"} /\ UNCHANGED <<files, active, old, backups>>
        BY <1>3 DEF Sync, Places, Holding, disk, memory
    <2>2. (\A e \in Clients \ {c} : put'[e] = put[e]) /\ \A e \in Clients : stage'[e] \in {stage[e], NoDir}
        BY <1>3 DEF Sync, Forget, Inv, Types
    <2> HIDE DEF p
    <2> QED
        BY <2>1, <2>2, FitsMove
<1>4. ASSUME NEW c \in Clients, Return(c) PROVE Fits'
    <2> DEFINE p == "idle"
    <2>1. Go(c, p) /\ p \in Places \ {"put", "rename"} /\ UNCHANGED <<files, active, old, stage, put, backups>>
        BY <1>4 DEF Return, Places, disk, memory
    <2> HIDE DEF p
    <2> QED
        BY <2>1, FitsMove
<1>5. ASSUME NEW r \in Readers, Open(r) \/ CloseDownload(r) PROVE Fits'
    <2>1. UNCHANGED <<files, active, old, pc, put, stage, backups>>
        BY <1>5 DEF Open, CloseDownload, disk, local
    <2> QED
        BY <2>1, FitsSame
<1>6. ASSUME Crash PROVE Fits'
    <2>1. PICK a : a = active'
        OBVIOUS
    <2>2. /\ UNCHANGED <<files, backups>> /\ old' = NoDir
          /\ \A c \in Clients : pc'[c] = "idle" /\ stage'[c] = NoDir
          /\ a = active \/ a \in former \/ (a = old /\ old # NoDir /\ files[old] # NoDir)
        BY <1>6, <2>1 DEF Crash, Inv, Separate
    <2>3. CASE a = active
        BY <2>1, <2>2, <2>3 DEF Fits, Holds
    <2>4. CASE a \in former
        <3>1. Bytes(Holds(a)) <= MaxBytes
            BY <2>4 DEF Past, Spare
        <3> QED
            BY <2>1, <2>2, <3>1 DEF Fits, Holds
    <2>5. CASE a = old /\ old # NoDir /\ files[old] # NoDir
        BY <2>1, <2>2, <2>5 DEF Fits, Holds
    <2> QED
        BY <2>2, <2>3, <2>4, <2>5
<1>7. ASSUME Start PROVE Fits'
    <2>1. /\ UNCHANGED <<active, backups, old, pc, put, stage>> /\ files'[active] = files[active]
        BY <1>7 DEF Start, local, Inv, Types
    <2>2. old = NoDir /\ \A c \in Clients : stage[c] = NoDir
        BY <1>7 DEF Start, Inv, Locked, Equipped, Separate, Saving
    <2> QED
        BY <2>1, <2>2, FitsLess
<1>8. CASE StartRefused \/ UNCHANGED vars
    <2>1. UNCHANGED <<files, active, old, pc, put, stage, backups>>
        BY <1>8 DEF StartRefused, vars, disk, memory, local
    <2> QED
        BY <2>1, FitsSame
<1> QED
    BY <1>1, <1>2, <1>3, <1>4, <1>5, <1>6, <1>7, <1>8, FitsEditing, FitsPublish, FitsSnapshot, FitsGeneration,
       FitsCommit, FitsRetire DEF Next

LEMMA FitsInit ==
  ASSUME Init
  PROVE  Fits /\ Spare
<1>1. /\ active = Root /\ old = NoDir /\ backups = {} /\ former = {}
      /\ \A c \in Clients : pc[c] = "idle" /\ stage[c] = NoDir
    BY DEF Init
<1>2. Bytes(Holds(active)) <= MaxBytes
    <2>1. PICK m \in Earlier : files = [d \in Dirs |-> IF d = Root THEN m ELSE NoDir]
        BY DEF Init
    <2>2. m \in Contents /\ Bytes(m) <= MaxBytes
        BY EarlierAssumption
    <2> QED
        BY <1>1, <2>1, <2>2, NotDir DEF Holds, Dirs
<1>3. IsFiniteSet({}) /\ ArchiveBytes({}) = 0
    <2>1. IsFiniteSet({}) /\ Blocks({}) = {}
        BY FS_EmptySet DEF Blocks
    <2> QED
        BY <2>1, BlocksFinite, FS_EmptySet
<1> QED
    BY <1>1, <1>2, <1>3, LimitAssumption DEF Fits, Spare, Past

\* The documents and the one being written fit into MaxBytes, the snapshots into their
\* budget, whatever is edited, restored or left behind by a crash (put, Restore,
\* subStoreReplace, snapshotWriter.Write).
THEOREM StorageIsBounded == Spec => []StorageBounded
<1>1. Init => Fits /\ Spare
    BY FitsInit
<1>2. Inv /\ AtRisk /\ Fits /\ Spare /\ [Next]_vars => Fits' /\ Spare'
    BY FitsStep, SpareStep
<1>3. Inv /\ Fits => StorageBounded
    BY Running DEF Inv, Locked, Fits, StorageBounded
<1> QED
    BY <1>1, <1>2, <1>3, InvAlways, PTL DEF Spec
=============================================================================
