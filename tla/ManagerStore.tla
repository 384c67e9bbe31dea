---------------------------- MODULE ManagerStore ----------------------------
(***************************************************************************)
(* The management store: internal/manager/store.go, backup.go,             *)
(* backup_check.go, and the part of compat_model.go and compat_store.go    *)
(* that changes documents.                                                 *)
(*                                                                         *)
(* Documents are files of a directory: the root, or a generation that the  *)
(* pointer file .active names.  A restore, and the replacement of a whole  *)
(* Sub-Store collection, fill a new generation, take a safety snapshot and *)
(* switch the pointer.  Everything on disk may be met by a crash; memory   *)
(* (index, locks, pins, requests under way) is lost in it.                 *)
(*                                                                         *)
(* A request is at pc.  It holds Store.mu at "put", "remove" and from      *)
(* "snapshot" to "retire", where it holds Store.backupMu too; a plain      *)
(* snapshot holds mu shared, which keeps writers out as well.              *)
(*                                                                         *)
(* A revision is the time of the edit it is the digest of; no two edits    *)
(* have the same.  Tokens are told apart by their digests.                 *)
(*                                                                         *)
(* An operator named ...Mutant is the one below it with a plausible bug.   *)
(***************************************************************************)
EXTENDS Naturals, FiniteSets

CONSTANTS
    Ids, Clients, Bodies, Tokens, KindOf, NameOf,
    NoDoc, NoToken, NoView, NoDir, NoPut,
    Root, Gens,     \* directories: the root and the generations
    SizeOf,         \* bytes of the document with each body
    Earlier,        \* what the data directory may hold at the first start
    Uploads,        \* archives that come from elsewhere
    Readers,        \* downloads of snapshots
    MaxBytes,       \* Config.MaxBytes
    MaxResources, BackupLimit, BackupCount,
    MaxTime, MaxSnapshots, MaxChanges   \* bounds: see Later and Another

Dirs     == {Root} \cup Gens
Doc      == [body : Bodies, rev : Nat, share : Tokens \cup {NoToken}]
Contents == [Ids -> Doc \cup {NoDoc}]
\* A document without its times, as in fingerprints and in what an archive gives back.
Record   == [body : Bodies, share : Tokens \cup {NoToken}]
Archive  == [Ids -> Record \cup {NoDoc}]
Put      == [id : Ids, doc : Doc]

ASSUME IdsAssumption   == IsFiniteSet(Ids) /\ NoDoc \notin Doc \cup Record
ASSUME DirsAssumption  == Root \notin Gens /\ NoDir \notin Dirs /\ NoDir \notin Contents
ASSUME NamesAssumption == NoView \notin Put /\ NoPut \notin Put /\ NoToken \notin Tokens
ASSUME SizesAssumption == SizeOf \in [Bodies -> Nat \ {0}] /\ Uploads \subseteq Archive
ASSUME LimitAssumption == {MaxBytes, MaxResources, BackupLimit, BackupCount} \subseteq Nat
ASSUME BoundAssumption == {MaxTime, MaxSnapshots, MaxChanges} \subseteq Nat

VARIABLES
    files,          \* documents of each directory, NoDir where there is none
    active,         \* the directory that .active names; Root without that file
    former,         \* those that it may name after a crash, its last renames not being synced
    backups,        \* snapshots: [name, docs]
    checkpoint,     \* runtime/backup-state.json: [fingerprint, snapshot]
    up,             \* the process runs
    dir, index,     \* Store.dir, Store.index
    pins,           \* the snapshot each reader downloads, 0 for none
    pc, request, put, stage,    \* of each client: where it is, what for, and with what
    old,            \* local to commitGenerationLocked: the directory replaced
    view,           \* the version each client has loaded
    now,
    taken           \* snapshots so far, which number their names

disk   == <<files, active, former, backups, checkpoint>>
memory == <<up, dir, index, pins, old>>
local  == <<pc, request, put, stage, view>>
vars   == <<disk, memory, local, now, taken>>

Present(m) == {i \in Ids : m[i] # NoDoc}
Bytes(m)   == Cardinality({x \in Present(m) \X (1..MaxBytes + 1) : x[2] <= SizeOf[m[x[1]].body]})

\* Documents from before are within the limits, and have been there since time 0.
ASSUME EarlierAssumption ==
    \A m \in Earlier : /\ m \in Contents /\ Bytes(m) <= MaxBytes
                       /\ \A i \in Present(m) : m[i].rev = 0

SoleName(m, i) ==
    \A j \in Present(m) \ {i} :
        KindOf[j] = KindOf[i] => NameOf[m[j].body] # NameOf[m[i].body]

\* metadataFor leaves UpdatedAt out of the digest.
Strip(m) == [i \in Ids |-> IF m[i] = NoDoc THEN NoDoc ELSE [body |-> m[i].body, share |-> m[i].share]]
Stamp(a, t) == [i \in Ids |-> IF a[i] = NoDoc THEN NoDoc
                              ELSE [body |-> a[i].body, rev |-> t, share |-> a[i].share]]
NoArchive == [i \in Ids |-> NoDoc]

Documents == files[dir]
MuFree     == \A c \in Clients : pc[c] \in {"idle", "staged", "done", "refused"}
BackupFree == \A c \in Clients : pc[c] \in {"idle", "staged", "put", "remove", "done", "refused"}

Go(c, place) == pc' = [pc EXCEPT ![c] = place]

\* The bounds: how often documents are written and snapshots are taken, and both together.
\* A download that begins after the last snapshot has been taken would meet no rotation.
Later   == now < MaxTime /\ now + taken < MaxChanges
Another == taken < MaxSnapshots /\ now + taken < MaxChanges

-----------------------------------------------------------------------------
(* Reading and editing single documents.                                    *)

Ready(c) == up /\ pc[c] = "idle" /\ MuFree

\* GET gives the revision that a later request sends as If-Match.
Load(c) ==
    /\ Ready(c)
    /\ \E i \in Present(Documents) : view' = [view EXCEPT ![c] = [id |-> i, doc |-> Documents[i]]]
    /\ UNCHANGED <<disk, memory, pc, request, put, stage, now, taken>>

\* A request ends, with its answer to be sent, or at once with a refusal.
Forget(c) == view' = [view EXCEPT ![c] = NoView] /\ put' = [put EXCEPT ![c] = NoPut]
             /\ request' = [request EXCEPT ![c] = "none"]
Deny(c)   == view' = [view EXCEPT ![c] = NoView] /\ UNCHANGED <<disk, memory, pc, request, put, stage, now, taken>>

\* A bug: only the growth of the directory is charged.
RoomMutant(i, d) ==
    /\ Documents[i] = NoDoc => Cardinality(Present(Documents)) < MaxResources
    /\ Bytes([Documents EXCEPT ![i] = d]) <= MaxBytes
\* A replacement needs room for the old and the new document together.
Room(i, d) ==
    /\ Documents[i] = NoDoc => Cardinality(Present(Documents)) < MaxResources
    /\ Bytes(Documents) + SizeOf[d.body] <= MaxBytes

\* Store.put until the temporary file is complete and synced.
Write(c, r, i, d) ==
    IF Room(i, d)
    THEN /\ Go(c, "put")
         /\ request' = [request EXCEPT ![c] = r]
         /\ put' = [put EXCEPT ![c] = [id |-> i, doc |-> d]]
         /\ now' = now + 1
         /\ UNCHANGED <<disk, memory, stage, view, taken>>
    ELSE Deny(c)

\* SaveVersion without an id, or subStoreSave(create), which wants a new name.
Create(c) ==
    /\ Ready(c) /\ view[c] = NoView /\ Later
    /\ \E i \in Ids \ Present(Documents), b \in Bodies, native \in BOOLEAN :
        LET d == [body |-> b, rev |-> now + 1, share |-> NoToken] IN
        IF native \/ SoleName([Documents EXCEPT ![i] = d], i)
        THEN Write(c, "create", i, d)
        ELSE Deny(c)

\* A bug: the revision that the editor has seen is not compared.
StaleMutant(c, i) == Documents[i] = NoDoc \/ (view[c] # NoView /\ view[c].id # i)
Stale(c, i) ==
    \/ Documents[i] = NoDoc
    \/ view[c] # NoView /\ (view[c].id # i \/ view[c].doc.rev # Documents[i].rev)

\* SaveVersion, which needs If-Match here, or subStoreSave, which keeps names unique.
Edit(c) ==
    /\ Ready(c) /\ Later
    /\ \E i \in Ids, b \in Bodies :
        IF Stale(c, i) THEN Deny(c)
        ELSE LET d == [body |-> b, rev |-> now + 1, share |-> Documents[i].share] IN
             IF view[c] # NoView \/ SoleName([Documents EXCEPT ![i] = d], i)
             THEN Write(c, "edit", i, d)
             ELSE Deny(c)

\* The revision stays.
Share(c) ==
    /\ Ready(c) /\ view[c] = NoView /\ Later
    /\ \E i \in Ids, t \in Tokens \cup {NoToken} :
        IF Documents[i] = NoDoc THEN Deny(c)
        ELSE Write(c, "share", i,
                   [body |-> Documents[i].body, rev |-> Documents[i].rev, share |-> t])

Delete(c) ==
    /\ Ready(c)
    /\ \E i \in Ids :
        IF Stale(c, i) THEN Deny(c)
        ELSE /\ Go(c, "remove")
             /\ request' = [request EXCEPT ![c] = "delete"]
             /\ put' = [put EXCEPT ![c] = [id |-> i, doc |-> Documents[i]]]
             /\ UNCHANGED <<disk, memory, stage, view, now, taken>>

\* A bug: the index is written before the rename, which may fail.
PublishMutant(c) ==
    /\ pc[c] \in {"put", "remove"}
    /\ LET i == put[c].id
           d == IF pc[c] = "put" THEN put[c].doc ELSE NoDoc IN
       /\ index' = [index EXCEPT ![i] = d]
       /\ \/ files' = [files EXCEPT ![dir] = [Documents EXCEPT ![i] = d]] /\ Go(c, "done")
          \/ Go(c, "refused") /\ UNCHANGED files
    /\ Forget(c)
    /\ UNCHANGED <<active, former, backups, checkpoint, up, dir, pins, old, stage, now, taken>>
\* The rename of put, or the removal of deleteLocked, then the index and notify; or the
\* write, the sync or the rename has failed and the temporary file is removed.
Publish(c) ==
    /\ pc[c] \in {"put", "remove"}
    /\ LET i == put[c].id
           d == IF pc[c] = "put" THEN put[c].doc ELSE NoDoc IN
       \/ /\ files' = [files EXCEPT ![dir] = [Documents EXCEPT ![i] = d]]
          /\ index' = [index EXCEPT ![i] = d]
          /\ Go(c, "done")
       \/ Go(c, "refused") /\ UNCHANGED <<files, index>>
    /\ Forget(c)
    /\ UNCHANGED <<active, former, backups, checkpoint, up, dir, pins, old, stage, now, taken>>

-----------------------------------------------------------------------------
(* Snapshots.  The archive is written to a temporary file, renamed, the      *)
(* oldest are removed and the checkpoint is saved.                           *)

Newest(S) == CHOOSE b \in S : \A o \in S : o.name <= b.name
Oldest(S) == CHOOSE b \in S : \A o \in S : b.name <= o.name
Pinned(b) == \E r \in Readers : pins[r] = b.name

\* An archive takes one unit more than its documents.
ArchiveBytes(S) == Cardinality({x \in S \X (0..MaxBytes) : x[2] <= Bytes(x[1].docs)})
\* A bug: the fingerprint leaves out permissions.
FingerprintMutant == [i \in Ids |-> IF index[i] = NoDoc THEN NoDoc ELSE index[i].body]
Fingerprint       == Strip(index)

\* A bug: a restore goes on without its safety snapshot.
CancelMutant(c) ==
    IF stage[c] # NoDir /\ pc[c] # "commit"
    THEN Go(c, "commit") /\ UNCHANGED <<files, request, put, stage, view>>
    ELSE /\ Go(c, "refused")
         /\ files' = IF stage[c] = NoDir THEN files ELSE [files EXCEPT ![stage[c]] = NoDir]
         /\ stage' = [stage EXCEPT ![c] = NoDir]
         /\ Forget(c)
\* A failure removes the stage of a restore or replacement and cancels it.
Cancel(c) ==
    /\ Go(c, "refused")
    /\ files' = IF stage[c] = NoDir THEN files ELSE [files EXCEPT ![stage[c]] = NoDir]
    /\ stage' = [stage EXCEPT ![c] = NoDir]
    /\ Forget(c)

\* A bug: rotation does not skip what is being downloaded.
RemovableMutant(S) == S
Removable(S) == {b \in S : ~Pinned(b)}

\* snapshotWriter.Write for all of the archive: while it does not fit, remove the oldest
\* snapshot nobody downloads, but not the last one.
SnapshotWrite(c) ==
    /\ pc[c] = "snapshot"
    /\ \/ /\ ArchiveBytes(backups) + Bytes(Documents) < BackupLimit
          /\ Go(c, "rename")
          /\ UNCHANGED <<disk, stage, request, put, view>>
       \/ /\ ArchiveBytes(backups) + Bytes(Documents) >= BackupLimit
          /\ Cardinality(backups) > 1 /\ Removable(backups) # {}
          /\ backups' = backups \ {Oldest(Removable(backups))}
          /\ UNCHANGED <<files, active, former, checkpoint, local>>
       \/ Cancel(c) /\ UNCHANGED <<active, former, backups, checkpoint>>
    /\ UNCHANGED <<memory, now, taken>>

SnapshotRename(c) ==
    /\ pc[c] = "rename"
    /\ \/ /\ Cardinality(backups) >= BackupCount => Removable(backups) # {}
          /\ backups' = backups \cup {[name |-> taken + 1, docs |-> Strip(Documents)]}
          /\ taken' = taken + 1
          /\ Go(c, "trim")
          /\ UNCHANGED <<files, stage, request, put, view>>
       \/ Cancel(c) /\ UNCHANGED <<backups, taken>>
    /\ UNCHANGED <<active, former, checkpoint, memory, now>>

\* One removal a step; a failed one ends the snapshot, which stays.
SnapshotTrim(c) ==
    /\ pc[c] = "trim"
    /\ LET extra == Removable(backups \ {Newest(backups)}) IN
       \/ /\ Cardinality(backups) > BackupCount /\ extra # {}
          /\ backups' = backups \ {Oldest(extra)}
          /\ UNCHANGED <<files, checkpoint, local>>
       \/ /\ Cardinality(backups) <= BackupCount
          /\ checkpoint' = [fingerprint |-> Fingerprint, snapshot |-> Newest(backups).name]
          /\ IF request[c] = "snapshot" THEN Go(c, "done") /\ Forget(c)
             ELSE Go(c, "commit") /\ UNCHANGED <<request, put, view>>
          /\ UNCHANGED <<files, backups, stage>>
       \/ Cancel(c) /\ UNCHANGED <<backups, checkpoint>>
    /\ UNCHANGED <<active, former, memory, now, taken>>

Lock(c) == up /\ MuFree /\ BackupFree

BeginSnapshot(c) ==
    /\ Another
    /\ Go(c, "snapshot")
    /\ request' = [request EXCEPT ![c] = "snapshot"]
    /\ UNCHANGED <<disk, memory, put, stage, view, now, taken>>

\* POST /api/backups.
Snapshot(c) == Lock(c) /\ pc[c] = "idle" /\ view[c] = NoView /\ BeginSnapshot(c)

Unchanged ==
    \/ Fingerprint = checkpoint.fingerprint /\ \E b \in backups : b.name = checkpoint.snapshot
    \/ Present(index) = {} /\ backups = {}

\* SnapshotIfChanged, from the scheduler.
SnapshotIfChanged(c) ==
    /\ Lock(c) /\ pc[c] = "idle" /\ view[c] = NoView
    /\ IF ~Unchanged THEN BeginSnapshot(c)
       ELSE \/ /\ checkpoint' = [checkpoint EXCEPT !.fingerprint = Fingerprint]
               /\ UNCHANGED <<files, active, former, backups, memory, local, now, taken>>
            \/ Deny(c)

\* openBackup, and its release.
Open(r) ==
    /\ up /\ BackupFree /\ pins[r] = 0 /\ Another
    /\ \E b \in backups : pins' = [pins EXCEPT ![r] = b.name]
    /\ UNCHANGED <<disk, up, dir, index, old, local, now, taken>>

CloseDownload(r) ==
    /\ up /\ BackupFree /\ pins[r] # 0
    /\ pins' = [pins EXCEPT ![r] = 0]
    /\ UNCHANGED <<disk, up, dir, index, old, local, now, taken>>

-----------------------------------------------------------------------------
(* New generations.                                                         *)

\* A generation has a new name, at random.
Stage(c, r, m) ==
    \E g \in Gens \ former :
        /\ files[g] = NoDir
        /\ files' = [files EXCEPT ![g] = m]
        /\ stage' = [stage EXCEPT ![c] = g]
        /\ request' = [request EXCEPT ![c] = r]
        /\ UNCHANGED <<active, former, backups, checkpoint, memory, put, view, taken>>

\* Restore before it takes the locks: all of the archive is checked and written.
Restore(c) ==
    /\ up /\ pc[c] = "idle" /\ view[c] = NoView /\ Later
    /\ \E a \in Uploads \cup {b.docs : b \in backups} :
        IF Cardinality(Present(a)) <= MaxResources /\ Bytes(a) <= MaxBytes
        THEN Stage(c, "restore", Stamp(a, now + 1)) /\ Go(c, "staged") /\ now' = now + 1
        ELSE Deny(c)

TakeLocks(c) ==
    /\ Lock(c) /\ pc[c] = "staged" /\ Another
    /\ Go(c, "snapshot")
    /\ UNCHANGED <<disk, memory, request, put, stage, view, now, taken>>

\* The ids that documents with the bodies in B get, in a collection of kind k: the id that
\* has the name already, or a new one.
Named(k, n) == {i \in Present(index) : KindOf[i] = k /\ NameOf[index[i].body] = n}
Assignments(k, B) ==
    {f \in [B -> {i \in Ids : KindOf[i] = k}] :
        /\ \A b, e \in B : f[b] = f[e] => b = e
        /\ \A b \in B : IF Named(k, NameOf[b]) = {} THEN index[f[b]] = NoDoc
                        ELSE f[b] \in Named(k, NameOf[b])}

\* The documents of kind k are replaced by B.
Replacement(k, B, f) ==
    [i \in Ids |->
        IF KindOf[i] # k THEN Documents[i]
        ELSE IF \E b \in B : f[b] = i
             THEN [body |-> CHOOSE b \in B : f[b] = i, rev |-> now + 1,
                   share |-> IF index[i] = NoDoc THEN NoToken ELSE Documents[i].share]
             ELSE NoDoc]

\* subStoreReplace: refused for names that are there twice, in the request or in the store.
ReplaceCollection(c) ==
    /\ Lock(c) /\ pc[c] = "idle" /\ view[c] = NoView /\ Later /\ Another
    /\ \E k \in {KindOf[i] : i \in Ids}, B \in SUBSET Bodies :
        IF (\E b, e \in B : b # e /\ NameOf[b] = NameOf[e])
           \/ \E b \in B : Cardinality(Named(k, NameOf[b])) > 1
        THEN Deny(c)
        ELSE \E f \in Assignments(k, B) :
                LET m == Replacement(k, B, f) IN
                IF Cardinality(Present(m)) <= MaxResources /\ Bytes(m) <= MaxBytes
                THEN Stage(c, "replace", m) /\ Go(c, "snapshot") /\ now' = now + 1
                ELSE Deny(c)

\* commitGenerationLocked to the rename of the pointer, and s.dir, s.index after it.
Commit(c) ==
    /\ pc[c] = "commit"
    /\ \/ /\ active' = stage[c]
          /\ dir' = stage[c]
          /\ index' = files[stage[c]]
          /\ old' = dir
          /\ Go(c, "sync")
          /\ UNCHANGED <<files, stage, request, put, view>>
       \/ Cancel(c) /\ UNCHANGED <<active, dir, index, old>>
    /\ UNCHANGED <<former, backups, checkpoint, up, pins, now, taken>>

\* The directory that holds the pointer is synced before the old documents go; whether
\* that fails is not looked at.
Sync(c) ==
    /\ pc[c] = "sync"
    /\ former' \in {{}, former \cup {old}}
    /\ Go(c, "retire")
    /\ stage' = [stage EXCEPT ![c] = NoDir]
    /\ Forget(c)
    /\ UNCHANGED <<files, active, backups, checkpoint, memory, now, taken>>

\* A bug: the root directory goes like a generation.
RetireMutant(c) ==
    /\ pc[c] = "retire"
    /\ files' = [files EXCEPT ![old] = NoDir]
    /\ old' = NoDir
    /\ Go(c, "done")
    /\ UNCHANGED <<active, former, backups, checkpoint, up, dir, index, pins, request, put, stage, view, now, taken>>

\* One by one, whatever fails: some may stay.
Retire(c) ==
    /\ pc[c] = "retire"
    /\ \E S \in SUBSET Present(files[old]) :
        files' = [files EXCEPT ![old] = IF S = {} /\ old # Root THEN NoDir
                                        ELSE [i \in Ids |-> IF i \in S THEN @[i] ELSE NoDoc]]
    /\ old' = NoDir
    /\ Go(c, "done")
    /\ UNCHANGED <<active, former, backups, checkpoint, up, dir, index, pins, request, put, stage, view, now, taken>>

\* The answer is sent.
Return(c) ==
    /\ pc[c] \in {"done", "refused"}
    /\ Go(c, "idle")
    /\ UNCHANGED <<disk, memory, request, put, stage, view, now, taken>>

-----------------------------------------------------------------------------
(* Crashes and starts.                                                      *)

\* A pointer that is not synced may be an old one again.
Crash ==
    /\ up
    /\ up' = FALSE
    /\ \/ active' \in former \cup {active}
       \/ active' = old /\ \E c \in Clients : pc[c] = "sync"
    /\ former' = {}
    /\ dir' = Root /\ index' = NoArchive /\ old' = NoDir
    /\ pins' = [r \in Readers |-> 0]
    /\ pc' = [c \in Clients |-> "idle"]
    /\ request' = [c \in Clients |-> "none"]
    /\ put' = [c \in Clients |-> NoPut]
    /\ stage' = [c \in Clients |-> NoDir]
    /\ view' = [c \in Clients |-> NoView]
    /\ UNCHANGED <<files, backups, checkpoint, now, taken>>

\* NewStore: unless a removal fails, which ends the start, no other generation is left.
Start ==
    /\ ~up /\ files[active] # NoDir
    /\ \E S \in SUBSET {g \in Gens \ {active} : files[g] # NoDir} :
        /\ files' = [d \in Dirs |-> IF d \in Gens \ {active} /\ d \notin S THEN NoDir ELSE files[d]]
        /\ IF S = {} THEN up' = TRUE /\ dir' = active /\ index' = files[active]
           ELSE UNCHANGED <<up, dir, index>>
    /\ UNCHANGED <<active, former, backups, checkpoint, pins, old, local, now, taken>>

\* It refuses to start when the generation that the pointer names is missing.
StartRefused ==
    /\ ~up /\ files[active] = NoDir
    /\ UNCHANGED vars

Init ==
    /\ \E m \in Earlier : files = [d \in Dirs |-> IF d = Root THEN m ELSE NoDir]
    /\ active = Root /\ former = {}
    /\ backups = {}
    /\ checkpoint = [fingerprint |-> NoDoc, snapshot |-> 0]
    /\ up = FALSE
    /\ dir = Root /\ index = NoArchive /\ old = NoDir
    /\ pins = [r \in Readers |-> 0]
    /\ pc = [c \in Clients |-> "idle"]
    /\ request = [c \in Clients |-> "none"]
    /\ put = [c \in Clients |-> NoPut]
    /\ stage = [c \in Clients |-> NoDir]
    /\ view = [c \in Clients |-> NoView]
    /\ now = 0 /\ taken = 0

Next ==
    \/ \E c \in Clients :
        \/ Load(c) \/ Create(c) \/ Edit(c) \/ Share(c) \/ Delete(c) \/ Publish(c)
        \/ Snapshot(c) \/ SnapshotIfChanged(c)
        \/ SnapshotWrite(c) \/ SnapshotRename(c) \/ SnapshotTrim(c)
        \/ Restore(c) \/ TakeLocks(c) \/ ReplaceCollection(c)
        \/ Commit(c) \/ Sync(c) \/ Retire(c) \/ Return(c)
    \/ \E r \in Readers : Open(r) \/ CloseDownload(r)
    \/ Crash \/ Start \/ StartRefused

Spec == Init /\ [][Next]_vars

-----------------------------------------------------------------------------
(* Properties.                                                              *)

\* The types, and that the root directory, the active one of a process that runs, and every
\* directory a client is about to switch to, or has switched away from, is there (NewStore,
\* commitGenerationLocked).
TypeOK ==
    /\ files \in [Dirs -> Contents \cup {NoDir}] /\ files[Root] # NoDir
    /\ former \subseteq Dirs /\ (up => files[active] # NoDir)
    /\ active \in Dirs /\ dir \in Dirs /\ old \in Dirs \cup {NoDir}
    /\ \A b \in backups : b.name \in 1..taken /\ b.docs \in Archive
    /\ checkpoint.snapshot \in Nat
    /\ up \in BOOLEAN /\ index \in Contents
    /\ pins \in [Readers -> Nat]
    /\ \A c \in Clients :
        /\ put[c] \in Put \cup {NoPut} /\ stage[c] \in Gens \cup {NoDir} /\ view[c] \in Put \cup {NoView}
        /\ pc[c] \in {"put", "remove"} => put[c] # NoPut
        /\ pc[c] \in {"staged", "commit"} => files[stage[c]] # NoDir
        /\ pc[c] \in {"sync", "retire"} => old # NoDir /\ files[old] # NoDir
    /\ now \in Nat /\ taken \in Nat

\* The documents of a directory; when it is missing, none.
Holds(d) == IF files[d] = NoDir THEN NoArchive ELSE files[d]

\* The documents as requests see them: Store.mu is held until the sync of a new pointer is over.
Visible == IF \E c \in Clients : pc[c] = "sync" THEN Holds(old) ELSE Holds(active)

Status == [c \in Clients |-> IF pc[c] \in {"idle", "done", "refused"} THEN pc[c]
                             ELSE IF pc[c] = "retire" THEN "done" ELSE request[c]]

Map == INSTANCE ResourceMap
           WITH docs <- Visible, status <- Status, view <- view, past <- {Holds(d) : d \in former}

\* The store is a map that requests change one at a time, wholly or not at all, without
\* losing edits (SaveVersion, Restore, subStoreReplace), also when puts and renames fail
\* and when the process ends between any two of their steps.  One failure breaks this, in
\* the way that ResourceMap says and in no other: commitGenerationLocked ignores a failed
\* sync of the pointer and removes the old documents, so that a crash, until a later sync
\* succeeds, may leave a part of them, or a store that does not start.
MapKept == Map!Spec

\* The index, from which lists, permissions and cache keys are answered, is what the
\* active directory holds, and a failed write has not changed it (put, NewStore).
IndexExact == up => dir = active /\ index = files[dir]

\* Documents with the one being written fit into MaxBytes, snapshots into their budget.
StorageBounded ==
    /\ \A c \in Clients : pc[c] = "put" => Bytes(Documents) + SizeOf[put[c].doc.body] <= MaxBytes
    /\ Bytes(Holds(active)) <= MaxBytes
    /\ ArchiveBytes(backups) <= BackupLimit

\* Nothing is replaced as a whole that the safety snapshot does not hold (Restore and
\* subStoreReplace, which are cancelled when it fails).
Undoable ==
    [][active' # active /\ up' => \E b \in backups : b.docs = Strip(files[active])]_vars

\* Rotation removes no snapshot that is being downloaded, and never the last one.
SnapshotsKept ==
    [][\A b \in backups : b \notin backups' => ~Pinned(b) /\ backups' # {}]_vars

\* When the daily check finds nothing changed, the snapshot it relies on is there and holds
\* the documents of now (SnapshotIfChanged, saveCheckpoint).
CheckpointTrue ==
    up /\ Unchanged =>
        Present(index) = {} \/ \E b \in backups : b.docs = Strip(index)
=============================================================================
