------------------------------ MODULE DiskCache ------------------------------
(***************************************************************************)
(* The disk cache of internal/cache/cache.go and the reference-counted     *)
(* file bodies of internal/types/file.go.                                  *)
(*                                                                         *)
(* One directory holds the published results (one file per key), the       *)
(* temporary files of workspaces, and old files that readers still hold.   *)
(* The counter `used' must not let their bytes exceed `maxBytes'.          *)
(*                                                                         *)
(* A File is an inode: it starts as the temporary file of a workspace,     *)
(* may be renamed to a key's path, then replaced or removed (retired), and *)
(* its bytes leave the disk with the last reader.  Sizes are in abstract   *)
(* units; time is a clock that only Tick moves.                            *)
(*                                                                         *)
(* Locks: an action under Cache.mu is one step.  TempFile.Write holds      *)
(* Workspace.mu across two critical sections of Cache.mu, so it is two     *)
(* steps (reserve, settle) and every other operation of that workspace     *)
(* waits between them (Busy).                                              *)
(*                                                                         *)
(* An operator named ...Mutant is the one below it with a plausible bug:   *)
(* the properties must tell the two apart.                                 *)
(***************************************************************************)
EXTENDS Integers, FiniteSets

CONSTANTS
    Key,         \* cache keys (paths of the directory)
    File,        \* identities of the files that can exist at one time
    Body,        \* identities of the FileBody values that can be open
    Work,        \* identities of the workspaces that can be open
    NoKey, NoFile, NoWork,
    Capacity,    \* the values maxBytes may be configured to at a start
    Total,       \* sizes of a complete cache entry (prefix, metadata, body)
    Chunk,       \* growths of a single TempFile.Write
    Lifetime,    \* <<fresh, stale>> pairs given to SetLifetime
    MaxHolders,  \* bound: references that Retain adds to one body
    MaxTime      \* bound: the last instant of the clock

ASSUME KeyAssumption  == NoKey \notin Key
ASSUME FileAssumption == IsFiniteSet(File) /\ NoFile \notin File
ASSUME BodyAssumption == IsFiniteSet(Body)
ASSUME WorkAssumption == NoWork \notin Work
ASSUME SizeAssumption ==
    /\ Capacity \subseteq Nat \ {0}
    /\ Total \subseteq Nat \ {0}
    /\ Chunk \subseteq Nat \ {0}
ASSUME LifetimeAssumption == Lifetime \subseteq Nat \X Nat
ASSUME BoundAssumption == MaxHolders \in Nat /\ MaxTime \in Nat

VARIABLES
    clock,
    maxBytes,  \* Cache.maxBytes
    used,      \* Cache.used
    index,     \* Cache.files: the published file of each key
    size,      \* bytes on disk of each file; 0 when it does not exist
    growth,    \* bytes reserved by a Write of the file that is under way
    owner,     \* the workspace whose directory holds the file
    info,      \* metadata and index record of each file
    pins,      \* record.pins
    retired,   \* record.retired, while the file is still charged
    body,      \* the FileBody values: their file and reference count
    work       \* the workspaces

vars == <<clock, maxBytes, used, index, size, growth, owner, info, pins,
          retired, body, work>>

-----------------------------------------------------------------------------
(* What is charged, and how much of it there is.                           *)

\* The bytes of the files in S, file f having e[f] of them.
Cells(S, e) == UNION {{f} \X (1 .. e[f]) : f \in S}
Bytes(S, e) == Cardinality(Cells(S, e))

Held(w) == {f \in File : owner[f] = w}
Busy(w) == \E f \in Held(w) : growth[f] > 0

NoInfo == [fresh |-> 0, retain |-> 0, created |-> 0, mtime |-> 0,
           damaged |-> FALSE]
NoGoal == [total |-> 0, fresh |-> 0, retain |-> 0]
NoBody == [file |-> NoFile, refs |-> 0, shared |-> FALSE]
NoWorkspace == [state |-> "none", key |-> NoKey, used |-> 0, goal |-> NoGoal]

Unused(f) ==
    /\ owner[f] = NoWork
    /\ ~retired[f]
    /\ \A k \in Key : index[k] # f

Expired(f) == clock > info[f].retain

-----------------------------------------------------------------------------
(* Removal and eviction.                                                   *)

\* Bugs in remove: the bytes of a file that is read go; nothing is freed at once, even if
\* nobody reads it.
PinnedGoneMutant(S) ==
    /\ size' = [f \in File |-> IF f \in S THEN 0 ELSE size[f]]
    /\ info' = [f \in File |-> IF f \in S THEN NoInfo ELSE info[f]]
    /\ UNCHANGED retired
NothingFreedMutant(S) ==
    /\ UNCHANGED <<size, info>>
    /\ retired' = [f \in File |-> retired[f] \/ f \in S]

\* The files of S leave the index.  One that is still read stays charged as
\* retired; any other gives its bytes back and is gone.
Discard(S) ==
    LET freed == {f \in S : pins[f] = 0}
    IN  /\ size' = [f \in File |-> IF f \in freed THEN 0 ELSE size[f]]
        /\ info' = [f \in File |-> IF f \in freed THEN NoInfo ELSE info[f]]
        /\ retired' = [f \in File |-> retired[f] \/ f \in S \ freed]

\* A bug: the pins are not asked, and Unpin gives the bytes back once more.
FreedTwiceMutant(S) == Bytes(S, size)

\* What `used' loses by it.
Freed(S) == Bytes({f \in S : pins[f] = 0}, size)

Unindexed(S) == [k \in Key |-> IF index[k] \in S THEN NoFile ELSE index[k]]

\* The files evict may touch: published, not read, not the protected key's.
Candidates(protect) ==
    {index[k] : k \in {j \in Key \ {protect} : /\ index[j] # NoFile
                                               /\ pins[index[j]] = 0}}

\* A bug: the reservation is forgotten.
UnreservedMutant(gone, reserve) == used - Bytes(gone, size) <= maxBytes

\* Whether the reservation fits once the files of gone are.
Fits(gone, reserve) == used - Bytes(gone, size) + reserve <= maxBytes

\* Every outcome of evict(reserve, protect): the files removed and the error.
\* Expired files go first, in no order; then live ones, oldest first, until
\* the reservation fits.  A failed os.Remove ends either loop.
Evictions(reserve, protect) ==
    LET all     == Candidates(protect)
        dead    == {f \in all : Expired(f)}
        live    == all \ dead
        fits(S) == Fits(dead \cup S, reserve)
        reached == {S \in SUBSET live :
                      /\ \A a \in S, b \in live \ S :
                            info[a].created <= info[b].created
                      /\ S # {} => \E last \in S :
                            /\ \A a \in S : info[a].created <= info[last].created
                            /\ ~fits(S \ {last})}
        error(S) == CASE fits(S) -> "nil"
                      [] ~fits(S) /\ S = live -> "capacity"
                      [] OTHER -> "remove"
    IN  IF reserve > maxBytes
        THEN {[gone |-> {}, err |-> "capacity"]}
        ELSE {[gone |-> dead \cup S, err |-> error(S)] : S \in reached}
             \cup {[gone |-> S, err |-> "remove"] : S \in SUBSET dead \ {dead}}

-----------------------------------------------------------------------------
Init ==
    /\ clock = 0
    /\ maxBytes \in Capacity
    /\ used = 0
    /\ index = [k \in Key |-> NoFile]
    /\ size = [f \in File |-> 0]
    /\ growth = [f \in File |-> 0]
    /\ owner = [f \in File |-> NoWork]
    /\ info = [f \in File |-> NoInfo]
    /\ pins = [f \in File |-> 0]
    /\ retired = [f \in File |-> FALSE]
    /\ body = [b \in Body |-> NoBody]
    /\ work = [w \in Work |-> NoWorkspace]

-----------------------------------------------------------------------------
(* Readers: Cache.get, FileBody.Retain and FileBody.Close.                  *)

\* A hit pins the record and hands out a body with one reference.  Get wants
\* a fresh entry; GetRetained accepts one inside its retention window.
GetHit(k, b, retained) ==
    /\ index[k] # NoFile
    /\ body[b] = NoBody
    /\ LET f == index[k] IN
       /\ ~Expired(f) /\ ~info[f].damaged
       /\ retained \/ clock <= info[f].fresh
       /\ pins' = [pins EXCEPT ![f] = @ + 1]
       /\ body' = [body EXCEPT ![b] = [file |-> f, refs |-> 1, shared |-> FALSE]]
    /\ UNCHANGED <<clock, maxBytes, used, index, size, growth, owner, info,
                   retired, work>>

\* A get that finds the entry past its retention, or cannot read its metadata,
\* removes it, even while it is read.  When os.Remove fails nothing changes.
GetRemoves(k) ==
    /\ index[k] # NoFile
    /\ Expired(index[k]) \/ info[index[k]].damaged
    /\ index' = Unindexed({index[k]})
    /\ Discard({index[k]})
    /\ used' = used - Freed({index[k]})
    /\ UNCHANGED <<clock, maxBytes, growth, owner, pins, body, work>>

\* The flight that publishes a body adds one reference for each waiter, once.
Retain(b, n) ==
    /\ body[b].refs > 0 /\ ~body[b].shared
    /\ body' = [body EXCEPT ![b].refs = @ + n, ![b].shared = TRUE]
    /\ UNCHANGED <<clock, maxBytes, used, index, size, growth, owner, info,
                   pins, retired, work>>

\* FileBody.Close under the body's own lock; the last reference leaves the
\* body with refs = 0 and the cleanup still to run.
Close(b) ==
    /\ body[b].refs > 0
    /\ body' = [body EXCEPT ![b].refs = @ - 1]
    /\ UNCHANGED <<clock, maxBytes, used, index, size, growth, owner, info,
                   pins, retired, work>>

\* The cleanup function that get gave the body, under Cache.mu.
Unpin(b) ==
    /\ body[b].file # NoFile /\ body[b].refs = 0
    /\ LET f    == body[b].file
           gone == {g \in {f} : retired[f] /\ pins[f] = 1}
       IN  /\ pins' = [pins EXCEPT ![f] = @ - 1]
           /\ used' = used - Bytes(gone, size)
           /\ size' = [g \in File |-> IF g \in gone THEN 0 ELSE size[g]]
           /\ info' = [g \in File |-> IF g \in gone THEN NoInfo ELSE info[g]]
           /\ retired' = [g \in File |-> retired[g] /\ g \notin gone]
    /\ body' = [body EXCEPT ![b] = NoBody]
    /\ UNCHANGED <<clock, maxBytes, index, growth, owner, work>>

-----------------------------------------------------------------------------
(* Workspaces and their temporary files.                                    *)

\* Cache.Workspace for a conversion, which fills any number of files and
\* never publishes them itself.
OpenWorkspace(w, k) ==
    /\ work[w].state = "none"
    /\ work' = [work EXCEPT ![w] =
                  [state |-> "open", key |-> k, used |-> 0, goal |-> NoGoal]]
    /\ UNCHANGED <<clock, maxBytes, used, index, size, growth, owner, info,
                   pins, retired, body>>

\* SetLifetime up to its first write: the lifetimes count from here, and the
\* workspace gets the one file that is to become the entry.
SetLifetime(w, k, f, total, life) ==
    /\ work[w].state = "none"
    /\ Unused(f)
    /\ LET fresh == clock + life[1]
           goal  == [total |-> total, fresh |-> fresh, retain |-> fresh + life[2]]
       IN  work' = [work EXCEPT ![w] =
                      [state |-> "open", key |-> k, used |-> 0, goal |-> goal]]
    /\ owner' = [owner EXCEPT ![f] = w]
    /\ UNCHANGED <<clock, maxBytes, used, index, size, growth, info, pins,
                   retired, body>>

Create(w, f) ==
    /\ work[w].state = "open" /\ work[w].goal = NoGoal /\ ~Busy(w)
    /\ Unused(f)
    /\ owner' = [owner EXCEPT ![f] = w]
    /\ UNCHANGED <<clock, maxBytes, used, index, size, growth, info, pins,
                   retired, body, work>>

\* A failed write ends SetLifetime: only the deferred Close of its workspace
\* is left.  A conversion may Reset the file and go on.
AfterFailure(w) ==
    IF work[w].goal = NoGoal THEN work[w].state ELSE "closing"

\* TempFile.Write up to the first release of Cache.mu: the growth is reserved,
\* after an eviction when it does not fit as things stand.
Writable(w, f, n) ==
    /\ owner[f] = w /\ work[w].state = "open" /\ ~Busy(w)
    /\ work[w].goal # NoGoal => size[f] + n <= work[w].goal.total

WriteReserve(w, f, n) ==
    /\ Writable(w, f, n)
    /\ \E e \in IF n > maxBytes - used THEN Evictions(n, work[w].key)
                                       ELSE {[gone |-> {}, err |-> "nil"]} :
        /\ e.err = "nil"
        /\ index' = Unindexed(e.gone)
        /\ Discard(e.gone)
        /\ used' = used - Freed(e.gone) + n
        /\ growth' = [growth EXCEPT ![f] = n]
    /\ UNCHANGED <<clock, maxBytes, owner, pins, body, work>>

\* The same when evict returns an error, whatever it has removed by then.
WriteRefused(w, f, n, err) ==
    /\ Writable(w, f, n)
    /\ n > maxBytes - used
    /\ \E e \in Evictions(n, work[w].key) :
        /\ e.err = err
        /\ index' = Unindexed(e.gone)
        /\ Discard(e.gone)
        /\ used' = used - Freed(e.gone)
    /\ work' = [work EXCEPT ![w].state = AfterFailure(w)]
    /\ UNCHANGED <<clock, maxBytes, growth, owner, pins, body>>

\* The rest of Write: n bytes reached the disk, and what was reserved but not
\* written is given back.
WriteSettle(w, f, n) ==
    /\ owner[f] = w /\ growth[f] > 0 /\ n <= growth[f]
    /\ size' = [size EXCEPT ![f] = @ + n]
    /\ growth' = [growth EXCEPT ![f] = 0]
    /\ info' = [info EXCEPT ![f].mtime = IF work[w].goal = NoGoal THEN 0 ELSE clock]
    /\ used' = used - (growth[f] - n)
    /\ work' = [work EXCEPT ![w].used = @ + n,
                            ![w].state = IF n < growth[f] THEN AfterFailure(w)
                                                          ELSE @]
    /\ UNCHANGED <<clock, maxBytes, index, owner, pins, retired, body>>

\* TempFile.Reset: a conversion starts a file again.
Reset(w, f) ==
    /\ owner[f] = w /\ work[w].state = "open" /\ ~Busy(w)
    /\ work[w].goal = NoGoal
    /\ used' = used - size[f]
    /\ work' = [work EXCEPT ![w].used = @ - size[f]]
    /\ size' = [size EXCEPT ![f] = 0]
    /\ UNCHANGED <<clock, maxBytes, index, growth, owner, info, pins, retired,
                   body>>

\* The end of SetLifetime, under both locks: the rename, the old record
\* retired, the new one indexed, the bytes handed over from the workspace.
Publish(w, f) ==
    /\ owner[f] = w /\ work[w].state = "open" /\ ~Busy(w)
    /\ work[w].goal # NoGoal /\ size[f] = work[w].goal.total
    /\ LET k    == work[w].key
           old  == {g \in {index[k]} : g # NoFile}
           free == {g \in old : pins[g] = 0}
       IN  /\ used' = used - Freed(old)
           /\ size' = [g \in File |-> IF g \in free THEN 0 ELSE size[g]]
           /\ retired' = [g \in File |-> retired[g] \/ g \in old \ free]
           /\ info' = [g \in File |->
                         CASE g = f -> [fresh   |-> work[w].goal.fresh,
                                        retain  |-> work[w].goal.retain,
                                        created |-> clock,
                                        mtime   |-> info[f].mtime,
                                        damaged |-> FALSE]
                           [] g \in free -> NoInfo
                           [] OTHER -> info[g]]
           /\ index' = [index EXCEPT ![k] = f]
    /\ owner' = [owner EXCEPT ![f] = NoWork]
    /\ work' = [work EXCEPT ![w].used = @ - size[f], ![w].state = "closing"]
    /\ UNCHANGED <<clock, maxBytes, growth, pins, body>>

\* Workspace.Close, once.  If the directory cannot be removed the bytes stay
\* on disk and stay charged until the next start.
CloseWorkspace(w) ==
    /\ work[w].state \in {"open", "closing"} /\ ~Busy(w)
    /\ used' = used - work[w].used
    /\ size' = [f \in File |-> IF f \in Held(w) THEN 0 ELSE size[f]]
    /\ owner' = [f \in File |-> IF f \in Held(w) THEN NoWork ELSE owner[f]]
    /\ info' = [f \in File |-> IF f \in Held(w) THEN NoInfo ELSE info[f]]
    /\ work' = [work EXCEPT ![w] = NoWorkspace]
    /\ UNCHANGED <<clock, maxBytes, index, growth, pins, retired, body>>

CloseFails(w) ==
    /\ work[w].state \in {"open", "closing"} /\ ~Busy(w)
    /\ Held(w) # {}
    /\ work' = [work EXCEPT ![w].state = "leaked"]
    /\ UNCHANGED <<clock, maxBytes, used, index, size, growth, owner, info,
                   pins, retired, body>>

-----------------------------------------------------------------------------
(* Maintenance, restart and the environment.                                *)

\* Cache.Cleanup: expired files go.
Cleanup ==
    /\ \E e \in Evictions(0, NoKey) :
        /\ index' = Unindexed(e.gone)
        /\ Discard(e.gone)
        /\ used' = used - Freed(e.gone)
    /\ UNCHANGED <<clock, maxBytes, growth, owner, pins, body, work>>

\* What evict(0, "") may leave of the valid files found on a start.
Kept(valid, max) ==
    {S \in SUBSET valid :
        /\ \A a \in valid \ S, b \in S : info[a].mtime <= info[b].mtime
        /\ Bytes(S, size) <= max
        /\ valid # S => \E last \in valid \ S :
             /\ \A a \in valid \ S : info[a].mtime <= info[last].mtime
             /\ Bytes(S \cup {last}, size) > max}

\* The process ends at any point and New opens the directory again, perhaps
\* with another budget: workspaces, unreadable and expired entries go, what is
\* left is indexed as old as its last write, and evict(0, "") trims it.
Restart(max) ==
    LET found == {index[k] : k \in {j \in Key : index[j] # NoFile}}
        valid == {f \in found : ~info[f].damaged /\ ~Expired(f)}
    IN  \E S \in Kept(valid, max) :
          /\ maxBytes' = max
          /\ used' = Bytes(S, size)
          /\ index' = [k \in Key |-> IF index[k] \in S THEN index[k] ELSE NoFile]
          /\ size' = [f \in File |-> IF f \in S THEN size[f] ELSE 0]
          /\ info' = [f \in File |-> IF f \in S
                        THEN [info[f] EXCEPT !.created = info[f].mtime]
                        ELSE NoInfo]
          /\ growth' = [f \in File |-> 0]
          /\ owner' = [f \in File |-> NoWork]
          /\ pins' = [f \in File |-> 0]
          /\ retired' = [f \in File |-> FALSE]
          /\ body' = [b \in Body |-> NoBody]
          /\ work' = [w \in Work |-> NoWorkspace]
          /\ UNCHANGED clock

\* The disk: the metadata of a published file becomes unreadable.
Damage(k) ==
    /\ index[k] # NoFile
    /\ info' = [info EXCEPT ![index[k]].damaged = TRUE]
    /\ UNCHANGED <<clock, maxBytes, used, index, size, growth, owner, pins,
                   retired, body, work>>

Tick ==
    /\ clock < MaxTime
    /\ clock' = clock + 1
    /\ UNCHANGED <<maxBytes, used, index, size, growth, owner, info, pins,
                   retired, body, work>>

-----------------------------------------------------------------------------
Next ==
    \/ Tick \/ Cleanup
    \/ \E max \in Capacity : Restart(max)
    \/ \E k \in Key : GetRemoves(k) \/ Damage(k)
    \/ \E k \in Key, b \in Body, r \in BOOLEAN : GetHit(k, b, r)
    \/ \E b \in Body, n \in 1 .. MaxHolders : Retain(b, n)
    \/ \E b \in Body : Close(b) \/ Unpin(b)
    \/ \E w \in Work, k \in Key : OpenWorkspace(w, k)
    \/ \E w \in Work, k \in Key, f \in File, t \in Total, l \in Lifetime :
          SetLifetime(w, k, f, t, l)
    \/ \E w \in Work : CloseWorkspace(w) \/ CloseFails(w)
    \/ \E w \in Work, f \in File :
          \/ Create(w, f) \/ Reset(w, f) \/ Publish(w, f)
          \/ \E n \in Chunk : \/ WriteReserve(w, f, n)
                              \/ \E err \in {"capacity", "remove"} :
                                    WriteRefused(w, f, n, err)
          \/ \E n \in 0 .. growth[f] : WriteSettle(w, f, n)

Spec == Init /\ [][Next]_vars

\* Every response that holds a body is sent or abandoned in the end, and both
\* paths close it (defer Close in the handlers).
FairSpec == Spec /\ \A b \in Body : WF_vars(Close(b) \/ Unpin(b))

-----------------------------------------------------------------------------
(* Properties.                                                              *)

Infos == [fresh : Nat, retain : Nat, created : Nat, mtime : Nat, damaged : BOOLEAN]
Goals == [total : Nat, fresh : Nat, retain : Nat]
Bodies == [file : File \cup {NoFile}, refs : Nat, shared : BOOLEAN]
Workspaces == [state : {"none", "open", "closing", "leaked"},
               key : Key \cup {NoKey}, used : Nat, goal : Goals]

\* The types of the variables; the counters are never negative.
TypeOK ==
    /\ clock \in Nat /\ maxBytes \in Capacity /\ used \in Nat
    /\ index \in [Key -> File \cup {NoFile}]
    /\ size \in [File -> Nat] /\ growth \in [File -> Nat]
    /\ owner \in [File -> Work \cup {NoWork}]
    /\ info \in [File -> Infos]
    /\ pins \in [File -> Nat] /\ retired \in [File -> BOOLEAN]
    /\ body \in [Body -> Bodies]
    /\ work \in [Work -> Workspaces]

\* The three counters say what they are meant to count, across every
\* interleaving of writes, replacements, evictions and late readers: `used' the
\* bytes on disk and those reserved, a workspace's share the bytes of its own
\* files, a record's pins the bodies open on it.
Accounting ==
    /\ used = Bytes(File, size) + Bytes(File, growth)
    /\ \A w \in Work : work[w].used = Bytes(Held(w), size)
    /\ \A f \in File : pins[f] = Cardinality({b \in Body : body[b].file = f})

\* A file is in one place at a time: published under one key, retired while it
\* is read, in the directory of a workspace, or gone.
FilesPlaced ==
    /\ \A k \in Key : index[k] # NoFile =>
          LET f == index[k] IN size[f] > 0 /\ owner[f] = NoWork /\ ~retired[f]
    /\ \A j, k \in Key : index[j] = index[k] /\ index[j] # NoFile => j = k
    /\ \A f \in File :
          /\ retired[f] => size[f] > 0 /\ owner[f] = NoWork /\ pins[f] > 0
          /\ pins[f] > 0 => retired[f] \/ \E k \in Key : index[k] = f
          /\ Unused(f) => size[f] = 0

\* Writes are under way only in workspaces, and only a workspace that was
\* opened, for a key, owns files.
WorkPlaced ==
    /\ \A f \in File :
          /\ owner[f] = NoWork => growth[f] = 0
          /\ owner[f] # NoWork => work[owner[f]].state # "none"
    /\ \A w \in Work :
          /\ work[w].state # "none" => work[w].key \in Key
          /\ work[w].goal # NoGoal => work[w].goal.total \in Total

Placement == FilesPlaced /\ WorkPlaced

\* The inductive invariant: the types, the placement and the counters together
\* keep `used' within the budget.
IInv == TypeOK /\ Placement /\ Accounting /\ used <= maxBytes

\* The budget of the comment on Cache: everything in the directory, temporary
\* files and old files still read included, fits in maxBytes at every instant,
\* also while writes are under way and after a start with a smaller budget.
WithinBudget == Bytes(File, size) <= maxBytes

\* A file that a body reads is whole and stays charged until the body is closed:
\* it is published or retired, and nobody writes it.
ReadersCharged ==
    \A b \in Body : LET f == body[b].file IN
        f # NoFile =>
            /\ size[f] > 0 /\ growth[f] = 0 /\ owner[f] = NoWork
            /\ retired[f] \/ \E k \in Key : index[k] = f

\* Neither a write that needs room nor the periodic cleanup removes an entry
\* that a body still reads: it leaves the index only when replaced, past its
\* retention, or unreadable (a restart ends every reader).
PinnedKept ==
    [][\A k \in Key : LET f == index[k] IN
          /\ f # NoFile /\ index'[k] = NoFile
          /\ pins[f] > 0 /\ pins'[f] > 0
          => Expired(f) \/ info[f].damaged]_vars

\* An old file's bytes come back: what is retired is let go once its readers
\* have finished, through any order of Close, cleanup and replacement.
RetiredReleased == \A f \in File : retired[f] ~> ~retired[f]

=============================================================================
