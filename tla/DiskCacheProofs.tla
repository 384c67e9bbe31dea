--------------------------- MODULE DiskCacheProofs ---------------------------
(***************************************************************************)
(* The byte accounting of the disk cache, proved for every number of keys, *)
(* files, readers and workspaces, every budget and every file size.        *)
(***************************************************************************)
EXTENDS DiskCache, FiniteSetTheorems, TLAPS

-----------------------------------------------------------------------------
(* How the number of bytes of a set of files moves when their sizes do.     *)

\* What the bytes of a set of files are, one by one.
LEMMA CellsMember ==
  ASSUME NEW S, NEW e, NEW c
  PROVE  c \in Cells(S, e) <=> \E f \in S : \E i \in 1 .. e[f] : c = <<f, i>>
  BY DEF Cells

\* A finite set of files has finitely many bytes.
LEMMA CellsFinite ==
  ASSUME NEW S, IsFiniteSet(S), NEW e, \A f \in S : e[f] \in Nat
  PROVE  IsFiniteSet(Cells(S, e)) /\ Bytes(S, e) \in Nat
<1> DEFINE T == {{f} \X (1 .. e[f]) : f \in S}
           g == [f \in S |-> {f} \X (1 .. e[f])]
<1>1. g \in Surjection(S, T)
  BY DEF Surjection
<1>2. IsFiniteSet(T)
  BY <1>1, FS_Surjection
<1>3. \A C \in T : IsFiniteSet(C)
  <2> SUFFICES ASSUME NEW f \in S PROVE IsFiniteSet({f} \X (1 .. e[f]))
    OBVIOUS
  <2>1. IsFiniteSet({f})
    BY FS_Singleton
  <2>2. IsFiniteSet(1 .. e[f])
    BY FS_Interval, SMTT(40)
  <2> QED
    BY <2>1, <2>2, FS_Product
<1>4. IsFiniteSet(Cells(S, e))
  BY <1>2, <1>3, FS_UNION DEF Cells
<1> QED
  BY <1>4, FS_CardinalityType DEF Bytes

\* The bytes of one file are as many as its size.
LEMMA BytesOne ==
  ASSUME NEW f, NEW e, e[f] \in Nat
  PROVE  Bytes({f}, e) = e[f]
<1>1. Cells({f}, e) = {f} \X (1 .. e[f])
  BY DEF Cells
<1>2. IsFiniteSet({f}) /\ Cardinality({f}) = 1
  BY FS_Singleton
<1>3. IsFiniteSet(1 .. e[f]) /\ Cardinality(1 .. e[f]) = e[f]
  BY FS_Interval, SMTT(40)
<1>4. Cardinality({f} \X (1 .. e[f])) = Cardinality({f}) * Cardinality(1 .. e[f])
  BY <1>2, <1>3, FS_Product
<1>5. Cardinality({f} \X (1 .. e[f])) = 1 * e[f]
  BY <1>2, <1>3, <1>4
<1>6. 1 * e[f] = e[f]
  OBVIOUS
<1> QED
  BY <1>1, <1>5, <1>6 DEF Bytes

\* Sizes that agree on a set give it the same bytes.
LEMMA BytesAgree ==
  ASSUME NEW S, NEW d, NEW e, \A f \in S : d[f] = e[f]
  PROVE  Bytes(S, d) = Bytes(S, e)
<1>1. Cells(S, d) = Cells(S, e)
  BY DEF Cells
<1> QED
  BY <1>1 DEF Bytes

\* Files of no bytes count for nothing.
LEMMA BytesZero ==
  ASSUME NEW S, NEW e, \A f \in S : e[f] = 0
  PROVE  Bytes(S, e) = 0
<1>1. Cells(S, e) = {}
  <2> SUFFICES ASSUME NEW c \in Cells(S, e) PROVE FALSE
    OBVIOUS
  <2>1. PICK f \in S : \E i \in 1 .. e[f] : c = <<f, i>>
    BY CellsMember
  <2> QED
    BY <2>1
<1> QED
  BY <1>1, FS_EmptySet DEF Bytes

\* The bytes of two disjoint sets of files add up.
LEMMA BytesSplit ==
  ASSUME NEW S, NEW T, IsFiniteSet(S), IsFiniteSet(T), S \cap T = {},
         NEW e, \A f \in S \cup T : e[f] \in Nat
  PROVE  Bytes(S \cup T, e) = Bytes(S, e) + Bytes(T, e)
<1>1. Cells(S \cup T, e) = Cells(S, e) \cup Cells(T, e)
  BY DEF Cells
<1>2. Cells(S, e) \cap Cells(T, e) = {}
  <2> SUFFICES ASSUME NEW c \in Cells(S, e), c \in Cells(T, e) PROVE FALSE
    OBVIOUS
  <2>1. PICK f \in S : \E i \in 1 .. e[f] : c = <<f, i>>
    BY CellsMember
  <2>2. PICK g \in T : \E i \in 1 .. e[g] : c = <<g, i>>
    BY CellsMember
  <2> QED
    BY <2>1, <2>2
<1>3. /\ IsFiniteSet(Cells(S, e)) /\ Bytes(S, e) \in Nat
      /\ IsFiniteSet(Cells(T, e)) /\ Bytes(T, e) \in Nat
  BY CellsFinite
<1>4. Cardinality(Cells(S, e) \cup Cells(T, e))
        = Cardinality(Cells(S, e)) + Cardinality(Cells(T, e)) - Cardinality({})
  BY <1>2, <1>3, FS_Union
<1> QED
  BY <1>1, <1>3, <1>4, FS_EmptySet DEF Bytes

\* The bytes of a part, and of the rest.
LEMMA BytesPart ==
  ASSUME NEW S, IsFiniteSet(S), NEW R \in SUBSET S,
         NEW e, \A f \in S : e[f] \in Nat
  PROVE  /\ Bytes(S, e) = Bytes(S \ R, e) + Bytes(R, e)
         /\ Bytes(S, e) \in Nat /\ Bytes(R, e) \in Nat /\ Bytes(S \ R, e) \in Nat
<1>1. IsFiniteSet(R) /\ IsFiniteSet(S \ R)
  BY FS_Subset
<1>2. (S \ R) \cup R = S /\ (S \ R) \cap R = {}
  OBVIOUS
<1>3. Bytes((S \ R) \cup R, e) = Bytes(S \ R, e) + Bytes(R, e)
  BY <1>1, <1>2, BytesSplit
<1>4. Bytes(S, e) \in Nat /\ Bytes(R, e) \in Nat /\ Bytes(S \ R, e) \in Nat
  BY <1>1, CellsFinite
<1> QED
  BY <1>2, <1>3, <1>4

\* Files that vanish take exactly their own bytes with them.
LEMMA BytesDrop ==
  ASSUME NEW S, IsFiniteSet(S), NEW R \in SUBSET S,
         NEW e, \A f \in S : e[f] \in Nat,
         NEW d, \A f \in S \ R : d[f] = e[f], \A f \in R : d[f] = 0
  PROVE  Bytes(S, d) = Bytes(S, e) - Bytes(R, e)
<1>1. \A f \in S : d[f] \in Nat
  OBVIOUS
<1>2. /\ Bytes(S, e) = Bytes(S \ R, e) + Bytes(R, e)
      /\ Bytes(S \ R, e) \in Nat /\ Bytes(R, e) \in Nat
  BY BytesPart
<1>3. Bytes(S, d) = Bytes(S \ R, d) + Bytes(R, d)
  BY <1>1, BytesPart
<1>4. Bytes(R, d) = 0 /\ Bytes(S \ R, d) = Bytes(S \ R, e)
  BY BytesZero, BytesAgree
<1> QED
  BY <1>2, <1>3, <1>4

\* A file that changes size moves the total by its own change.
LEMMA BytesUpdate ==
  ASSUME NEW S, IsFiniteSet(S), NEW f \in S,
         NEW e, \A g \in S : e[g] \in Nat,
         NEW d, d[f] \in Nat, \A g \in S \ {f} : d[g] = e[g]
  PROVE  Bytes(S, d) = Bytes(S, e) - e[f] + d[f]
<1>1. \A g \in S : d[g] \in Nat
  OBVIOUS
<1> {f} \in SUBSET S
  OBVIOUS
<1>2. /\ Bytes(S, e) = Bytes(S \ {f}, e) + Bytes({f}, e)
      /\ Bytes(S \ {f}, e) \in Nat
  BY BytesPart, ZenonT(40)
<1>3. Bytes(S, d) = Bytes(S \ {f}, d) + Bytes({f}, d)
  BY <1>1, BytesPart, ZenonT(40)
<1>4. /\ Bytes({f}, e) = e[f] /\ Bytes({f}, d) = d[f]
      /\ Bytes(S \ {f}, d) = Bytes(S \ {f}, e)
  BY BytesOne, BytesAgree
<1> QED
  BY <1>2, <1>3, <1>4

-----------------------------------------------------------------------------
(* The invariant holds at the start and every step keeps it.                *)

\* The records of the empty values are of their types.
LEMMA Records ==
    /\ NoInfo \in Infos /\ NoGoal \in Goals /\ NoBody \in Bodies
    /\ NoWorkspace \in Workspaces /\ NoWorkspace.used = 0
    /\ NoWorkspace.state = "none" /\ NoWorkspace.goal = NoGoal
    /\ NoBody.file = NoFile
  BY DEF NoInfo, NoGoal, NoBody, NoWorkspace, Infos, Goals, Bodies, Workspaces

\* A workspace's share does not move when its files and their sizes do not.
LEMMA ShareStable ==
  ASSUME NEW w \in Work, Held(w)' = Held(w), \A f \in Held(w) : size'[f] = size[f]
  PROVE  Bytes(Held(w), size)' = Bytes(Held(w), size)
  BY BytesAgree DEF Bytes, Cells

\* An empty directory satisfies the invariant.
LEMMA InitInvariant ==
  ASSUME Init
  PROVE  IInv
<1> USE FileAssumption, BodyAssumption, WorkAssumption, SizeAssumption, Records
<1>1. TypeOK
  BY DEF Init, TypeOK
<1>2. FilesPlaced
  BY DEF Init, FilesPlaced, Unused
<1>3. WorkPlaced
  BY DEF Init, WorkPlaced
<1>4. Accounting
  <2>1. Bytes(File, size) = 0 /\ Bytes(File, growth) = 0
    BY BytesZero DEF Init
  <2>2. ASSUME NEW w \in Work PROVE work[w].used = Bytes(Held(w), size)
    <3>1. Held(w) = {}
      BY DEF Init, Held
    <3> QED
      BY <3>1, BytesZero DEF Init
  <2>3. ASSUME NEW f \in File
        PROVE  pins[f] = Cardinality({b \in Body : body[b].file = f})
    <3>1. {b \in Body : body[b].file = f} = {}
      BY DEF Init
    <3> QED
      BY <3>1, FS_EmptySet DEF Init
  <2> QED
    BY <2>1, <2>2, <2>3 DEF Init, Accounting
<1>5. used <= maxBytes
  BY DEF Init
<1> QED
  BY <1>1, <1>2, <1>3, <1>4, <1>5 DEF IInv, Placement

\* Facts of the invariant that the steps below share: the totals are natural
\* numbers, and so is every part of them.
LEMMA Totals ==
  ASSUME IInv
  PROVE  /\ Bytes(File, size) \in Nat /\ Bytes(File, growth) \in Nat
         /\ \A S \in SUBSET File : Bytes(S, size) \in Nat /\ IsFiniteSet(S)
         /\ \A w \in Work : Held(w) \in SUBSET File
<1> USE FileAssumption DEF IInv, TypeOK
<1>1. ASSUME NEW S \in SUBSET File PROVE Bytes(S, size) \in Nat /\ IsFiniteSet(S)
  <2>1. IsFiniteSet(S)
    BY FS_Subset
  <2> QED
    BY <2>1, CellsFinite
<1>2. Bytes(File, growth) \in Nat
  BY CellsFinite
<1> QED
  BY <1>1, <1>2 DEF Held

\* Files that leave the index without their readers noticing: the placement
\* holds, the disk loses exactly the bytes of those nobody reads, and no
\* workspace loses any.
LEMMA DiscardKeeps ==
  ASSUME IInv, NEW S \in SUBSET File, \A f \in S : \E k \in Key : index[k] = f,
         index' = Unindexed(S), Discard(S), UNCHANGED <<owner, pins>>
  PROVE  /\ index' \in [Key -> File \cup {NoFile}]
         /\ size' \in [File -> Nat] /\ info' \in [File -> Infos]
         /\ retired' \in [File -> BOOLEAN]
         /\ FilesPlaced'
         /\ Bytes(File, size)' = Bytes(File, size) - Freed(S)
         /\ Freed(S) \in Nat
         /\ \A w \in Work : Bytes(Held(w), size)' = Bytes(Held(w), size)
<1> USE FileAssumption, WorkAssumption DEF IInv, TypeOK
<1> DEFINE R == {f \in S : pins[f] = 0}
<1>1. /\ index' = [k \in Key |-> IF index[k] \in S THEN NoFile ELSE index[k]]
      /\ size' = [f \in File |-> IF f \in R THEN 0 ELSE size[f]]
      /\ info' = [f \in File |-> IF f \in R THEN NoInfo ELSE info[f]]
      /\ retired' = [f \in File |-> retired[f] \/ f \in S \ R]
  BY DEF Discard, Unindexed
<1>2. /\ index' \in [Key -> File \cup {NoFile}]
      /\ size' \in [File -> Nat] /\ info' \in [File -> Infos]
      /\ retired' \in [File -> BOOLEAN]
  BY <1>1, Records
<1>3. \A f \in S : owner[f] = NoWork /\ ~retired[f] /\ size[f] > 0
  BY DEF Placement, FilesPlaced
<1>4. FilesPlaced'
  <2>1. ASSUME NEW k \in Key, index'[k] # NoFile
        PROVE  /\ size'[index'[k]] > 0 /\ owner'[index'[k]] = NoWork
               /\ ~retired'[index'[k]]
    <3>1. index[k] \notin S /\ index'[k] = index[k]
      BY <1>1, <2>1
    <3> QED
      BY <1>1, <2>1, <3>1 DEF Placement, FilesPlaced
  <2>2. ASSUME NEW j \in Key, NEW k \in Key, index'[j] = index'[k],
               index'[j] # NoFile
        PROVE  j = k
    BY <1>1, <2>2 DEF Placement, FilesPlaced
  <2>3. ASSUME NEW f \in File, retired'[f]
        PROVE  size'[f] > 0 /\ owner'[f] = NoWork /\ pins'[f] > 0
    BY <1>1, <1>3, <2>3 DEF Placement, FilesPlaced
  <2>4. ASSUME NEW f \in File, pins'[f] > 0
        PROVE  retired'[f] \/ \E k \in Key : index'[k] = f
    <3>1. CASE f \in S
      <4>1. f \in S \ R
        BY <2>4, <3>1
      <4>2. retired'[f] = (retired[f] \/ f \in S \ R)
        BY <1>1
      <4> QED
        BY <4>1, <4>2
    <3>2. CASE f \notin S
      <4>1. retired[f] \/ \E k \in Key : index[k] = f
        BY <2>4 DEF Placement, FilesPlaced
      <4>2. ASSUME NEW k \in Key, index[k] = f PROVE index'[k] = f
        BY <1>1, <3>2, <4>2
      <4> QED
        BY <1>1, <4>1, <4>2
    <3> QED
      BY <3>1, <3>2
  <2>5. ASSUME NEW f \in File, Unused(f)'
        PROVE  size'[f] = 0
    <3>1. CASE f \in S
      BY <1>1, <2>5, <3>1 DEF Unused
    <3>2. CASE f \notin S
      <4>1. Unused(f)
        BY <1>1, <2>5, <3>2 DEF Unused
      <4> QED
        BY <1>1, <3>2, <4>1 DEF Placement, FilesPlaced
    <3> QED
      BY <3>1, <3>2
  <2> QED
    BY <2>1, <2>2, <2>3, <2>4, <2>5 DEF FilesPlaced
<1>5. Freed(S) = Bytes(R, size)
  BY DEF Freed
<1>6. Freed(S) \in Nat
  BY <1>5, Totals
<1>7. Bytes(File, size)' = Bytes(File, size) - Freed(S)
  <2>1. R \in SUBSET File
    OBVIOUS
  <2>2. \A f \in File \ R : size'[f] = size[f]
    BY <1>1
  <2>3. \A f \in R : size'[f] = 0
    BY <1>1
  <2>4. Bytes(File, size') = Bytes(File, size) - Bytes(R, size)
    BY <2>1, <2>2, <2>3, BytesDrop
  <2> QED
    BY <1>5, <2>4 DEF Bytes, Cells
<1>8. ASSUME NEW w \in Work
      PROVE  Bytes(Held(w), size)' = Bytes(Held(w), size)
  <2>1. Held(w)' = Held(w)
    BY DEF Held
  <2>2. \A f \in Held(w) : size'[f] = size[f]
    BY <1>1, <1>3 DEF Held
  <2> QED
    BY <2>1, <2>2, ShareStable
<1> QED
  BY <1>2, <1>4, <1>6, <1>7, <1>8

\* The number of bodies open on a file follows from what a step does to them.
LEMMA PinsStable ==
  ASSUME IInv, UNCHANGED pins,
         \A b \in Body : body'[b].file = body[b].file
  PROVE  \A f \in File : pins'[f] = Cardinality({b \in Body : body'[b].file = f})
<1> SUFFICES ASSUME NEW f \in File
             PROVE  pins'[f] = Cardinality({b \in Body : body'[b].file = f})
  OBVIOUS
<1>1. {b \in Body : body'[b].file = f} = {b \in Body : body[b].file = f}
  OBVIOUS
<1> QED
  BY <1>1 DEF IInv, Accounting

\* A hit adds one body and one pin.
LEMMA GetHitKeeps ==
  ASSUME IInv, NEW k \in Key, NEW b \in Body, NEW r \in BOOLEAN, GetHit(k, b, r)
  PROVE  IInv'
<1> USE FileAssumption, BodyAssumption, WorkAssumption DEF IInv
<1> DEFINE f == index[k]
<1>1. /\ f \in File /\ body[b] = NoBody
      /\ pins' = [pins EXCEPT ![f] = @ + 1]
      /\ body' = [body EXCEPT ![b] = [file |-> f, refs |-> 1, shared |-> FALSE]]
      /\ UNCHANGED <<clock, maxBytes, used, index, size, growth, owner, info,
                     retired, work>>
  BY DEF GetHit, TypeOK
<1>2. TypeOK'
  BY <1>1 DEF TypeOK, Bodies
<1>3. Placement'
  <2>1. FilesPlaced'
    BY <1>1 DEF Placement, FilesPlaced, Unused, TypeOK
  <2>2. WorkPlaced'
    BY <1>1 DEF Placement, WorkPlaced
  <2> QED
    BY <2>1, <2>2 DEF Placement
<1>4. Accounting'
  <2>1. used' = Bytes(File, size)' + Bytes(File, growth)'
    BY <1>1 DEF Accounting, Bytes, Cells
  <2>2. \A w \in Work : work'[w].used = Bytes(Held(w), size)'
    BY <1>1 DEF Accounting, Bytes, Cells, Held
  <2>3. ASSUME NEW g \in File
        PROVE  pins'[g] = Cardinality({c \in Body : body'[c].file = g})
    <3> DEFINE Open == {c \in Body : body[c].file = g}
    <3>1. IsFiniteSet(Open) /\ pins[g] = Cardinality(Open)
      BY FS_Subset DEF Accounting
    <3>2. CASE g = f
      <4>1. {c \in Body : body'[c].file = g} = Open \cup {b}
        BY <1>1, <3>2 DEF TypeOK
      <4>2. b \notin Open
        BY <1>1, <3>2, Records
      <4>3. Cardinality(Open \cup {b}) = Cardinality(Open) + 1
        BY <3>1, <4>2, FS_AddElement
      <4>4. pins'[g] = pins[g] + 1
        BY <1>1, <3>2 DEF TypeOK
      <4> QED
        BY <3>1, <4>1, <4>3, <4>4
    <3>3. CASE g # f
      <4>1. {c \in Body : body'[c].file = g} = Open
        BY <1>1, <3>3, Records DEF TypeOK
      <4> QED
        BY <1>1, <3>1, <3>3, <4>1 DEF TypeOK
    <3> QED
      BY <3>2, <3>3
  <2> QED
    BY <2>1, <2>2, <2>3 DEF Accounting
<1> QED
  BY <1>1, <1>2, <1>3, <1>4

\* A step that only takes entries out of the index, and may end the writing of
\* a workspace, keeps the invariant.
LEMMA RemovalKeeps ==
  ASSUME IInv, NEW S \in SUBSET File, \A f \in S : \E k \in Key : index[k] = f,
         index' = Unindexed(S), Discard(S), used' = used - Freed(S),
         UNCHANGED <<clock, maxBytes, growth, owner, pins, body>>,
         work' \in [Work -> Workspaces],
         \A w \in Work : /\ work'[w].used = work[w].used
                         /\ work'[w].goal = work[w].goal
                         /\ work'[w].key = work[w].key
                         /\ work'[w].state = "none" <=> work[w].state = "none"
  PROVE  IInv'
<1> USE WorkAssumption DEF IInv
<1>1. /\ index' \in [Key -> File \cup {NoFile}]
      /\ size' \in [File -> Nat] /\ info' \in [File -> Infos]
      /\ retired' \in [File -> BOOLEAN]
      /\ FilesPlaced'
      /\ Bytes(File, size)' = Bytes(File, size) - Freed(S)
      /\ Freed(S) \in Nat
      /\ \A w \in Work : Bytes(Held(w), size)' = Bytes(Held(w), size)
  BY DiscardKeeps
<1>2. used' = Bytes(File, size)' + Bytes(File, growth)'
  <2>1. Bytes(File, growth)' = Bytes(File, growth)
    BY DEF Bytes, Cells
  <2> QED
    BY <1>1, <2>1, Totals DEF Accounting
<1>3. Accounting'
  <2>1. \A f \in File : pins'[f] = Cardinality({b \in Body : body'[b].file = f})
    BY PinsStable
  <2> QED
    BY <1>1, <1>2, <2>1 DEF Accounting
<1>4. Bytes(File, size)' \in Nat
  <2>1. \A f \in File : size'[f] \in Nat
    BY <1>1
  <2>2. Bytes(File, size') \in Nat
    BY <2>1, FileAssumption, CellsFinite
  <2> QED
    BY <2>2 DEF Bytes, Cells
<1>5. TypeOK'
  <2>1. used' \in Nat
    BY <1>2, <1>4, Totals DEF Bytes, Cells
  <2> QED
    BY <1>1, <2>1 DEF TypeOK
<1>6. WorkPlaced'
  <2>1. ASSUME NEW f \in File
        PROVE  /\ owner'[f] = NoWork => growth'[f] = 0
               /\ owner'[f] # NoWork => work'[owner'[f]].state # "none"
    BY DEF Placement, WorkPlaced, TypeOK
  <2>2. ASSUME NEW w \in Work
        PROVE  /\ work'[w].state # "none" => work'[w].key \in Key
               /\ work'[w].goal # NoGoal => work'[w].goal.total \in Total
    <3>1. /\ work'[w].goal = work[w].goal /\ work'[w].key = work[w].key
          /\ work'[w].state = "none" <=> work[w].state = "none"
      OBVIOUS
    <3>2. /\ work[w].state # "none" => work[w].key \in Key
          /\ work[w].goal # NoGoal => work[w].goal.total \in Total
      BY DEF Placement, WorkPlaced
    <3> QED
      BY <3>1, <3>2
  <2> QED
    BY <2>1, <2>2 DEF WorkPlaced
<1>7. used' <= maxBytes'
  BY <1>1, SizeAssumption DEF TypeOK
<1> QED
  BY <1>1, <1>3, <1>5, <1>6, <1>7 DEF Placement

\* What evict may remove, and what it guarantees when it returns nil.
LEMMA EvictionFacts ==
  ASSUME IInv, NEW n, NEW p, NEW e \in Evictions(n, p)
  PROVE  /\ e.gone \in SUBSET File
         /\ \A f \in e.gone : pins[f] = 0 /\ \E k \in Key : index[k] = f
         /\ e.err = "nil" => used - Bytes(e.gone, size) + n <= maxBytes
<1>1. Candidates(p) \in SUBSET File
  BY DEF Candidates, IInv, TypeOK
<1>2. /\ e.gone \subseteq Candidates(p)
      /\ e.err = "nil" => used - Bytes(e.gone, size) + n <= maxBytes
  <2> DEFINE dead == {f \in Candidates(p) : Expired(f)}
             live == Candidates(p) \ dead
             fits(S) == Fits(dead \cup S, n)
             error(S) == CASE fits(S) -> "nil"
                           [] ~fits(S) /\ S = live -> "capacity"
                           [] OTHER -> "remove"
  <2>1. \/ e = [gone |-> {}, err |-> "capacity"]
        \/ \E S \in SUBSET live : e = [gone |-> dead \cup S, err |-> error(S)]
        \/ \E S \in SUBSET dead : e = [gone |-> S, err |-> "remove"]
    BY Zenon DEF Evictions
  <2>2. CASE e = [gone |-> {}, err |-> "capacity"]
    BY <2>2
  <2>3. CASE \E S \in SUBSET live : e = [gone |-> dead \cup S, err |-> error(S)]
    <3>1. PICK S \in SUBSET live : e = [gone |-> dead \cup S, err |-> error(S)]
      BY <2>3
    <3>2. dead \cup S \subseteq Candidates(p)
      OBVIOUS
    <3>3. error(S) = "nil" => fits(S)
      OBVIOUS
    <3>4. fits(S) => used - Bytes(dead \cup S, size) + n <= maxBytes
      BY DEF Fits
    <3> HIDE DEF error
    <3> QED
      BY <3>1, <3>2, <3>3, <3>4
  <2>4. CASE \E S \in SUBSET dead : e = [gone |-> S, err |-> "remove"]
    BY <2>4
  <2> QED
    BY <2>1, <2>2, <2>3, <2>4
<1>4. \A f \in Candidates(p) : pins[f] = 0 /\ \E k \in Key : index[k] = f
  BY DEF Candidates
<1> QED
  BY <1>1, <1>2, <1>4

\* get drops an entry of no use: one more case of removal.
LEMMA GetRemovesKeeps ==
  ASSUME IInv, NEW k \in Key, GetRemoves(k)
  PROVE  IInv'
<1>1. /\ {index[k]} \in SUBSET File
      /\ \A f \in {index[k]} : \E j \in Key : index[j] = f
  BY DEF GetRemoves, IInv, TypeOK
<1> QED
  BY <1>1, RemovalKeeps DEF GetRemoves, IInv, TypeOK

\* Cleanup is an eviction without a reservation.
LEMMA CleanupKeeps ==
  ASSUME IInv, Cleanup
  PROVE  IInv'
<1>1. PICK e \in Evictions(0, NoKey) :
        index' = Unindexed(e.gone) /\ Discard(e.gone) /\ used' = used - Freed(e.gone)
  BY DEF Cleanup
<1> QED
  BY <1>1, EvictionFacts, RemovalKeeps DEF Cleanup, IInv, TypeOK

\* A refused write leaves an eviction behind and nothing else.
LEMMA WriteRefusedKeeps ==
  ASSUME IInv, NEW w \in Work, NEW f \in File, NEW n \in Chunk, NEW err,
         WriteRefused(w, f, n, err)
  PROVE  IInv'
<1>1. PICK e \in Evictions(n, work[w].key) :
        index' = Unindexed(e.gone) /\ Discard(e.gone) /\ used' = used - Freed(e.gone)
  BY DEF WriteRefused
<1>2. /\ work' \in [Work -> Workspaces]
      /\ \A v \in Work : /\ work'[v].used = work[v].used
                         /\ work'[v].goal = work[v].goal
                         /\ work'[v].key = work[v].key
                         /\ work'[v].state = "none" <=> work[v].state = "none"
  BY DEF WriteRefused, Writable, AfterFailure, IInv, TypeOK, Workspaces
<1> QED
  BY <1>1, <1>2, EvictionFacts, RemovalKeeps DEF WriteRefused

\* A step that leaves sizes, pins and workspaces alone keeps the counters right.
LEMMA AccountingStable ==
  ASSUME IInv, UNCHANGED <<used, size, growth, owner, pins, work>>,
         \A b \in Body : body'[b].file = body[b].file
  PROVE  Accounting'
<1>1. \A f \in File : pins'[f] = Cardinality({c \in Body : body'[c].file = f})
  BY PinsStable
<1>2. used' = Bytes(File, size)' + Bytes(File, growth)'
  BY DEF IInv, Accounting, Bytes, Cells
<1>3. \A w \in Work : work'[w].used = Bytes(Held(w), size)'
  BY DEF IInv, Accounting, Bytes, Cells, Held
<1> QED
  BY <1>1, <1>2, <1>3 DEF Accounting

\* References are the body's own business.
LEMMA RetainKeeps ==
  ASSUME IInv, NEW b \in Body, NEW n \in 1 .. MaxHolders, Retain(b, n)
  PROVE  IInv'
<1> USE BoundAssumption DEF IInv, Retain
<1>1. TypeOK'
  BY DEF TypeOK, Bodies
<1>2. Placement'
  BY DEF Placement, FilesPlaced, WorkPlaced, Unused
<1>3. \A c \in Body : body'[c].file = body[c].file
  BY DEF TypeOK, Bodies
<1> QED
  BY <1>1, <1>2, <1>3, AccountingStable

\* A reference less, nothing unpinned yet.
LEMMA CloseKeeps ==
  ASSUME IInv, NEW b \in Body, Close(b)
  PROVE  IInv'
<1> USE DEF IInv, Close
<1>1. TypeOK'
  BY DEF TypeOK, Bodies
<1>2. Placement'
  BY DEF Placement, FilesPlaced, WorkPlaced, Unused
<1>3. \A c \in Body : body'[c].file = body[c].file
  BY DEF TypeOK, Bodies
<1> QED
  BY <1>1, <1>2, <1>3, AccountingStable

\* Damage changes what can be read, not what is there.
LEMMA DamageKeeps ==
  ASSUME IInv, NEW k \in Key, Damage(k)
  PROVE  IInv'
<1> USE DEF IInv, Damage
<1>1. TypeOK'
  BY DEF TypeOK, Infos
<1>2. Placement'
  BY DEF Placement, FilesPlaced, WorkPlaced, Unused
<1> QED
  BY <1>1, <1>2, AccountingStable

\* Time alone charges nothing.
LEMMA TickKeeps ==
  ASSUME IInv, Tick
  PROVE  IInv'
<1> USE DEF IInv, Tick
<1>1. TypeOK'
  BY DEF TypeOK
<1>2. Placement'
  BY DEF Placement, FilesPlaced, WorkPlaced, Unused
<1> QED
  BY <1>1, <1>2, AccountingStable

\* The last reader of a retired file takes its bytes off the disk.
LEMMA UnpinKeeps ==
  ASSUME IInv, NEW b \in Body, Unpin(b)
  PROVE  IInv'
<1> USE FileAssumption, BodyAssumption, WorkAssumption DEF IInv
<1> DEFINE f == body[b].file
           R == {g \in {f} : retired[f] /\ pins[f] = 1}
<1>1. /\ f \in File /\ f # NoFile
      /\ pins' = [pins EXCEPT ![f] = @ - 1]
      /\ used' = used - Bytes(R, size)
      /\ size' = [g \in File |-> IF g \in R THEN 0 ELSE size[g]]
      /\ info' = [g \in File |-> IF g \in R THEN NoInfo ELSE info[g]]
      /\ retired' = [g \in File |-> retired[g] /\ g \notin R]
      /\ body' = [body EXCEPT ![b] = NoBody]
      /\ UNCHANGED <<clock, maxBytes, index, growth, owner, work>>
  BY DEF Unpin, TypeOK, Bodies
<1>2. R \in SUBSET File
  BY <1>1
<1>3. ASSUME NEW g \in File
      PROVE  pins'[g] \in Nat /\ pins'[g] = Cardinality({c \in Body : body'[c].file = g})
  <2> DEFINE Open == {c \in Body : body[c].file = g}
  <2>1. IsFiniteSet(Open) /\ pins[g] = Cardinality(Open)
    BY FS_Subset DEF Accounting
  <2>2. CASE g = f
    <3>1. {c \in Body : body'[c].file = g} = Open \ {b}
      BY <1>1, <2>2, Records DEF TypeOK
    <3>2. b \in Open
      BY <2>2
    <3>3. Cardinality(Open \ {b}) = Cardinality(Open) - 1 /\ IsFiniteSet(Open \ {b})
      BY <2>1, <3>2, FS_RemoveElement
    <3>4. Cardinality(Open \ {b}) \in Nat
      BY <3>3, FS_CardinalityType
    <3>5. pins'[g] = pins[g] - 1
      BY <1>1, <2>2 DEF TypeOK
    <3> QED
      BY <2>1, <3>1, <3>3, <3>4, <3>5
  <2>3. CASE g # f
    <3>1. {c \in Body : body'[c].file = g} = Open
      BY <1>1, <2>3, Records DEF TypeOK
    <3> QED
      BY <1>1, <2>1, <2>3, <3>1 DEF TypeOK
  <2> QED
    BY <2>2, <2>3
<1>4. FilesPlaced'
  <2>1. ASSUME NEW k \in Key, index'[k] # NoFile
        PROVE  /\ size'[index'[k]] > 0 /\ owner'[index'[k]] = NoWork
               /\ ~retired'[index'[k]]
    <3>1. /\ index[k] \in File /\ ~retired[index[k]]
          /\ size[index[k]] > 0 /\ owner[index[k]] = NoWork
      BY <1>1, <2>1 DEF Placement, FilesPlaced, TypeOK
    <3>2. index[k] \notin R
      BY <3>1
    <3> QED
      BY <1>1, <3>1, <3>2
  <2>2. \A j, k \in Key : index'[j] = index'[k] /\ index'[j] # NoFile => j = k
    BY <1>1 DEF Placement, FilesPlaced
  <2>3. ASSUME NEW g \in File, retired'[g]
        PROVE  size'[g] > 0 /\ owner'[g] = NoWork /\ pins'[g] > 0
    <3>1. retired[g] /\ g \notin R
      BY <1>1, <2>3
    <3>2. size[g] > 0 /\ owner[g] = NoWork /\ pins[g] > 0
      BY <3>1 DEF Placement, FilesPlaced
    <3>3. g = f => pins[g] # 1
      BY <3>1
    <3> QED
      BY <1>1, <1>2, <3>1, <3>2, <3>3 DEF TypeOK
  <2>4. ASSUME NEW g \in File, pins'[g] > 0
        PROVE  retired'[g] \/ \E k \in Key : index'[k] = g
    <3>1. pins[g] > 0 /\ g \notin R
      BY <1>1, <2>4 DEF TypeOK
    <3>2. retired[g] \/ \E k \in Key : index[k] = g
      BY <3>1 DEF Placement, FilesPlaced
    <3>3. retired'[g] = (retired[g] /\ g \notin R)
      BY <1>1
    <3> QED
      BY <1>1, <3>1, <3>2, <3>3
  <2>5. ASSUME NEW g \in File, Unused(g)'
        PROVE  size'[g] = 0
    <3>1. CASE g \in R
      BY <1>1, <3>1
    <3>2. CASE g \notin R
      <4>1. Unused(g)
        <5>1. ~retired[g]
          BY <1>1, <2>5, <3>2 DEF Unused
        <5> QED
          BY <1>1, <2>5, <5>1 DEF Unused
      <4> QED
        BY <1>1, <3>2, <4>1 DEF Placement, FilesPlaced
    <3> QED
      BY <3>1, <3>2
  <2> QED
    BY <2>1, <2>2, <2>3, <2>4, <2>5 DEF FilesPlaced
<1>5. Placement'
  <2>1. WorkPlaced'
    BY <1>1 DEF Placement, WorkPlaced
  <2> QED
    BY <1>4, <2>1 DEF Placement
<1>6. /\ Bytes(File, size)' = Bytes(File, size) - Bytes(R, size)
      /\ Bytes(File, size)' \in Nat /\ Bytes(R, size) \in Nat
      /\ size' \in [File -> Nat]
  <2>1. \A g \in File \ R : size'[g] = size[g]
    BY <1>1
  <2>2. \A g \in R : size'[g] = 0
    BY <1>1, <1>2
  <2>3. size' \in [File -> Nat]
    BY <1>1 DEF TypeOK
  <2>4. \A g \in File : size[g] \in Nat /\ size'[g] \in Nat
    BY <2>3 DEF TypeOK
  <2>5. Bytes(File, size') = Bytes(File, size) - Bytes(R, size)
    BY <1>2, <2>1, <2>2, <2>4, BytesDrop
  <2>6. Bytes(File, size') \in Nat
    BY <2>4, CellsFinite
  <2>7. Bytes(R, size) \in Nat
    BY <1>2, Totals
  <2> QED
    BY <2>3, <2>5, <2>6, <2>7 DEF Bytes, Cells
<1>7. ASSUME NEW w \in Work
      PROVE  Bytes(Held(w), size)' = Bytes(Held(w), size)
  <2>1. Held(w)' = Held(w)
    BY <1>1 DEF Held
  <2>2. \A g \in R : owner[g] = NoWork
    BY <1>2 DEF Placement, FilesPlaced
  <2>3. \A g \in Held(w) : size'[g] = size[g]
    BY <1>1, <2>2 DEF Held
  <2> QED
    BY <2>1, <2>3, ShareStable
<1>8. Accounting' /\ used' \in Nat
  <2>1. Bytes(File, growth)' = Bytes(File, growth)
    BY <1>1 DEF Bytes, Cells
  <2>2. /\ used = Bytes(File, size) + Bytes(File, growth)
        /\ Bytes(File, size) \in Nat /\ Bytes(File, growth) \in Nat
    BY Totals DEF Accounting
  <2>3. used' = used - Bytes(R, size)
    BY <1>1
  <2> HIDE DEF R
  <2>4. used' = Bytes(File, size)' + Bytes(File, growth)' /\ used' \in Nat
    BY <1>6, <2>1, <2>2, <2>3
  <2> QED
    BY <1>1, <1>3, <1>7, <2>4 DEF Accounting
<1>9. TypeOK'
  <2>1. used' \in Nat
    BY <1>8
  <2>2. pins' \in [File -> Nat]
    BY <1>1, <1>3 DEF TypeOK
  <2>3. info' \in [File -> Infos] /\ retired' \in [File -> BOOLEAN]
    BY <1>1, Records DEF TypeOK
  <2>4. body' \in [Body -> Bodies]
    BY <1>1, Records DEF TypeOK
  <2> QED
    BY <1>1, <1>6, <2>1, <2>2, <2>3, <2>4 DEF TypeOK
<1>10. used' <= maxBytes'
  <2>1. used' = used - Bytes(R, size) /\ maxBytes' = maxBytes
    BY <1>1
  <2>2. maxBytes \in Nat /\ used \in Nat /\ used <= maxBytes
    BY SizeAssumption DEF TypeOK
  <2> HIDE DEF R
  <2> QED
    BY <1>6, <2>1, <2>2
<1> QED
  BY <1>5, <1>8, <1>9, <1>10

\* A workspace that was never opened, or is closed, owns nothing.
LEMMA HeldByNobody ==
  ASSUME IInv, NEW w \in Work, work[w].state = "none"
  PROVE  Held(w) = {} /\ work[w].used = 0
<1>1. Held(w) = {}
  BY WorkAssumption DEF Held, IInv, Placement, WorkPlaced
<1>2. Bytes(Held(w), size) = 0
  BY <1>1, BytesZero
<1> QED
  BY <1>1, <1>2 DEF IInv, Accounting

\* A new workspace owns nothing.
LEMMA OpenWorkspaceKeeps ==
  ASSUME IInv, NEW w \in Work, NEW k \in Key, OpenWorkspace(w, k)
  PROVE  IInv'
<1> USE WorkAssumption DEF IInv
<1>1. /\ work[w].state = "none"
      /\ work' = [work EXCEPT ![w] =
                    [state |-> "open", key |-> k, used |-> 0, goal |-> NoGoal]]
      /\ UNCHANGED <<clock, maxBytes, used, index, size, growth, owner, info,
                     pins, retired, body>>
  BY DEF OpenWorkspace
<1>2. TypeOK'
  BY <1>1, Records DEF TypeOK, Workspaces
<1>3. Placement'
  BY <1>1 DEF Placement, FilesPlaced, WorkPlaced, Unused, TypeOK
<1>4. Accounting'
  <2>1. \A f \in File : pins'[f] = Cardinality({b \in Body : body'[b].file = f})
    BY <1>1 DEF Accounting
  <2>2. used' = Bytes(File, size)' + Bytes(File, growth)'
    BY <1>1 DEF Accounting, Bytes, Cells
  <2>3. ASSUME NEW v \in Work PROVE work'[v].used = Bytes(Held(v), size)'
    <3>1. Bytes(Held(v), size)' = Bytes(Held(v), size)
      BY <1>1 DEF Bytes, Cells, Held
    <3>2. work'[v].used = work[v].used
      BY <1>1, HeldByNobody DEF TypeOK
    <3> QED
      BY <3>1, <3>2 DEF Accounting
  <2> QED
    BY <2>1, <2>2, <2>3 DEF Accounting
<1> QED
  BY <1>1, <1>2, <1>3, <1>4

\* A file that is nowhere becomes an empty file of a workspace.
LEMMA UnusedFile ==
  ASSUME IInv, NEW f \in File, Unused(f)
  PROVE  size[f] = 0 /\ growth[f] = 0 /\ pins[f] = 0 /\ ~retired[f]
         /\ owner[f] = NoWork /\ \A k \in Key : index[k] # f
  BY DEF IInv, TypeOK, Placement, FilesPlaced, WorkPlaced, Unused

\* A file that did not exist adds no bytes to its workspace.
LEMMA CreateAccounting ==
  ASSUME IInv, NEW w \in Work, NEW f \in File, Unused(f),
         owner' = [owner EXCEPT ![f] = w],
         UNCHANGED <<used, size, growth, pins, body>>,
         \A v \in Work : work'[v].used = work[v].used
  PROVE  Accounting'
<1> USE WorkAssumption DEF IInv
<1>1. \A g \in File : pins'[g] = Cardinality({b \in Body : body'[b].file = g})
  BY DEF Accounting
<1>2. used' = Bytes(File, size)' + Bytes(File, growth)'
  BY DEF Accounting, Bytes, Cells
<1>3. ASSUME NEW v \in Work PROVE Bytes(Held(v), size)' = Bytes(Held(v), size)
  <2>1. CASE v # w
    <3>1. Held(v)' = Held(v)
      BY <2>1, UnusedFile DEF Held, TypeOK
    <3> QED
      BY <3>1, ShareStable
  <2>2. CASE v = w
    <3> DEFINE H == Held(v)'
    <3>1. H = Held(v) \cup {f} /\ H \ {f} = Held(v)
      BY <2>2, UnusedFile DEF Held, TypeOK
    <3>2. H \in SUBSET File
      BY DEF Held
    <3>3. IsFiniteSet(H) /\ {f} \in SUBSET H
      BY <3>1, <3>2, FileAssumption, FS_Subset
    <3>4. \A g \in H : size[g] \in Nat
      BY <3>2 DEF TypeOK
    <3> HIDE DEF H
    <3>5. Bytes(H, size) = Bytes(H \ {f}, size) + Bytes({f}, size)
      BY <3>3, <3>4, BytesPart, ZenonT(40)
    <3>6. Bytes({f}, size) = 0
      BY UnusedFile, BytesZero
    <3>7. Bytes(Held(v), size) \in Nat
      BY Totals
    <3>8. Bytes(H \ {f}, size) = Bytes(Held(v), size)
      BY <3>1
    <3>9. Bytes(H, size) = Bytes(Held(v), size)
      BY <3>5, <3>6, <3>7, <3>8
    <3> QED
      BY <3>9 DEF H, Bytes, Cells
  <2> QED
    BY <2>1, <2>2
<1> QED
  BY <1>1, <1>2, <1>3 DEF Accounting

\* Create only adds an empty file.
LEMMA CreateKeeps ==
  ASSUME IInv, NEW w \in Work, NEW f \in File, Create(w, f)
  PROVE  IInv'
<1> USE WorkAssumption DEF IInv
<1>1. /\ work[w].state = "open" /\ Unused(f)
      /\ owner' = [owner EXCEPT ![f] = w]
      /\ UNCHANGED <<clock, maxBytes, used, index, size, growth, info, pins,
                     retired, body, work>>
  BY DEF Create
<1>2. TypeOK'
  BY <1>1 DEF TypeOK
<1>3. FilesPlaced'
  BY <1>1, UnusedFile DEF Placement, FilesPlaced, Unused, TypeOK
<1>4. WorkPlaced'
  BY <1>1 DEF Placement, WorkPlaced, TypeOK
<1>5. Accounting'
  BY <1>1, CreateAccounting
<1> QED
  BY <1>1, <1>2, <1>3, <1>4, <1>5 DEF Placement

\* SetLifetime opens a workspace with one empty file.
LEMMA SetLifetimeKeeps ==
  ASSUME IInv, NEW w \in Work, NEW k \in Key, NEW f \in File,
         NEW total \in Total, NEW life \in Lifetime,
         SetLifetime(w, k, f, total, life)
  PROVE  IInv'
<1> USE WorkAssumption DEF IInv
<1> DEFINE goal == [total |-> total, fresh |-> clock + life[1],
                    retain |-> clock + life[1] + life[2]]
<1>1. /\ work[w].state = "none" /\ Unused(f)
      /\ work' = [work EXCEPT ![w] =
                    [state |-> "open", key |-> k, used |-> 0, goal |-> goal]]
      /\ owner' = [owner EXCEPT ![f] = w]
      /\ UNCHANGED <<clock, maxBytes, used, index, size, growth, info, pins,
                     retired, body>>
  BY DEF SetLifetime
<1>2. goal \in Goals /\ goal.total \in Total
  BY SizeAssumption, LifetimeAssumption DEF TypeOK, Goals
<1> HIDE DEF goal
<1>3. TypeOK'
  BY <1>1, <1>2 DEF TypeOK, Workspaces
<1>4. FilesPlaced'
  BY <1>1, UnusedFile DEF Placement, FilesPlaced, Unused, TypeOK
<1>5. WorkPlaced'
  BY <1>1, <1>2 DEF Placement, WorkPlaced, TypeOK
<1>6. Accounting'
  <2>1. \A v \in Work : work'[v].used = work[v].used
    BY <1>1, HeldByNobody DEF TypeOK
  <2> QED
    BY <1>1, <2>1, CreateAccounting
<1> QED
  BY <1>1, <1>3, <1>4, <1>5, <1>6 DEF Placement

\* A write that needs room: the evicted files go, the growth is reserved.
LEMMA WriteReserveKeeps ==
  ASSUME IInv, NEW w \in Work, NEW f \in File, NEW n \in Chunk,
         WriteReserve(w, f, n)
  PROVE  IInv'
<1> USE FileAssumption, WorkAssumption DEF IInv
<1>1. n \in Nat /\ n > 0 /\ maxBytes \in Nat
  BY SizeAssumption DEF TypeOK
<1>2. /\ owner[f] = w /\ ~Busy(w)
      /\ UNCHANGED <<clock, maxBytes, owner, pins, body, work>>
  BY DEF WriteReserve, Writable
<1>3. PICK S \in SUBSET File :
        /\ \A g \in S : pins[g] = 0 /\ \E k \in Key : index[k] = g
        /\ used - Bytes(S, size) + n <= maxBytes
        /\ index' = Unindexed(S) /\ Discard(S)
        /\ used' = used - Freed(S) + n
        /\ growth' = [growth EXCEPT ![f] = n]
  <2>1. CASE n > maxBytes - used
    <3>1. PICK e \in Evictions(n, work[w].key) :
            /\ e.err = "nil"
            /\ index' = Unindexed(e.gone) /\ Discard(e.gone)
            /\ used' = used - Freed(e.gone) + n
            /\ growth' = [growth EXCEPT ![f] = n]
      BY <2>1 DEF WriteReserve
    <3> QED
      BY <3>1, EvictionFacts
  <2>2. CASE ~(n > maxBytes - used)
    <3>1. /\ index' = Unindexed({}) /\ Discard({})
          /\ used' = used - Freed({}) + n
          /\ growth' = [growth EXCEPT ![f] = n]
      BY <2>2 DEF WriteReserve
    <3>2. Bytes({}, size) = 0
      BY BytesZero
    <3>3. used - Bytes({}, size) + n <= maxBytes
      BY <1>1, <2>2, <3>2 DEF TypeOK
    <3> QED
      BY <3>1, <3>3
  <2> QED
    BY <2>1, <2>2
<1>4. /\ index' \in [Key -> File \cup {NoFile}]
      /\ size' \in [File -> Nat] /\ info' \in [File -> Infos]
      /\ retired' \in [File -> BOOLEAN]
      /\ FilesPlaced'
      /\ Bytes(File, size)' = Bytes(File, size) - Freed(S)
      /\ Freed(S) \in Nat
      /\ \A v \in Work : Bytes(Held(v), size)' = Bytes(Held(v), size)
  BY <1>2, <1>3, DiscardKeeps
<1>5. Freed(S) = Bytes(S, size)
  <2>1. {g \in S : pins[g] = 0} = S
    BY <1>3
  <2> QED
    BY <2>1 DEF Freed
<1>6. growth[f] = 0
  BY <1>2 DEF Busy, Held, TypeOK
<1>7. growth' \in [File -> Nat] /\ Bytes(File, growth)' = Bytes(File, growth) + n
  <2>1. growth' \in [File -> Nat]
    BY <1>1, <1>3 DEF TypeOK
  <2>2. /\ \A g \in File : growth[g] \in Nat
        /\ growth'[f] = n /\ \A g \in File \ {f} : growth'[g] = growth[g]
    BY <1>3 DEF TypeOK
  <2>3. Bytes(File, growth') = Bytes(File, growth) - growth[f] + growth'[f]
    BY <1>1, <2>2, BytesUpdate
  <2>4. Bytes(File, growth') = Bytes(File, growth) + n
    BY <1>1, <1>6, <2>2, <2>3, Totals
  <2> QED
    BY <2>1, <2>4 DEF Bytes, Cells
<1>8. /\ used' = Bytes(File, size)' + Bytes(File, growth)'
      /\ used' \in Nat /\ used' <= maxBytes
  <2>1. used = Bytes(File, size) + Bytes(File, growth)
    BY DEF Accounting
  <2>2. Bytes(File, size)' \in Nat
    <3>1. Bytes(File, size') \in Nat
      BY <1>4, CellsFinite
    <3> QED
      BY <3>1 DEF Bytes, Cells
  <2>3. used' = used - Freed(S) + n
    BY <1>3
  <2>4. used - Freed(S) + n <= maxBytes
    BY <1>3, <1>5
  <2> QED
    BY <1>1, <1>4, <1>7, <2>1, <2>2, <2>3, <2>4, Totals
<1>9. TypeOK'
  BY <1>2, <1>4, <1>7, <1>8 DEF TypeOK
<1>10. WorkPlaced'
  BY <1>2, <1>3 DEF Placement, WorkPlaced, TypeOK
<1>11. Accounting'
  <2>1. \A g \in File : pins'[g] = Cardinality({b \in Body : body'[b].file = g})
    BY <1>2 DEF Accounting
  <2> QED
    BY <1>2, <1>4, <1>8, <2>1 DEF Accounting
<1> QED
  BY <1>2, <1>4, <1>8, <1>9, <1>10, <1>11 DEF Placement

\* A file that grows inside its workspace, whose share grows with it.
LEMMA GrownShare ==
  ASSUME IInv, NEW w \in Work, NEW f \in File, owner[f] = w,
         size' \in [File -> Nat], \A g \in File \ {f} : size'[g] = size[g],
         owner' = owner
  PROVE  /\ Bytes(File, size)' = Bytes(File, size) - size[f] + size'[f]
         /\ Bytes(Held(w), size)' = Bytes(Held(w), size) - size[f] + size'[f]
         /\ \A v \in Work \ {w} : Bytes(Held(v), size)' = Bytes(Held(v), size)
         /\ Bytes(File, size)' \in Nat /\ Bytes(Held(w), size)' \in Nat
<1> USE FileAssumption DEF IInv, TypeOK
<1>1. \A g \in File : size[g] \in Nat /\ size'[g] \in Nat
  OBVIOUS
<1>2. Bytes(File, size') = Bytes(File, size) - size[f] + size'[f]
  BY <1>1, BytesUpdate
<1>3. f \in Held(w) /\ Held(w) \in SUBSET File /\ IsFiniteSet(Held(w))
  BY FS_Subset DEF Held
<1>4. Bytes(Held(w), size') = Bytes(Held(w), size) - size[f] + size'[f]
  BY <1>1, <1>3, BytesUpdate
<1>5. \A v \in Work : Held(v)' = Held(v)
  BY DEF Held
<1>6. ASSUME NEW v \in Work \ {w}
      PROVE  Bytes(Held(v), size)' = Bytes(Held(v), size)
  <2>1. \A g \in Held(v) : size'[g] = size[g]
    BY DEF Held
  <2> QED
    BY <1>5, <2>1, ShareStable
<1>7. Bytes(File, size') \in Nat /\ Bytes(Held(w), size') \in Nat
  BY <1>1, <1>3, CellsFinite
<1>8. Bytes(Held(w), size)' = Bytes(Held(w), size')
  BY <1>5 DEF Bytes, Cells
<1>9. Bytes(File, size)' = Bytes(File, size')
  BY DEF Bytes, Cells
<1> QED
  BY <1>2, <1>4, <1>6, <1>7, <1>8, <1>9

\* The bytes written move from the growth to the size; the rest is given back.
LEMMA WriteSettleKeeps ==
  ASSUME IInv, NEW w \in Work, NEW f \in File, NEW n \in 0 .. growth[f],
         WriteSettle(w, f, n)
  PROVE  IInv'
<1> USE FileAssumption, WorkAssumption DEF IInv
<1>1. /\ owner[f] = w /\ n \in Nat /\ n <= growth[f] /\ growth[f] \in Nat
      /\ growth[f] > 0
      /\ size' = [size EXCEPT ![f] = @ + n]
      /\ growth' = [growth EXCEPT ![f] = 0]
      /\ used' = used - (growth[f] - n)
      /\ UNCHANGED <<clock, maxBytes, index, owner, pins, retired, body>>
  BY DEF WriteSettle, TypeOK
<1>2. size' \in [File -> Nat] /\ growth' \in [File -> Nat] /\ size'[f] = size[f] + n
  BY <1>1 DEF TypeOK
<1>3. /\ work'[w].used = work[w].used + n
      /\ \A v \in Work \ {w} : work'[v] = work[v]
      /\ \A v \in Work : /\ work'[v].goal = work[v].goal
                         /\ work'[v].key = work[v].key
                         /\ work'[v].state = "none" <=> work[v].state = "none"
  BY DEF WriteSettle, AfterFailure, TypeOK, Workspaces
<1>4. work' \in [Work -> Workspaces]
  <2> DEFINE state == IF n < growth[f] THEN AfterFailure(w) ELSE work[w].state
             u     == work[w].used + n
  <2>1. work' = [work EXCEPT ![w].used = u, ![w].state = state]
    BY DEF WriteSettle, TypeOK
  <2>2. /\ state \in {"none", "open", "closing", "leaked"}
        /\ u \in Nat
    BY <1>1 DEF AfterFailure, TypeOK, Workspaces
  <2> HIDE DEF state, u
  <2>3. work[w] \in Workspaces
    BY DEF TypeOK
  <2>4. [work[w] EXCEPT !.used = u] \in Workspaces
    BY <2>2, <2>3 DEF Workspaces
  <2>5. [[work[w] EXCEPT !.used = u] EXCEPT !.state = state] \in Workspaces
    BY <2>2, <2>4 DEF Workspaces
  <2>6. work' = [work EXCEPT ![w] = [work[w] EXCEPT !.used = u, !.state = state]]
    BY <2>1 DEF TypeOK
  <2>7. [work[w] EXCEPT !.used = u, !.state = state]
        = [[work[w] EXCEPT !.used = u] EXCEPT !.state = state]
    OBVIOUS
  <2> QED
    BY <2>5, <2>6, <2>7 DEF TypeOK
<1>5. info' \in [File -> Infos]
  BY SMTT(40) DEF WriteSettle, TypeOK, Infos
<1>6. /\ Bytes(File, size)' = Bytes(File, size) + n
      /\ Bytes(Held(w), size)' = Bytes(Held(w), size) + n
      /\ \A v \in Work \ {w} : Bytes(Held(v), size)' = Bytes(Held(v), size)
      /\ Bytes(File, size)' \in Nat
  <2>1. /\ Bytes(File, size)' = Bytes(File, size) - size[f] + size'[f]
        /\ Bytes(Held(w), size)' = Bytes(Held(w), size) - size[f] + size'[f]
        /\ \A v \in Work \ {w} : Bytes(Held(v), size)' = Bytes(Held(v), size)
        /\ Bytes(File, size)' \in Nat
    BY <1>1, <1>2, GrownShare
  <2>2. size[f] \in Nat /\ Bytes(File, size) \in Nat /\ Bytes(Held(w), size) \in Nat
    BY Totals DEF TypeOK
  <2>3. Bytes(File, size)' = Bytes(File, size) + n
    BY <1>1, <1>2, <2>1, <2>2
  <2>4. Bytes(Held(w), size)' = Bytes(Held(w), size) + n
    BY <1>1, <1>2, <2>1, <2>2
  <2> QED
    BY <2>1, <2>3, <2>4
<1>7. Bytes(File, growth)' = Bytes(File, growth) - growth[f] /\ Bytes(File, growth)' \in Nat
  <2>1. /\ \A g \in File : growth[g] \in Nat /\ growth'[g] \in Nat
        /\ growth'[f] = 0 /\ \A g \in File \ {f} : growth'[g] = growth[g]
    BY <1>1, <1>2 DEF TypeOK
  <2>2. Bytes(File, growth') = Bytes(File, growth) - growth[f] + growth'[f]
    BY <2>1, BytesUpdate
  <2>3. Bytes(File, growth') = Bytes(File, growth) - growth[f]
    BY <1>1, <2>1, <2>2, Totals
  <2>4. Bytes(File, growth') \in Nat
    BY <2>1, CellsFinite
  <2> QED
    BY <2>3, <2>4 DEF Bytes, Cells
<1>8. /\ used' = Bytes(File, size)' + Bytes(File, growth)'
      /\ used' \in Nat /\ used' <= used
  <2>1. used = Bytes(File, size) + Bytes(File, growth)
    BY DEF Accounting
  <2> QED
    BY <1>1, <1>6, <1>7, <2>1, Totals
<1>9. TypeOK'
  BY <1>1, <1>2, <1>4, <1>5, <1>8 DEF TypeOK
<1>10. FilesPlaced'
  <2>1. \A g \in File \ {f} : size'[g] = size[g]
    BY <1>1 DEF TypeOK
  <2>2. \A k \in Key : index[k] # f
    BY <1>1 DEF Placement, FilesPlaced, TypeOK
  <2>3. ~retired[f]
    BY <1>1 DEF Placement, FilesPlaced
  <2> QED
    BY <1>1, <2>1, <2>2, <2>3 DEF Placement, FilesPlaced, Unused, TypeOK
<1>11. WorkPlaced'
  BY <1>1, <1>3 DEF Placement, WorkPlaced, TypeOK
<1>12. Accounting'
  <2>1. \A g \in File : pins'[g] = Cardinality({b \in Body : body'[b].file = g})
    BY <1>1 DEF Accounting
  <2>2. \A v \in Work : work'[v].used = Bytes(Held(v), size)'
    BY <1>3, <1>6 DEF Accounting
  <2> QED
    BY <1>8, <2>1, <2>2 DEF Accounting
<1> QED
  BY <1>1, <1>8, <1>9, <1>10, <1>11, <1>12, SizeAssumption DEF Placement, TypeOK

\* Reset takes the bytes of the file from both counters.
LEMMA ResetKeeps ==
  ASSUME IInv, NEW w \in Work, NEW f \in File, Reset(w, f)
  PROVE  IInv'
<1> USE FileAssumption, WorkAssumption DEF IInv
<1>1. /\ owner[f] = w /\ work[w].state = "open"
      /\ size' = [size EXCEPT ![f] = 0]
      /\ used' = used - size[f]
      /\ work' = [work EXCEPT ![w].used = @ - size[f]]
      /\ UNCHANGED <<clock, maxBytes, index, growth, owner, info, pins, retired,
                     body>>
  BY DEF Reset
<1>2. size' \in [File -> Nat] /\ size'[f] = 0 /\ size[f] \in Nat
  BY <1>1 DEF TypeOK
<1>3. /\ Bytes(File, size)' = Bytes(File, size) - size[f]
      /\ Bytes(Held(w), size)' = Bytes(Held(w), size) - size[f]
      /\ \A v \in Work \ {w} : Bytes(Held(v), size)' = Bytes(Held(v), size)
      /\ Bytes(File, size)' \in Nat /\ Bytes(Held(w), size)' \in Nat
  <2>1. /\ Bytes(File, size)' = Bytes(File, size) - size[f] + size'[f]
        /\ Bytes(Held(w), size)' = Bytes(Held(w), size) - size[f] + size'[f]
        /\ \A v \in Work \ {w} : Bytes(Held(v), size)' = Bytes(Held(v), size)
        /\ Bytes(File, size)' \in Nat /\ Bytes(Held(w), size)' \in Nat
    BY <1>1, <1>2, GrownShare DEF TypeOK
  <2>2. Bytes(File, size) \in Nat /\ Bytes(Held(w), size) \in Nat
    BY Totals
  <2>3. Bytes(File, size)' = Bytes(File, size) - size[f]
    BY <1>2, <2>1, <2>2
  <2>4. Bytes(Held(w), size)' = Bytes(Held(w), size) - size[f]
    BY <1>2, <2>1, <2>2
  <2> QED
    BY <2>1, <2>3, <2>4
<1>4. \A v \in Work : work'[v].used = Bytes(Held(v), size)'
  <2>1. /\ work'[w].used = work[w].used - size[f]
        /\ \A v \in Work \ {w} : work'[v] = work[v]
    BY <1>1 DEF TypeOK, Workspaces
  <2> QED
    BY <1>3, <2>1 DEF Accounting
<1>5. /\ used' = Bytes(File, size)' + Bytes(File, growth)'
      /\ used' \in Nat /\ used' <= used
  <2>1. Bytes(File, growth)' = Bytes(File, growth)
    BY <1>1 DEF Bytes, Cells
  <2>2. used = Bytes(File, size) + Bytes(File, growth)
    BY DEF Accounting
  <2> QED
    BY <1>1, <1>2, <1>3, <2>1, <2>2, Totals
<1>6. TypeOK'
  <2>1. work'[w].used \in Nat
    BY <1>3, <1>4
  <2>2. work' \in [Work -> Workspaces]
    BY <1>1, <2>1, SMTT(40) DEF TypeOK, Workspaces
  <2> QED
    BY <1>1, <1>2, <1>5, <2>2 DEF TypeOK
<1>7. FilesPlaced'
  <2>1. \A g \in File \ {f} : size'[g] = size[g]
    BY <1>1 DEF TypeOK
  <2>2. (\A k \in Key : index[k] # f) /\ ~retired[f]
    BY <1>1 DEF Placement, FilesPlaced, TypeOK
  <2> QED
    BY <1>1, <1>2, <2>1, <2>2 DEF Placement, FilesPlaced, Unused, TypeOK
<1>8. WorkPlaced'
  BY <1>1 DEF Placement, WorkPlaced, TypeOK, Workspaces
<1>9. Accounting'
  <2>1. \A g \in File : pins'[g] = Cardinality({b \in Body : body'[b].file = g})
    BY <1>1 DEF Accounting
  <2> QED
    BY <1>4, <1>5, <2>1 DEF Accounting
<1> QED
  BY <1>1, <1>5, <1>6, <1>7, <1>8, <1>9, SizeAssumption DEF Placement, TypeOK

\* A failed removal leaves bytes and charge where they are.
LEMMA CloseFailsKeeps ==
  ASSUME IInv, NEW w \in Work, CloseFails(w)
  PROVE  IInv'
<1> USE DEF IInv
<1>1. /\ work[w].state # "none"
      /\ work' = [work EXCEPT ![w].state = "leaked"]
      /\ UNCHANGED <<clock, maxBytes, used, index, size, growth, owner, info,
                     pins, retired, body>>
  BY DEF CloseFails
<1>2. TypeOK'
  BY <1>1 DEF TypeOK, Workspaces
<1>3. FilesPlaced'
  BY <1>1 DEF Placement, FilesPlaced, Unused
<1>4. WorkPlaced'
  BY <1>1 DEF Placement, WorkPlaced, TypeOK, Workspaces
<1>5. Accounting'
  <2>1. \A f \in File : pins'[f] = Cardinality({b \in Body : body'[b].file = f})
    BY <1>1 DEF Accounting
  <2>2. used' = Bytes(File, size)' + Bytes(File, growth)'
    BY <1>1 DEF Accounting, Bytes, Cells
  <2>3. \A v \in Work : work'[v].used = Bytes(Held(v), size)'
    BY <1>1 DEF Accounting, Bytes, Cells, Held, TypeOK, Workspaces
  <2> QED
    BY <2>1, <2>2, <2>3 DEF Accounting
<1> QED
  BY <1>1, <1>2, <1>3, <1>4, <1>5 DEF Placement

\* Closing gives back the workspace's share, which is what its files occupy.
LEMMA CloseWorkspaceKeeps ==
  ASSUME IInv, NEW w \in Work, CloseWorkspace(w)
  PROVE  IInv'
<1> USE FileAssumption, WorkAssumption DEF IInv
<1> DEFINE H == Held(w)
<1>1. /\ \A f \in H : ~(growth[f] > 0)
      /\ used' = used - work[w].used
      /\ size' = [f \in File |-> IF f \in H THEN 0 ELSE size[f]]
      /\ owner' = [f \in File |-> IF f \in H THEN NoWork ELSE owner[f]]
      /\ info' = [f \in File |-> IF f \in H THEN NoInfo ELSE info[f]]
      /\ work' = [work EXCEPT ![w] = NoWorkspace]
      /\ UNCHANGED <<clock, maxBytes, index, growth, pins, retired, body>>
  BY DEF CloseWorkspace, Busy
<1>2. H \in SUBSET File /\ \A f \in H : owner[f] = w
  BY DEF Held
<1>3. size' \in [File -> Nat] /\ owner' \in [File -> Work \cup {NoWork}]
      /\ info' \in [File -> Infos] /\ work' \in [Work -> Workspaces]
  BY <1>1, Records DEF TypeOK
<1>4. /\ Bytes(File, size)' = Bytes(File, size) - work[w].used
      /\ Bytes(File, size)' \in Nat /\ work[w].used \in Nat
  <2>1. \A f \in File \ H : size'[f] = size[f]
    BY <1>1
  <2>2. \A f \in H : size'[f] = 0
    BY <1>1, <1>2
  <2>3. \A f \in File : size[f] \in Nat /\ size'[f] \in Nat
    BY <1>3 DEF TypeOK
  <2>4. Bytes(File, size') = Bytes(File, size) - Bytes(H, size)
    BY <1>2, <2>1, <2>2, <2>3, BytesDrop
  <2>5. Bytes(File, size') \in Nat
    BY <2>3, CellsFinite
  <2>6. work[w].used = Bytes(H, size) /\ Bytes(H, size) \in Nat
    BY <1>2, Totals DEF Accounting
  <2> HIDE DEF H
  <2> QED
    BY <2>4, <2>5, <2>6 DEF Bytes, Cells
<1>5. ASSUME NEW v \in Work PROVE work'[v].used = Bytes(Held(v), size)'
  <2>1. CASE v = w
    <3>1. Held(v)' = {}
      BY <1>1, <2>1 DEF Held, TypeOK
    <3>2. Bytes({}, size') = 0
      BY BytesZero
    <3>3. work'[v].used = 0
      BY <1>1, <2>1, Records DEF TypeOK
    <3> QED
      BY <3>1, <3>2, <3>3 DEF Bytes, Cells
  <2>2. CASE v # w
    <3>1. Held(v)' = Held(v)
      BY <1>1, <2>2 DEF Held, TypeOK
    <3>2. \A f \in Held(v) : size'[f] = size[f]
      BY <1>1, <2>2 DEF Held
    <3>3. work'[v] = work[v]
      BY <1>1, <2>2 DEF TypeOK
    <3>4. Bytes(Held(v), size)' = Bytes(Held(v), size)
      BY <3>1, <3>2, ShareStable
    <3> QED
      BY <3>3, <3>4 DEF Accounting
  <2> QED
    BY <2>1, <2>2
<1>6. /\ used' = Bytes(File, size)' + Bytes(File, growth)'
      /\ used' \in Nat /\ used' <= used
  <2>1. Bytes(File, growth)' = Bytes(File, growth)
    BY <1>1 DEF Bytes, Cells
  <2>2. used = Bytes(File, size) + Bytes(File, growth)
    BY DEF Accounting
  <2>3. used' = used - work[w].used
    BY <1>1
  <2> HIDE DEF H
  <2> QED
    BY <1>4, <2>1, <2>2, <2>3, Totals
<1>7. TypeOK'
  BY <1>1, <1>3, <1>6 DEF TypeOK
<1>8. FilesPlaced'
  <2>1. \A f \in H : ~retired[f] /\ pins[f] = 0 /\ \A k \in Key : index[k] # f
    BY <1>2 DEF Placement, FilesPlaced, TypeOK
  <2>2. \A f \in File \ H : size'[f] = size[f] /\ owner'[f] = owner[f]
    BY <1>1
  <2>3. \A f \in H : size'[f] = 0
    BY <1>1, <1>2
  <2>4. ASSUME NEW k \in Key, index'[k] # NoFile
        PROVE  /\ size'[index'[k]] > 0 /\ owner'[index'[k]] = NoWork
               /\ ~retired'[index'[k]]
    <3>1. index[k] \in File \ H
      BY <1>1, <2>1, <2>4 DEF TypeOK
    <3> QED
      BY <1>1, <2>2, <2>4, <3>1 DEF Placement, FilesPlaced
  <2>5. ASSUME NEW f \in File
        PROVE  /\ retired'[f] => size'[f] > 0 /\ owner'[f] = NoWork /\ pins'[f] > 0
               /\ pins'[f] > 0 => retired'[f] \/ \E k \in Key : index'[k] = f
               /\ Unused(f)' => size'[f] = 0
    <3>1. CASE f \in H
      BY <1>1, <2>1, <2>3, <3>1
    <3>2. CASE f \notin H
      BY <1>1, <2>2, <3>2 DEF Placement, FilesPlaced, Unused
    <3> QED
      BY <3>1, <3>2
  <2>6. \A j, k \in Key : index'[j] = index'[k] /\ index'[j] # NoFile => j = k
    BY <1>1 DEF Placement, FilesPlaced
  <2> QED
    BY <2>4, <2>5, <2>6 DEF FilesPlaced
<1>9. WorkPlaced'
  <2>1. ASSUME NEW f \in File
        PROVE  /\ owner'[f] = NoWork => growth'[f] = 0
               /\ owner'[f] # NoWork => work'[owner'[f]].state # "none"
    <3>1. CASE f \in H
      BY <1>1, <3>1 DEF TypeOK
    <3>2. CASE f \notin H
      <4>1. owner'[f] = owner[f] /\ owner[f] # w
        BY <1>1, <3>2 DEF Held
      <4> QED
        BY <1>1, <4>1 DEF Placement, WorkPlaced, TypeOK
    <3> QED
      BY <3>1, <3>2
  <2>2. ASSUME NEW v \in Work
        PROVE  /\ work'[v].state # "none" => work'[v].key \in Key
               /\ work'[v].goal # NoGoal => work'[v].goal.total \in Total
    BY <1>1, Records DEF Placement, WorkPlaced, TypeOK
  <2> QED
    BY <2>1, <2>2 DEF WorkPlaced
<1>10. Accounting'
  <2>1. \A g \in File : pins'[g] = Cardinality({b \in Body : body'[b].file = g})
    BY <1>1 DEF Accounting
  <2> QED
    BY <1>5, <1>6, <2>1 DEF Accounting
<1> QED
  BY <1>1, <1>6, <1>7, <1>8, <1>9, <1>10, SizeAssumption DEF Placement, TypeOK

\* The rename: the bytes go from the workspace to the index, and those of the
\* file it replaces leave now or with its last reader.
LEMMA PublishKeeps ==
  ASSUME IInv, NEW w \in Work, NEW f \in File, Publish(w, f)
  PROVE  IInv'
<1> USE FileAssumption, WorkAssumption DEF IInv
<1> DEFINE k    == work[w].key
           old  == {g \in {index[k]} : g # NoFile}
           free == {g \in old : pins[g] = 0}
           new  == [fresh |-> work[w].goal.fresh, retain |-> work[w].goal.retain,
                    created |-> clock, mtime |-> info[f].mtime, damaged |-> FALSE]
<1>1. /\ owner[f] = w /\ work[w].state = "open" /\ ~Busy(w)
      /\ work[w].goal # NoGoal /\ size[f] = work[w].goal.total
      /\ used' = used - Freed(old)
      /\ size' = [g \in File |-> IF g \in free THEN 0 ELSE size[g]]
      /\ retired' = [g \in File |-> retired[g] \/ g \in old \ free]
      /\ info' = [g \in File |-> CASE g = f -> new
                                   [] g \in free -> NoInfo
                                   [] OTHER -> info[g]]
      /\ index' = [index EXCEPT ![k] = f]
      /\ owner' = [owner EXCEPT ![f] = NoWork]
      /\ work' = [work EXCEPT ![w].used = @ - size[f], ![w].state = "closing"]
      /\ UNCHANGED <<clock, maxBytes, growth, pins, body>>
  BY DEF Publish
<1>2. /\ k \in Key /\ size[f] > 0 /\ growth[f] = 0
      /\ \A j \in Key : index[j] # f
      /\ ~retired[f] /\ pins[f] = 0 /\ f \notin old
  <2>1. k \in Key /\ size[f] > 0
    BY <1>1, SizeAssumption DEF Placement, WorkPlaced
  <2>2. growth[f] = 0
    BY <1>1 DEF Busy, Held, TypeOK
  <2>3. \A j \in Key : index[j] # f
    BY <1>1 DEF Placement, FilesPlaced, TypeOK
  <2>4. ~retired[f]
    BY <1>1 DEF Placement, FilesPlaced
  <2>5. pins[f] = 0
    BY <2>3, <2>4 DEF Placement, FilesPlaced, TypeOK
  <2> QED
    BY <2>1, <2>2, <2>3, <2>4, <2>5
<1>3. /\ old \in SUBSET File /\ free \in SUBSET File
      /\ \A g \in old : g = index[k] /\ owner[g] = NoWork /\ ~retired[g] /\ size[g] > 0
  BY <1>2 DEF Placement, FilesPlaced, TypeOK
<1>4. /\ size' \in [File -> Nat] /\ retired' \in [File -> BOOLEAN]
      /\ index' \in [Key -> File \cup {NoFile}]
      /\ owner' \in [File -> Work \cup {NoWork}]
  BY <1>1, <1>2 DEF TypeOK
<1>5. info' \in [File -> Infos]
  <2>1. new \in Infos
    BY DEF TypeOK, Workspaces, Goals, Infos
  <2> HIDE DEF new, free
  <2> QED
    BY <1>1, <2>1, Records DEF TypeOK
<1>6. /\ Bytes(File, size)' = Bytes(File, size) - Freed(old)
      /\ Bytes(File, size)' \in Nat /\ Freed(old) \in Nat
  <2>1. \A g \in File \ free : size'[g] = size[g]
    BY <1>1
  <2>2. \A g \in free : size'[g] = 0
    BY <1>1, <1>3
  <2>3. \A g \in File : size[g] \in Nat /\ size'[g] \in Nat
    BY <1>4 DEF TypeOK
  <2>4. Freed(old) = Bytes(free, size)
    BY DEF Freed
  <2> HIDE DEF free, old
  <2>5. Bytes(File, size') = Bytes(File, size) - Bytes(free, size)
    BY <1>3, <2>1, <2>2, <2>3, BytesDrop
  <2>6. Bytes(File, size') \in Nat
    BY <2>3, CellsFinite
  <2>7. Bytes(free, size) \in Nat
    BY <1>3, Totals
  <2>8. Bytes(File, size)' = Bytes(File, size')
    BY DEF Bytes, Cells
  <2> QED
    BY <2>4, <2>5, <2>6, <2>7, <2>8
<1>7. \A g \in File \ free : size'[g] = size[g]
  BY <1>1
<1>8. ASSUME NEW v \in Work PROVE work'[v].used = Bytes(Held(v), size)'
  <2>1. \A g \in Held(v) : g \notin free
    BY <1>3 DEF Held
  <2>2. CASE v = w
    <3> DEFINE H == Held(w)
    <3>1. H \in SUBSET File /\ IsFiniteSet(H) /\ {f} \in SUBSET H
      BY <1>1, Totals DEF Held
    <3>2. Held(w)' = H \ {f}
      BY <1>1 DEF Held, TypeOK
    <3>3. \A g \in H : size[g] \in Nat
      BY <3>1 DEF TypeOK
    <3>4. \A g \in H \ {f} : size'[g] = size[g]
      BY <1>7, <2>1, <2>2, <3>1
    <3>5. work[w].used = Bytes(H, size)
      BY DEF Accounting
    <3>6. work'[w].used = work[w].used - size[f]
      BY <1>1 DEF TypeOK, Workspaces
    <3> HIDE DEF H
    <3>7. /\ Bytes(H, size) = Bytes(H \ {f}, size) + Bytes({f}, size)
          /\ Bytes(H \ {f}, size) \in Nat
      BY <3>1, <3>3, BytesPart, ZenonT(40)
    <3>8. Bytes({f}, size) = size[f] /\ size[f] \in Nat
      BY BytesOne DEF TypeOK
    <3>9. Bytes(H \ {f}, size') = Bytes(H \ {f}, size)
      BY <3>4, BytesAgree
    <3>10. Bytes(Held(w), size)' = Bytes(H \ {f}, size')
      BY <3>2 DEF Bytes, Cells
    <3> QED
      BY <2>2, <3>5, <3>6, <3>7, <3>8, <3>9, <3>10
  <2>3. CASE v # w
    <3>1. Held(v)' = Held(v)
      BY <1>1, <2>3 DEF Held, TypeOK
    <3>2. \A g \in Held(v) : size'[g] = size[g]
      BY <1>7, <2>1 DEF Held
    <3>3. work'[v] = work[v]
      BY <1>1, <2>3 DEF TypeOK
    <3>4. Bytes(Held(v), size)' = Bytes(Held(v), size)
      BY <3>1, <3>2, ShareStable
    <3> QED
      BY <3>3, <3>4 DEF Accounting
  <2> QED
    BY <2>2, <2>3
<1>9. work' \in [Work -> Workspaces]
  <2>1. work'[w].used \in Nat
    <3>1. \A g \in Held(w)' : g \in File /\ size'[g] \in Nat
      BY <1>4 DEF Held
    <3>2. IsFiniteSet(Held(w)')
      BY FS_Subset DEF Held
    <3>3. Bytes(Held(w)', size') \in Nat
      BY <3>1, <3>2, CellsFinite
    <3>4. Bytes(Held(w), size)' = Bytes(Held(w)', size')
      BY DEF Bytes, Cells
    <3> QED
      BY <1>8, <3>3, <3>4
  <2> QED
    BY <1>1, <2>1 DEF TypeOK, Workspaces
<1>10. /\ used' = Bytes(File, size)' + Bytes(File, growth)'
       /\ used' \in Nat /\ used' <= used
  <2>1. Bytes(File, growth)' = Bytes(File, growth)
    BY <1>1 DEF Bytes, Cells
  <2>2. used = Bytes(File, size) + Bytes(File, growth)
    BY DEF Accounting
  <2>3. used' = used - Freed(old)
    BY <1>1
  <2> HIDE DEF old
  <2> QED
    BY <1>6, <2>1, <2>2, <2>3, Totals
<1>11. TypeOK'
  BY <1>1, <1>4, <1>5, <1>9, <1>10 DEF TypeOK
<1>12. FilesPlaced'
  <2>1. \A j \in Key : index'[j] = IF j = k THEN f ELSE index[j]
    BY <1>1 DEF TypeOK
  <2>2. /\ owner'[f] = NoWork /\ \A g \in File \ {f} : owner'[g] = owner[g]
        /\ \A g \in File : retired'[g] = (retired[g] \/ g \in old \ free)
        /\ \A g \in free : size'[g] = 0
    BY <1>1, <1>3 DEF TypeOK
  <2>3. size'[f] > 0 /\ ~retired'[f]
    BY <1>2, <1>7, <2>2
  <2>4. ASSUME NEW j \in Key, index'[j] # NoFile
        PROVE  /\ size'[index'[j]] > 0 /\ owner'[index'[j]] = NoWork
               /\ ~retired'[index'[j]]
    <3>1. CASE j = k
      BY <2>1, <2>2, <2>3, <3>1
    <3>2. CASE j # k
      <4>1. /\ index'[j] = index[j] /\ index[j] \in File /\ index[j] # f
            /\ index[j] \notin old
        BY <1>2, <2>1, <2>4, <3>2 DEF Placement, FilesPlaced, TypeOK
      <4>2. size[index[j]] > 0 /\ owner[index[j]] = NoWork /\ ~retired[index[j]]
        BY <2>4, <4>1 DEF Placement, FilesPlaced
      <4> QED
        <5>1. /\ size'[index[j]] = size[index[j]]
              /\ owner'[index[j]] = NoWork /\ ~retired'[index[j]]
          BY <1>7, <2>2, <4>1, <4>2
        <5> QED
          BY <4>1, <4>2, <5>1
    <3> QED
      BY <3>1, <3>2
  <2>5. ASSUME NEW i \in Key, NEW j \in Key, index'[i] = index'[j],
               index'[i] # NoFile
        PROVE  i = j
    BY <1>2, <2>1, <2>5 DEF Placement, FilesPlaced
  <2>6. ASSUME NEW g \in File, retired'[g]
        PROVE  size'[g] > 0 /\ owner'[g] = NoWork /\ pins'[g] > 0
    <3>1. g # f
      BY <2>3, <2>6
    <3>2. CASE g \in old \ free
      BY <1>1, <1>3, <1>7, <2>2, <3>1, <3>2 DEF TypeOK
    <3>3. CASE retired[g]
      <4>1. g \notin old
        BY <1>3, <3>3
      <4> QED
        BY <1>1, <1>7, <2>2, <3>1, <3>3, <4>1 DEF Placement, FilesPlaced
    <3> QED
      BY <2>2, <2>6, <3>2, <3>3
  <2>7. ASSUME NEW g \in File, pins'[g] > 0
        PROVE  retired'[g] \/ \E j \in Key : index'[j] = g
    <3>1. pins[g] > 0 /\ g # f
      BY <1>1, <1>2, <2>7
    <3>2. CASE g \in old
      <4>1. g \in old \ free
        BY <3>1, <3>2
      <4>2. retired'[g] = (retired[g] \/ g \in old \ free)
        BY <2>2
      <4> QED
        BY <4>1, <4>2
    <3>3. CASE g \notin old
      <4>1. retired[g] \/ \E j \in Key : index[j] = g
        BY <3>1 DEF Placement, FilesPlaced
      <4>2. ASSUME NEW j \in Key, index[j] = g PROVE index'[j] = g
        BY <2>1, <3>3, <4>2
      <4> QED
        BY <2>2, <4>1, <4>2
    <3> QED
      BY <3>2, <3>3
  <2>8. ASSUME NEW g \in File, Unused(g)' PROVE size'[g] = 0
    <3>1. g # f
      BY <1>2, <2>1, <2>8 DEF Unused
    <3>2. CASE g \in free
      BY <2>2, <3>2
    <3>3. CASE g \notin free
      <4>1. ~retired[g] /\ g \notin old
        BY <2>2, <2>8, <3>3 DEF Unused
      <4>2. Unused(g)
        BY <2>1, <2>2, <2>8, <3>1, <4>1 DEF Unused
      <4> QED
        BY <1>7, <3>3, <4>2 DEF Placement, FilesPlaced
    <3> QED
      BY <3>2, <3>3
  <2> HIDE DEF old, free, k
  <2> QED
    BY <2>4, <2>5, <2>6, <2>7, <2>8 DEF FilesPlaced
<1>13. WorkPlaced'
  <2>1. ASSUME NEW g \in File
        PROVE  /\ owner'[g] = NoWork => growth'[g] = 0
               /\ owner'[g] # NoWork => work'[owner'[g]].state # "none"
    BY <1>1, <1>2 DEF Placement, WorkPlaced, TypeOK, Workspaces
  <2>2. ASSUME NEW v \in Work
        PROVE  /\ work'[v].state # "none" => work'[v].key \in Key
               /\ work'[v].goal # NoGoal => work'[v].goal.total \in Total
    BY <1>1, <1>2, SMTT(40) DEF Placement, WorkPlaced, TypeOK, Workspaces
  <2> QED
    BY <2>1, <2>2 DEF WorkPlaced
<1>14. Accounting'
  <2>1. \A g \in File : pins'[g] = Cardinality({b \in Body : body'[b].file = g})
    BY <1>1 DEF Accounting
  <2> QED
    BY <1>8, <1>10, <2>1 DEF Accounting
<1>15. used' <= maxBytes'
  <2>1. used \in Nat /\ maxBytes \in Nat /\ maxBytes' = maxBytes
    BY <1>1, SizeAssumption DEF TypeOK
  <2> QED
    BY <1>10, <2>1
<1> QED
  BY <1>11, <1>12, <1>13, <1>14, <1>15 DEF Placement

\* A start finds the published files, drops what is of no use, and trims the
\* rest to the budget it is given.
LEMMA RestartKeeps ==
  ASSUME IInv, NEW max \in Capacity, Restart(max)
  PROVE  IInv'
<1> USE FileAssumption, BodyAssumption, WorkAssumption DEF IInv
<1>1. PICK S \in SUBSET {index[k] : k \in {j \in Key : index[j] # NoFile}} :
        /\ Bytes(S, size) <= max
        /\ maxBytes' = max
        /\ used' = Bytes(S, size)
        /\ index' = [k \in Key |-> IF index[k] \in S THEN index[k] ELSE NoFile]
        /\ size' = [f \in File |-> IF f \in S THEN size[f] ELSE 0]
        /\ info' = [f \in File |-> IF f \in S
                      THEN [info[f] EXCEPT !.created = info[f].mtime] ELSE NoInfo]
        /\ growth' = [f \in File |-> 0]
        /\ owner' = [f \in File |-> NoWork]
        /\ pins' = [f \in File |-> 0]
        /\ retired' = [f \in File |-> FALSE]
        /\ body' = [b \in Body |-> NoBody]
        /\ work' = [w \in Work |-> NoWorkspace]
        /\ clock' = clock
  BY DEF Restart, Kept
<1>2. S \in SUBSET File /\ \A f \in S : f # NoFile /\ \E k \in Key : index[k] = f
  BY DEF TypeOK
<1>3. \A f \in S : size[f] > 0
  BY <1>2 DEF Placement, FilesPlaced
<1>4. size' \in [File -> Nat]
  BY <1>1 DEF TypeOK
<1>5. Bytes(File, size)' = Bytes(S, size) /\ Bytes(S, size) \in Nat
  <2>1. \A f \in File : size'[f] \in Nat
    BY <1>4
  <2>2. Bytes(File, size') = Bytes(File \ S, size') + Bytes(S, size')
    BY <1>2, <2>1, BytesPart
  <2>3. Bytes(S, size') = Bytes(S, size)
    <3>1. \A f \in S : size'[f] = size[f]
      BY <1>1, <1>2
    <3> QED
      BY <3>1, BytesAgree
  <2>4. Bytes(File \ S, size') = 0
    <3>1. \A f \in File \ S : size'[f] = 0
      BY <1>1
    <3> QED
      BY <3>1, BytesZero
  <2>5. Bytes(S, size) \in Nat
    BY <1>2, Totals
  <2>6. Bytes(File, size)' = Bytes(File, size')
    BY DEF Bytes, Cells
  <2> QED
    BY <2>2, <2>3, <2>4, <2>5, <2>6
<1>6. Bytes(File, growth)' = 0
  <2>1. Bytes(File, growth') = 0
    BY <1>1, BytesZero
  <2> QED
    BY <2>1 DEF Bytes, Cells
<1>7. TypeOK'
  <2>1. info' \in [File -> Infos]
    BY <1>1, Records DEF TypeOK, Infos
  <2> QED
    BY <1>1, <1>4, <1>5, <2>1, Records DEF TypeOK
<1>8. FilesPlaced'
  <2>1. ASSUME NEW k \in Key, index'[k] # NoFile
        PROVE  /\ index'[k] \in S /\ size'[index'[k]] > 0
               /\ owner'[index'[k]] = NoWork /\ ~retired'[index'[k]]
    BY <1>1, <1>2, <1>3, <2>1
  <2>2. \A j, k \in Key : index'[j] = index'[k] /\ index'[j] # NoFile => j = k
    BY <1>1 DEF Placement, FilesPlaced
  <2>3. ASSUME NEW f \in File PROVE ~retired'[f] /\ ~(pins'[f] > 0)
    BY <1>1
  <2>4. ASSUME NEW f \in File, Unused(f)' PROVE size'[f] = 0
    <3>1. f \notin S
      BY <1>1, <1>2, <2>4 DEF Unused
    <3> QED
      BY <1>1, <3>1
  <2> QED
    BY <2>1, <2>2, <2>3, <2>4 DEF FilesPlaced
<1>9. WorkPlaced'
  BY <1>1, Records DEF WorkPlaced
<1>10. Accounting'
  <2>1. ASSUME NEW w \in Work PROVE work'[w].used = Bytes(Held(w), size)'
    <3>1. Held(w)' = {}
      BY <1>1 DEF Held
    <3>2. Bytes({}, size') = 0
      BY BytesZero
    <3>3. work'[w].used = 0
      BY <1>1, Records
    <3> QED
      BY <3>1, <3>2, <3>3 DEF Bytes, Cells
  <2>2. ASSUME NEW f \in File
        PROVE  pins'[f] = Cardinality({b \in Body : body'[b].file = f})
    <3>1. {b \in Body : body'[b].file = f} = {}
      BY <1>1, Records
    <3> QED
      BY <1>1, <3>1, FS_EmptySet
  <2>3. used' = Bytes(File, size)' + Bytes(File, growth)'
    BY <1>1, <1>5, <1>6
  <2> QED
    BY <2>1, <2>2, <2>3 DEF Accounting
<1> QED
  BY <1>1, <1>7, <1>8, <1>9, <1>10 DEF Placement

\* Every step, and every stutter, keeps the invariant.
LEMMA NextInvariant ==
  ASSUME IInv, [Next]_vars
  PROVE  IInv'
<1>1. CASE Tick
  BY <1>1, TickKeeps
<1>2. CASE Cleanup
  BY <1>2, CleanupKeeps
<1>3. CASE \E max \in Capacity : Restart(max)
  BY <1>3, RestartKeeps
<1>4. CASE \E k \in Key : GetRemoves(k) \/ Damage(k)
  BY <1>4, GetRemovesKeeps, DamageKeeps
<1>5. CASE \E k \in Key, b \in Body, r \in BOOLEAN : GetHit(k, b, r)
  BY <1>5, GetHitKeeps
<1>6. CASE \E b \in Body, n \in 1 .. MaxHolders : Retain(b, n)
  BY <1>6, RetainKeeps
<1>7. CASE \E b \in Body : Close(b) \/ Unpin(b)
  BY <1>7, CloseKeeps, UnpinKeeps
<1>8. CASE \E w \in Work, k \in Key : OpenWorkspace(w, k)
  BY <1>8, OpenWorkspaceKeeps
<1>9. CASE \E w \in Work, k \in Key, f \in File, t \in Total, l \in Lifetime :
             SetLifetime(w, k, f, t, l)
  BY <1>9, SetLifetimeKeeps
<1>10. CASE \E w \in Work : CloseWorkspace(w) \/ CloseFails(w)
  BY <1>10, CloseWorkspaceKeeps, CloseFailsKeeps
<1>11. CASE \E w \in Work, f \in File : Create(w, f) \/ Reset(w, f) \/ Publish(w, f)
  BY <1>11, CreateKeeps, ResetKeeps, PublishKeeps
<1>12. CASE \E w \in Work, f \in File, n \in Chunk :
              \/ WriteReserve(w, f, n)
              \/ \E err \in {"capacity", "remove"} : WriteRefused(w, f, n, err)
  BY <1>12, WriteReserveKeeps, WriteRefusedKeeps
<1>13. CASE \E w \in Work, f \in File : \E n \in 0 .. growth[f] : WriteSettle(w, f, n)
  BY <1>13, WriteSettleKeeps
<1>14. CASE UNCHANGED vars
  BY <1>14 DEF vars, IInv, TypeOK, Placement, FilesPlaced, WorkPlaced, Unused,
               Accounting, Bytes, Cells, Held
<1> QED
  BY <1>1, <1>2, <1>3, <1>4, <1>5, <1>6, <1>7, <1>8, <1>9, <1>10, <1>11, <1>12,
     <1>13, <1>14 DEF Next

\* The invariant is inductive, so it holds in every reachable state.
LEMMA Invariance == Spec => []IInv
<1>1. Init => IInv
  BY InitInvariant
<1>2. IInv /\ [Next]_vars => IInv'
  BY NextInvariant
<1> QED
  BY <1>1, <1>2, PTL DEF Spec

-----------------------------------------------------------------------------
(* The theorems.                                                            *)

\* The variables have their types: in particular Cache.used, Workspace.used
\* and record.pins never go below zero, in any interleaving.
THEOREM TypeCorrect == Spec => []TypeOK
<1>1. IInv => TypeOK
  BY DEF IInv
<1> QED
  BY <1>1, Invariance, PTL

\* Every file is in one place: no key loses its file to another, and a file
\* that no key, reader or workspace has is gone from the disk.
THEOREM PlacementKept == Spec => []Placement
<1>1. IInv => Placement
  BY DEF IInv
<1> QED
  BY <1>1, Invariance, PTL

\* The counters of Cache, Workspace and record are exact at every instant.
THEOREM AccountingExact == Spec => []Accounting
<1>1. IInv => Accounting
  BY DEF IInv
<1> QED
  BY <1>1, Invariance, PTL

\* The budget of the comment on Cache, for every budget and file size: what
\* the cache has on disk, temporary and still-read files included, never
\* exceeds maxBytes.
THEOREM BudgetKept == Spec => []WithinBudget
<1>1. IInv => WithinBudget
  <2> SUFFICES ASSUME IInv PROVE Bytes(File, size) <= maxBytes
    BY DEF WithinBudget
  <2>1. used = Bytes(File, size) + Bytes(File, growth) /\ used <= maxBytes
    BY DEF IInv, Accounting
  <2>2. Bytes(File, size) \in Nat /\ Bytes(File, growth) \in Nat /\ maxBytes \in Nat
    BY Totals, SizeAssumption DEF IInv, TypeOK
  <2> QED
    BY <2>1, <2>2
<1> QED
  BY <1>1, Invariance, PTL

\* A response that holds a body reads a whole file that stays charged, however
\* its entry is replaced, evicted or cleaned up meanwhile.
THEOREM ReadersSafe == Spec => []ReadersCharged
<1>1. IInv => ReadersCharged
  <2> SUFFICES ASSUME IInv, NEW b \in Body, body[b].file # NoFile
               PROVE  LET f == body[b].file IN
                        /\ size[f] > 0 /\ growth[f] = 0 /\ owner[f] = NoWork
                        /\ retired[f] \/ \E k \in Key : index[k] = f
    BY DEF ReadersCharged
  <2> DEFINE f == body[b].file
             Open == {c \in Body : body[c].file = f}
  <2>1. f \in File
    BY DEF IInv, TypeOK, Bodies
  <2>2. pins[f] > 0
    <3>1. IsFiniteSet(Open) /\ b \in Open
      BY FS_Subset, BodyAssumption
    <3>2. Cardinality(Open) \in Nat /\ Cardinality(Open) # 0
      BY <3>1, FS_CardinalityType, FS_EmptySet
    <3>3. pins[f] = Cardinality(Open)
      BY <2>1 DEF IInv, Accounting
    <3> QED
      BY <3>2, <3>3
  <2>3. retired[f] \/ \E k \in Key : index[k] = f
    BY <2>1, <2>2 DEF IInv, Placement, FilesPlaced
  <2>4. CASE retired[f]
    BY <2>1, <2>3, <2>4 DEF IInv, Placement, FilesPlaced, WorkPlaced
  <2>5. CASE \E k \in Key : index[k] = f
    BY <2>1, <2>3, <2>5 DEF IInv, Placement, FilesPlaced, WorkPlaced
  <2> QED
    BY <2>3, <2>4, <2>5
<1> QED
  BY <1>1, Invariance, PTL

\* What an eviction removes, nobody reads: the entry of a key that a body reads
\* only leaves the index for a newer one, past its retention or unreadable.
THEOREM PinnedEntriesKept == Spec => PinnedKept
<1> DEFINE StaysOrGoes(k) == LET f == index[k] IN
                               /\ f # NoFile /\ index'[k] = NoFile
                               /\ pins[f] > 0 /\ pins'[f] > 0
                               => Expired(f) \/ info[f].damaged
<1>1. ASSUME IInv, [Next]_vars, NEW k \in Key PROVE StaysOrGoes(k)
  <2> SUFFICES ASSUME index[k] # NoFile, index'[k] = NoFile,
                      pins[index[k]] > 0, pins'[index[k]] > 0
               PROVE  Expired(index[k]) \/ info[index[k]].damaged
    OBVIOUS
  <2> USE <1>1, FileAssumption DEF IInv
  <2>1. index[k] \in File
    BY DEF TypeOK
  <2>2. ASSUME NEW S, index' = Unindexed(S), \A f \in S : pins[f] = 0 PROVE FALSE
    BY <2>1, <2>2 DEF Unindexed
  <2>3. CASE Cleanup
    BY <2>2, <2>3, EvictionFacts DEF Cleanup
  <2>4. CASE \E max \in Capacity : Restart(max)
    <3>1. pins' = [f \in File |-> 0]
      BY <2>4 DEF Restart
    <3> QED
      BY <2>1, <3>1
  <2>5. CASE \E j \in Key : GetRemoves(j)
    <3>1. PICK j \in Key : GetRemoves(j)
      BY <2>5
    <3>2. index[k] = index[j]
      BY <3>1 DEF GetRemoves, Unindexed
    <3> QED
      BY <3>1, <3>2 DEF GetRemoves
  <2>6. CASE \E w \in Work, f \in File : Publish(w, f)
    <3>1. PICK w \in Work, f \in File : Publish(w, f)
      BY <2>6
    <3>2. index' = [index EXCEPT ![work[w].key] = f] /\ f # NoFile
      BY <3>1 DEF Publish
    <3> QED
      BY <3>2 DEF TypeOK
  <2>7. CASE \E w \in Work, f \in File, n \in Chunk : WriteReserve(w, f, n)
    <3>1. PICK w \in Work, f \in File, n \in Chunk : WriteReserve(w, f, n)
      BY <2>7
    <3>2. PICK e \in IF n > maxBytes - used
                     THEN Evictions(n, work[w].key)
                     ELSE {[gone |-> {}, err |-> "nil"]} :
            index' = Unindexed(e.gone)
      BY <3>1 DEF WriteReserve
    <3>3. \A f1 \in e.gone : pins[f1] = 0
      BY <3>2, EvictionFacts
    <3> QED
      BY <2>2, <3>2, <3>3
  <2>8. CASE \E w \in Work, f \in File, n \in Chunk, err \in {"capacity", "remove"} :
                WriteRefused(w, f, n, err)
    <3>1. PICK w \in Work, f \in File, n \in Chunk, err \in {"capacity", "remove"} :
            WriteRefused(w, f, n, err)
      BY <2>8
    <3>2. PICK e \in Evictions(n, work[w].key) : index' = Unindexed(e.gone)
      BY <3>1 DEF WriteRefused
    <3> QED
      BY <2>2, <3>2, EvictionFacts
  <2>9. CASE UNCHANGED index
    BY <2>9
  <2>10. \/ Cleanup \/ UNCHANGED index
         \/ \E max \in Capacity : Restart(max)
         \/ \E j \in Key : GetRemoves(j)
         \/ \E w \in Work, f \in File : Publish(w, f)
         \/ \E w \in Work, f \in File, n \in Chunk : WriteReserve(w, f, n)
         \/ \E w \in Work, f \in File, n \in Chunk, err \in {"capacity", "remove"} :
               WriteRefused(w, f, n, err)
    <3>1. CASE UNCHANGED vars
      BY <3>1 DEF vars
    <3>2. CASE Next
      <4>1. Tick => UNCHANGED index
        BY DEF Tick
      <4>2. \A j \in Key : Damage(j) => UNCHANGED index
        BY DEF Damage
      <4>3. \A j \in Key, b \in Body, r \in BOOLEAN : GetHit(j, b, r) => UNCHANGED index
        BY DEF GetHit
      <4>4. \A b \in Body, n \in 1 .. MaxHolders : Retain(b, n) => UNCHANGED index
        BY DEF Retain
      <4>5. \A b \in Body : Close(b) \/ Unpin(b) => UNCHANGED index
        BY DEF Close, Unpin
      <4>6. \A w \in Work, j \in Key : OpenWorkspace(w, j) => UNCHANGED index
        BY DEF OpenWorkspace
      <4>7. \A w \in Work, j \in Key, f \in File, t \in Total, l \in Lifetime :
              SetLifetime(w, j, f, t, l) => UNCHANGED index
        BY DEF SetLifetime
      <4>8. \A w \in Work : CloseWorkspace(w) \/ CloseFails(w) => UNCHANGED index
        BY DEF CloseWorkspace, CloseFails
      <4>9. \A w \in Work, f \in File : Create(w, f) \/ Reset(w, f) => UNCHANGED index
        BY DEF Create, Reset
      <4>10. \A w \in Work, f \in File : \A n \in 0 .. growth[f] :
               WriteSettle(w, f, n) => UNCHANGED index
        BY DEF WriteSettle
      <4> HIDE DEF IInv
      <4> QED
        BY <3>2, <4>1, <4>2, <4>3, <4>4, <4>5, <4>6, <4>7, <4>8, <4>9, <4>10, Zenon
           DEF Next
    <3> QED
      BY <3>1, <3>2
  <2> QED
    BY <2>3, <2>4, <2>5, <2>6, <2>7, <2>8, <2>9, <2>10
<1>2. IInv /\ [Next]_vars => [\A k \in Key : StaysOrGoes(k)]_vars
  BY <1>1
<1> QED
  BY <1>2, Invariance, PTL DEF Spec, PinnedKept

=============================================================================
