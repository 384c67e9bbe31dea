\* Two clients and a download; documents of one and two units in a budget of three; two writes.
SPECIFICATION Spec
CONSTANTS
    x = x
    y = y
    Ids = {a, b}
    Clients = {c1, c2}
    Bodies = {x, y}
    Tokens = {t}
    KindOf <- Kinds
    NameOf <- Names
    SizeOf <- Sizes
    Earlier <- First
    Uploads <- Given
    NoDoc = NoDoc
    NoToken = NoToken
    NoView = NoView
    NoDir = NoDir
    NoPut = NoPut
    Root = Root
    Gens = {g1, g2}
    Readers = {r}
    MaxBytes = 3
    MaxResources = 2
    BackupLimit = 6
    BackupCount = 1
    MaxTime = 2
    MaxSnapshots = 3
    MaxChanges = 4
SYMMETRY Symmetry
INVARIANTS TypeOK IndexExact StorageBounded CheckpointTrue
PROPERTIES MapKept Undoable SnapshotsKept
