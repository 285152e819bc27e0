SPECIFICATION Spec
CONSTANTS
    Policies = {p1}
    Peers = {q1}
    Clusters = {c1}
    Prefs = {f1}
    NoPref = NoPref
    Absent = Absent
    Names <- DistinctNames
    PathName <- DistinctPathName
    MaxMoves = 3
    Pods = {}
    Selects <- SelectAll
    DefaultPolicy = p1
    ClientWired = TRUE
    MaxPathWrites = 3
INVARIANTS
    OverlapTypeOK
    PublishedUnderFinalizer
    QuietIsSettled
PROPERTIES
    ActiveObservesStore
    LostToLateWritesOnly
CHECK_DEADLOCK FALSE
