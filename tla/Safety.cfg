SPECIFICATION Spec
CONSTANTS
    Policies = {p1}
    Peers = {q1, q2}
    Clusters = {c1}
    Prefs = {f1}
    NoPref = NoPref
    Absent = Absent
    Names <- DistinctNames
    PathName <- DistinctPathName
    MaxMoves = 4
    Pods = {}
    Selects <- SelectAll
    DefaultPolicy = p1
    ClientWired = TRUE
INVARIANTS
    TypeOK
    ReconcilesLivePolicy
    ActivePathsOwned
    PublishedUnderFinalizer
    QuietIsSettled
PROPERTIES
    NoOrphanWrites
    ActiveObservesStore
    ImplementsIntent
CHECK_DEADLOCK FALSE
