SPECIFICATION FairSpec
CONSTANTS
    Policies = {p1}
    Peers = {q1}
    Clusters = {c1}
    Prefs = {f1}
    NoPref = NoPref
    Absent = Absent
    Names <- DistinctNames
    PathName <- DistinctPathName
    MaxMoves = 4
    Pods = {d1}
    Selects <- SelectAll
    DefaultPolicy = p1
    ClientWired = TRUE
PROPERTIES
    DeletionCompletes
    Converges
CHECK_DEADLOCK FALSE
