SPECIFICATION Spec
CONSTANTS
    Policies = {p1}
    Peers = {q1}
    Clusters = {c1}
    Prefs = {f1, f2}
    NoPref = NoPref
    Absent = Absent
    Names <- DistinctNames
    PathName <- DistinctPathName
    MaxMoves = 3
    Pods = {}
    Selects <- SelectAll
    DefaultPolicy = p1
    ClientWired = TRUE
INVARIANTS
    ActiveMeansPreferred
CHECK_DEADLOCK FALSE
