SPECIFICATION FairSpec
CONSTANTS
    Policies = {p1}
    Peers = {q1}
    Clusters = {c1}
    Prefs = {f1}
    NoPref = NoPref
    Absent = Absent
    Names <- DistinctNames
    PathName <- DistinctPathName
    MaxMoves = 2
    Pods = {}
    Selects <- SelectAll
    DefaultPolicy = p1
    ClientWired = TRUE
PROPERTIES
    BecomesActive
CHECK_DEADLOCK FALSE
