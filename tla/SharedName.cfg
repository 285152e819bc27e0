SPECIFICATION Spec
CONSTANTS
    Policies = {p1, p2}
    Peers = {q1}
    Clusters = {c1}
    Prefs = {f1}
    NoPref = NoPref
    Absent = Absent
    Names <- OneName
    PathName <- OnePathName
    MaxMoves = 4
    Pods = {d1}
    Selects <- SelectAll
    DefaultPolicy = p1
    ClientWired = TRUE
INVARIANTS
    ActivePathsOwned
PROPERTIES
    NeverChangesHands
CHECK_DEADLOCK FALSE
