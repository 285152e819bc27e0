\* Two goroutines, two remotes of one AS, and a daemon whose paths change once.
SPECIFICATION CacheFairSpec
CONSTANTS
    Interfaces = {a, b, d}
    a = a
    b = b
    d = d
    NameLen <- Lengths
    NameRank <- Ranks
    Callers = {c1, c2}
    Remotes = {r1, r2}
    IA <- OneAS
    Offers <- Offered
    Stubbed = FALSE
    None = None
    MaxChanges = 1
INVARIANTS
    CacheTypeOK
    OneConnection
    NotOlderThanOverlap
PROPERTIES
    KeepsOldPaths
    NoReshuffle
    GetReturns
CHECK_DEADLOCK FALSE
