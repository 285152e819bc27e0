\* Two interfaces, two loads: a crash and a second process.
SPECIFICATION LoaderSpec
CONSTANTS
    Ifaces = {i1, i2}
    Ips = {a}
    Ids = {0}
    Hops = {h1, h2}
    h1 = h1
    h2 = h2
    Entries <- OneEntry
    None = None
    MaxPods = 1
    MaxPaths = 1
    MaxLoads = 2
INVARIANTS
    LoaderTypeOK
    EveryLinkHeld
    CloseDetaches
PROPERTY LastKnownGood
