\* One interface is enough: AttachXDP is called twice.
SPECIFICATION LoaderSpec
CONSTANTS
    Ifaces = {i1}
    Ips = {a}
    Ids = {0}
    Hops = {h1, h2}
    h1 = h1
    h2 = h2
    Entries <- OneEntry
    None = None
    MaxPods = 1
    MaxPaths = 1
    MaxLoads = 1
PROPERTY LinksKeepPrograms
