\* The key is stored, and a valid frame comes in.
SPECIFICATION Spec
CONSTANTS
    Ifaces = {i1}
    Ips = {a}
    Ids = {0}
    Hops = {h1, h2}
    h1 = h1
    h2 = h2
    Entries <- TwoEntries
    None = None
    MaxPods = 1
    MaxPaths = 1
    MaxLoads = 1
    Frames = {60}
    WanFrames <- ValidFrame
    MaxWrites = 2
PROPERTY ValidFramesPass
