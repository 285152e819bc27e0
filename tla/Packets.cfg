\* One interface, one load, one pod and two policy IDs: the pod's policy and
\* both paths change, up to twice while a frame is in flight.
SPECIFICATION Spec
CONSTANTS
    Ifaces = {i1}
    Ips = {a}
    Ids = {0, 1}
    Hops = {h1, h2}
    h1 = h1
    h2 = h2
    Entries <- ThreeEntries
    None = None
    MaxPods = 1
    MaxPaths = 2
    MaxLoads = 1
    Frames = {60}
    WanFrames <- ValidFrame
    MaxWrites = 2
PROPERTY
    ImplementsRouting
INVARIANTS
    DatapathTypeOK
    GrowsAsChecked
    NoGapOnReplacement
    SentOnOwnPath
