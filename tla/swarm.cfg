SPECIFICATION Spec
CONSTANTS
    n1 = n1
    h1 = h1
    h2 = h2
    None = None
    Nodes = {n1}
    Packets <- TwoSamples
    Listeners = {n1}
    MaxFailures = 1
    DrainLimit = 1
    RelayWindow = 0
    QueueCap = 1
    RelayCap = 0
    DiskFaults = FALSE
    StampsPerSecond = 1
    Handlers = {h1, h2}
    DedupTTL = 1
    NodeTTL = 1
    WindowSize = 1
    MaxStall = 0
    Faults = FALSE

SYMMETRY HandlerSymmetry
INVARIANTS TypeOK
PROPERTIES CustodyImplemented
