SPECIFICATION Spec
CONSTANTS
    n1 = n1
    h1 = h1
    h2 = h2
    None = None
    Nodes = {n1}
    Packets <- TwoSamples
    StampsPerSecond = 1
    Handlers = {h1}
    DedupTTL = 2
    NodeTTL = 1
    WindowSize = 2
    MaxStall = 1
    Faults = TRUE

INVARIANT AckedIsRecorded
