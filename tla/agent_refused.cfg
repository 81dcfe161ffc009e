SPECIFICATION Spec
CONSTANTS
    n1 = n1
    n2 = n2
    s1 = s1
    s2 = s2
    s3 = s3
    s4 = s4
    None = None
    Nodes = {n1, n2}
    Packets <- TwoAgents
    Listeners = {n2}
    MaxFailures = 1
    DrainLimit = 1
    RelayWindow = 2
    QueueCap = 1
    RelayCap = 1
    DiskFaults = FALSE
SYMMETRY TwoAgentsSymmetry

INVARIANT DrainedMeansDelivered
