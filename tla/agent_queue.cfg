SPECIFICATION FairSpec
CONSTANTS
    n1 = n1
    n2 = n2
    s1 = s1
    s2 = s2
    s3 = s3
    s4 = s4
    None = None
    Nodes = {n1}
    Packets <- OneAgent
    Listeners = {}
    MaxFailures = 3
    DrainLimit = 2
    RelayWindow = 1
    QueueCap = 3
    RelayCap = 1
    DiskFaults = TRUE

INVARIANTS TypeOK PacketsAccounted QueueCoherent
PROPERTIES BacklogFlushed
