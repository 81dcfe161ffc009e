SPECIFICATION Spec
CONSTANTS
    n1 = n1
    h1 = h1
    h2 = h2
    None = None
    Nodes = {n1}
    Packets <- ThreeSamples
    StampsPerSecond = 2
    Handlers = {h1, h2}
    DedupTTL = 4
    NodeTTL = 2
    WindowSize = 2
    MaxStall = 2
    Faults = FALSE
SYMMETRY HandlerSymmetry
INVARIANTS TypeOK LiveStateIsDeduplicated StateHasWindow AckedSecondIsRecorded
