SPECIFICATION FairSpec
CONSTANTS
    h1 = h1
    h2 = h2
    c1 = c1
    c2 = c2
    c3 = c3
    n1 = n1
    n2 = n2
    None = None
    Nodes = {n1, n2}
    Handlers = {h1, h2}
    Clients = {c1, c2}
    ScanPages = 2
    MaxWrites = 2
    LongSends = FALSE

INVARIANTS TypeOK LiveClientRegistered
PROPERTIES AnsweredIsPushed RequestsAnswered
