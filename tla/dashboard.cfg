SPECIFICATION FairSpec
CONSTANTS
    w1 = w1
    w2 = w2
    w3 = w3
    None = None
    Sockets = {w1, w2, w3}

INVARIANTS TypeOK OneLifeline ConnectedIsOpen
PROPERTIES Reconnects SettledTopologyShown
