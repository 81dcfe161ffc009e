SPECIFICATION Spec
CONSTANTS
    PacketLossThreshold = 1500
    SignalThreshold = 30
    Absent = Absent
    NoState = Absent
    MaxOvertaken = 1
    Samples <- EdgeSamples
INVARIANTS TypeOK RecoveredLinkStays UnhealthyLinkSwitches
PROPERTIES DipTolerated CriticalLossSwitches
