CONSTANTS
    MaxPackets = 4
    PktCap = 2
    EvtCap = 2
    PipelineMax = 2
    TableCap = 2
SPECIFICATION Spec
INVARIANTS
    LosslessUnlessLate
    JoinedBeforeTeardown
PROPERTY
    ShutdownEnds
CHECK_DEADLOCK FALSE
