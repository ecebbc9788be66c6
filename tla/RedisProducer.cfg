CONSTANTS
    MaxEvents = 4
    Unroutable = {2}
    QueueCap = 2
    PipelineMax = 2
    MaxConns = 3
SPECIFICATION FairSpec
INVARIANTS
    AccountedUnlessLate
    NoSilentLossUnlessLate
    AckedWereAdded
    AtMostTwice
PROPERTIES
    LostWereTried
    StopReturns
CHECK_DEADLOCK FALSE
