CONSTANTS
    MaxEvents = 3
    Unroutable = {2}
    QueueCap = 2
    PipelineMax = 2
    MaxConns = 2
SPECIFICATION ThreadSpec
PROPERTY
    StopReturns
CHECK_DEADLOCK FALSE
