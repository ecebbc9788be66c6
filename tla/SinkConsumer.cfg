CONSTANTS
    Consumers = {c1}
    NStreams = 2
    StreamOf <- TwoStreams
    MaxEntries = 4
    Undecodable = {2}
    Silent = {3}
    Rejected = {4}
    ReadCount = 2
    BatchSize = 2
    Outputs = {"http", "stdout"}
    Runs = {"forever", "once"}
    MaxMishaps = 2
SPECIFICATION FairSpec
INVARIANTS
    TypeOK
    AckedHaveOutcome
    OnlyBadDeadLettered
    SentInParts
PROPERTIES
    StopReturns
CHECK_DEADLOCK FALSE
