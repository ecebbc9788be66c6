CONSTANTS
    Consumers = {c1, c2}
    NStreams = 1
    StreamOf <- OneStream
    MaxEntries = 1
    Undecodable = {}
    Silent = {}
    Rejected = {1}
    ReadCount = 1
    BatchSize = 2
    Outputs = {"http"}
    Runs = {"forever"}
    MaxMishaps = 2
SPECIFICATION FairSpec
PROPERTIES
    EventuallyResolved
CHECK_DEADLOCK FALSE
