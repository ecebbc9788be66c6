CONSTANTS
    Consumers = {c1}
    NStreams = 1
    StreamOf <- OneStream
    MaxEntries = 2
    Undecodable = {}
    Silent = {}
    Rejected = {}
    ReadCount = 1
    BatchSize = 2
    Outputs = {"http"}
    Runs = {"forever"}
    MaxMishaps = 2
SPECIFICATION Spec
INVARIANTS
    ExitsCleanly
CHECK_DEADLOCK FALSE
