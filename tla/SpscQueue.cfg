CONSTANTS
    Capacity = 3
    MaxRetries = 2
    Policies = {"drop_newest", "drop_oldest", "block"}
    MaxItems = 4
SPECIFICATION FairSpec
INVARIANTS
    TypeOK
    NeverTornUnlessOverlap
    ConservedUnlessOverlap
    ConsumerLengthUnlessOverlap
    ObservedZeroUnlessOverlap
PROPERTIES
    FifoUnlessOverlap
    PushReturns
CHECK_DEADLOCK FALSE
