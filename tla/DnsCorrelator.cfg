CONSTANTS
    Keys = {"a", "b", "c"}
    Times = {0, 1, 2}
    Capacity = 2
    Timeout = 1
    EvictMax = 1
    FullPolicies = {"drop_newest", "drop_oldest"}
    MaxQueries = 4
    MaxResponses = 1
    NBuckets = 2
    KeyHash <- MCHash
SPECIFICATION Spec
INVARIANTS
    ListsAgree
    ResponsesPassedOn
    HandedBackOnce
    Balanced
    NewestWins
PROPERTIES
    ImplementsPendingQueries
    TickEvictsAllExpired
CHECK_DEADLOCK FALSE
