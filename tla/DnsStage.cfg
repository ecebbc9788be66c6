CONSTANTS
  Keys <- MCKeys
  Times <- MCTimes
  Templates <- MCTemplates
  RoleMap <- MCRoleMap
  LocalAddrs = {"us"}
  BackendAddrs = {"backend"}
  SampleAll = FALSE
  Kept = {"kept"}
  TickEvery = 2
  RingDelay = 1
  PollDelay = 1
  Capacity = 2
  Timeout = 3
  EvictMax = 1
  FullPolicies = {"drop_oldest"}
  MaxQueries = 3
  MaxResponses = 3
  MaxTime = 4
  ReplayTimes = {0}
  MaxPackets = 3
  Fates = {"emitted", "queue_drop"}
  MaxFaults = 1
  MaxReports = 1
SPECIFICATION Spec
INVARIANTS
  AnsweredIsObserved
  TransactionsAccounted
  CountersSurviveReset
CHECK_DEADLOCK FALSE
