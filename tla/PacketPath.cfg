CONSTANTS
  Packets <- MCPackets
  EventMax = 320
SPECIFICATION Spec
INVARIANTS
  DecapFaithful
  FilterAgrees
  DnsFaithful
  LongOptionsWhole
  Dhcpv6Faithful
  UsableIsKept
CHECK_DEADLOCK FALSE
