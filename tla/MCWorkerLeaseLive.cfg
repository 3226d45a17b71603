\* One lease and three commands: what must eventually happen, faults included.
SPECIFICATION FairSpec
CONSTANTS
  Window = {w1}
  MaxSession = 1
  MaxCommand = 3
  Timeout = 1
  IdleExit = 1
  Punctual = TRUE
  Faults = TRUE
INVARIANT CommandsInOrder
PROPERTIES
  CommandAnswered
  DeadLeaseExpires
CHECK_DEADLOCK FALSE
