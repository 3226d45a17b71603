\* Two leases of one window, one file, heartbeats on time; a command or a fault.
SPECIFICATION SystemSpec
CONSTANTS
  Window = {w1}
  MaxSession = 2
  MaxCommand = 1
  Timeout = 0
  IdleExit = 0
  Punctual = TRUE
  Faults = TRUE
  MaxFile = 1
  MaxContent = 1
  MaxAttempt = 1
  MaxManual = 0
  MaxChange = 0
  MaxTotal = 1
CONSTRAINTS
  FirstIsCommanded
  CommandOrFault
  LateBeatAlone
PROPERTY ImplementsQueue
CHECK_DEADLOCK FALSE
