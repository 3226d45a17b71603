\* A worker may be silent for longer than the timeout, as it is while it loads
\* its model and prepares the queue.
SPECIFICATION Spec
CONSTANTS
  Window = {w1}
  MaxSession = 2
  MaxCommand = 0
  Timeout = 1
  IdleExit = 1
  Punctual = FALSE
  Faults = FALSE
INVARIANT AtMostOneWorker
CHECK_DEADLOCK FALSE
