\* Two user interfaces, two successive leases, every fault, heartbeats on time.
SPECIFICATION Spec
CONSTANTS
  Window = {w1, w2}
  MaxSession = 2
  MaxCommand = 1
  Timeout = 1
  IdleExit = 1
  Punctual = TRUE
  Faults = TRUE
SYMMETRY Interchangeable
INVARIANTS
  TypeOK
  LeaseInv
  AtMostOneWorker
  WorkerIsAddressed
PROPERTIES
  RefinesSingleWorker
  DeadLeaseOnlyAges
CHECK_DEADLOCK FALSE
