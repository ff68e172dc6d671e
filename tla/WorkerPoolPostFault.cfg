SPECIFICATION Spec
CONSTANTS
  Initial = 0
  MaxWorkers = 1
  NumJobs = 4
  Faults <- PostFault
INVARIANT
  QueuedFifo
CHECK_DEADLOCK FALSE
