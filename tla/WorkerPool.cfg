SPECIFICATION FairSpec
CONSTANTS
  Initial = 1
  MaxWorkers = 2
  NumJobs = 6
  Faults <- AllFaults
INVARIANTS
  WorkersAccounted
  JobHasOneOwner
  WorkConserving
PROPERTIES
  ImplementsJobPool
  AcceptedJobEnds
CHECK_DEADLOCK FALSE
