SPECIFICATION FairSpec
CONSTANTS
  Calls = {c1, c2, c3}
  MaxOrder = 1
  Objects = {0, 1}
  MaxArgs = 2
  Inputs <- MCInputs
INVARIANTS
  OrderedWaiting
  NoSelfBlock
  DeadlockNeedsAliasing
PROPERTIES
  ImplementsAtomicBorrows
  EveryCallRuns
CHECK_DEADLOCK FALSE
