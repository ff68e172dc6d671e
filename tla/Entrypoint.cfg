SPECIFICATION FairSpec
CONSTANTS
  i1 = i1 i2 = i2 n1 = n1 n2 = n2 n3 = n3
  Isolates = {i1, i2}
  Inits = {n1, n2, n3}
  IsolateOf <- MCIsolateOf
INVARIANTS
  CounterIsWatchers
  PostingEnabledWhileUp
  QuietAfterShutdown
  OneBridgePerIsolate
PROPERTIES
  PostingEnds
CHECK_DEADLOCK FALSE
