SPECIFICATION FairSpec
CONSTANTS
  c1 = c1 c2 = c2 s1 = s1 s2 = s2 s3 = s3
  Closers = {c1, c2}
  Sinks = {s1, s2, s3}
  CloserOf <- MCCloserOf
  MaxMessages = 4
INVARIANTS
  NothingLostWhileOpen
  DoneAfterAllValues
PROPERTIES
  ImplementsEventStream
  DroppedSinkEndsStream
CHECK_DEADLOCK FALSE
