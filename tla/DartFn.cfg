SPECIFICATION FairSpec
CONSTANTS
  o1 = o1 o2 = o2 i1 = i1 i2 = i2
  h1 = h1 h2 = h2 k1 = k1 k2 = k2 k3 = k3
  Isolates = {i1}
  Objects = {o1}
  Home <- MCHome
  Handles = {h1, h2}
  Calls = {k1, k2, k3}
  NumIds = 2
  Fallible <- MCFallible
  Faults <- MCFaults
INVARIANTS
  BoxFreedUnlessPortClosed
  CloneTravelsWithCall
  AnswerIsOwn
PROPERTIES
  ImplementsBaseArc
  EveryCallAnswered
  PostedBoxFreed
CHECK_DEADLOCK FALSE
