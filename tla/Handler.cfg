SPECIFICATION FairSpec
CONSTANTS
  c1 = c1 c2 = c2 c3 = c3 c4 = c4 c5 = c5
  i1 = i1 i2 = i2
  l1 = l1 l2 = l2
  Pool = pool
  Isolates = {i1, i2}
  Lanes = {l1, l2}
  IsolateOf <- MCIsolateOf
  Mode <- MCMode
  RoutedTo <- MCRoutedTo
  Awaits <- MCAwaits
  Threads = 1
  Timed = {c5}
  Calls = {c1, c2, c3, c4, c5}
  Noisy = {c3, c4}
  Unencodable = {c2, c4}
  Faults = {"prepare", "body", "exit"}
INVARIANTS
  AtMostOneReply
  OutcomeFaithful
  PendingIsUnderWay
  LaneFaultContained
PROPERTIES
  ImplementsRemoteCall
  EveryCallSettles
CHECK_DEADLOCK FALSE
