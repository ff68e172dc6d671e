SPECIFICATION FairSpec
CONSTANTS
  o1 = o1 o2 = o2 h1 = h1 h2 = h2 a1 = a1 a2 = a2 c1 = c1 p1 = p1
  Objects = {o1, o2}
  Slots = {h1, h2}
  Arcs = {a1, a2}
  Calls = {c1}
  Ports = {p1}
  MaxArgs = 2
INVARIANTS
  CountIsOwners
  LeakOnlyByFailure
PROPERTIES
  ExitReleases
  ImplementsBaseArc
CHECK_DEADLOCK FALSE
