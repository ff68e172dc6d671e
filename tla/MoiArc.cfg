SPECIFICATION Spec
CONSTANTS
  Handles = {h1, h2, h3, h4}
  Objects = {o1, o2, o3}
  NoObj = NoObj
  MaxId = 2
SYMMETRY HandleSymmetry
INVARIANTS
  RefCountIsOwners
  IdNamesItsObject
  NoUseAfterFree
  NoLeak
PROPERTY
  ImplementsBaseArc
CHECK_DEADLOCK FALSE
