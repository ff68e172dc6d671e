SPECIFICATION Spec
CONSTANTS
  Handles = {h1, h2}
  Objects = {o1, o2}
  NoObj = NoObj
  MaxId = 2
INVARIANT
  LastOwnerUnwraps
CHECK_DEADLOCK FALSE
