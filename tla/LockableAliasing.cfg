SPECIFICATION Spec
CONSTANTS
  Calls = {c1, c2}
  MaxOrder = 1
  Objects = {0, 1}
  MaxArgs = 2
  Inputs <- MCInputs
INVARIANT
  NoDeadlock
