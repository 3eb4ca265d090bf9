SPECIFICATION Spec
CONSTANTS
  n1 = n1
  n2 = n2
  n3 = n3
  Notes = {n1, n2, n3}
  Forged = {n3}
  Runs = {r1}
  Hooks = {h1}
  None = None
  History <- TwoPages
  PageSize = 2
  Limits = {1}
  MaxFaults = 0
INVARIANTS
  PageStored
CHECK_DEADLOCK FALSE
