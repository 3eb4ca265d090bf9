SPECIFICATION FairSpec
CONSTANTS
  n1 = n1
  n2 = n2
  n3 = n3
  Notes = {n1, n2, n3}
  Forged = {n3}
  Runs = {r1, r2}
  Hooks = {h1}
  None = None
  History <- TwoPages
  PageSize = 2
  Limits = {2}
  MaxFaults = 1
INVARIANTS
  TypeOK
  AcknowledgedIsStored
  RecordsInsertedExact
  CursorSkipsNothing
PROPERTIES
  RunEnds
CHECK_DEADLOCK FALSE
