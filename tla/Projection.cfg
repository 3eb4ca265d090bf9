SPECIFICATION Spec
CONSTANTS
  e1 = e1
  e2 = e2
  e3 = e3
  e4 = e4
  e5 = e5
  t1 = t1
  s1 = s1
  p1 = p1
  c1 = c1
  Events = {e1, e2, e3, e4, e5}
  x1 = x1
  x2 = x2
  l1 = l1
  l2 = l2
  Executors = {x1, x2}
  TxnKeys = {t1}
  SubKeys = {s1}
  Products = {p1}
  Logicals = {l1, l2}
  Customers = {c1}
  None = None
  Fact <- Lifecycle
  MaxStarts = 3
  MaxCrashes = 1
  MaxWork = 4
INVARIANTS
  TypeOK
  SubShowsNewest
  RefundsCounted
  RollupExact
  DoneIsProjected
  RowsFollowMapping
PROPERTIES
  ImplementsNewestWins
CHECK_DEADLOCK FALSE
SYMMETRY Interchangeable
