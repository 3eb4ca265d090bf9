SPECIFICATION FairSpec
CONSTANTS
  Events = {e1}
  Pollers = {w1}
  Requests = {r1, r2}
  NoJob = NoJob
  Nobody = Nobody
  MaxAttempts = 2
  BackoffCap = 1
  Lease = 0
  MaxFaults = 1
  MaxDeliveries = 2
INVARIANTS
  TypeOK
  OneJobPerEvent
  LossIsCounted
PROPERTIES
  ProcessedEventStays
  ImplementsInbox
  AnsweredSettles
CHECK_DEADLOCK FALSE
