SPECIFICATION FairSpec
CONSTANTS
  Jobs = {j1, j2}
  Pollers = {w1}
  Requests = {r1}
  NoJob = NoJob
  Nobody = Nobody
  MaxAttempts = 2
  BackoffCap = 2
  Lease = 1
  MaxFaults = 2
INVARIANTS
  TypeOK
  CompletedWasProcessed
  DeadMeansExhausted
PROPERTIES
  FinishedStaysFinished
  JobsSettle
