SPECIFICATION Spec
CONSTANTS
  Purchases = {p1}
  Stores = {"app_store", "google_play"}
  Mirrors = {"revenuecat"}
  MaxCharges = 3
  MaxGaps = 1
INVARIANTS
  TypeOK
  MoneyCountsOnce
CHECK_DEADLOCK FALSE
