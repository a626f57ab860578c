SPECIFICATION FairSpec
CONSTANTS
  Requests = {r1, r2}
  Hooks = {h1}
  Outcomes = {"SUCCESSFUL", "FAILED", "OTHER"}
  MaxAttempts = 2
  MaxCrashes = 1
  Nobody = Nobody
INVARIANTS
  TypeOK
  RefundedAsSettled
  PendingHasACause
PROPERTIES
  ImplementsSettlement
  JobsEnd
