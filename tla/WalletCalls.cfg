SPECIFICATION FairSpec
CONSTANTS
  Requests = {r1}
  Hooks = {h1}
  Outcomes = {"SUCCESSFUL", "FAILED", "OTHER"}
  Payments = {p1}
  Callers = {c1}
  MaxAttempts = 1
  MaxCrashes = 1
  Opening = 1
  Amount = 1
  Nobody = Nobody
INVARIANTS
  TypeOK
PROPERTIES
  ImplementsLedger
  EverythingEnds
