SPECIFICATION Spec
CONSTANTS
  Payments = {p1}
  Callers = {c1}
  MaxAttempts = 2
  MaxCrashes = 0
  Nobody = Nobody
INVARIANTS
  CreditedOnce
