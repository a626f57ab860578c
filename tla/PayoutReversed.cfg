SPECIFICATION HookedSpec
CONSTANTS
  Requests = {r1}
  Hooks = {h1}
  Outcomes = {"SUCCESSFUL", "FAILED"}
  MaxAttempts = 2
  MaxCrashes = 0
  Nobody = Nobody
PROPERTIES
  FailedPayoutsAreReversed
