SPECIFICATION Spec
CONSTANTS
  Requests = {r1}
  Hooks = {}
  Outcomes = {"SUCCESSFUL", "FAILED"}
  MaxAttempts = 2
  MaxCrashes = 0
  Nobody = Nobody
INVARIANTS
  PayoutsAreRecorded
