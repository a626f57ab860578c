SPECIFICATION Spec
CONSTANTS
  MaxRows = 3
  Requests <- MCRequests
INVARIANTS
  TypeOK
  WalkMissesOnlyAfterLeaving
  TotalMissesOnlyWhatWasPushed
  RepeatsOnlyAfterJoining
PROPERTIES
  PageHoldsItsTotal
