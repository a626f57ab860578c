SPECIFICATION FairSpec
CONSTANTS
  Payments = {p1, p2}
  Callers = {c1}
  MaxAttempts = 2
  MaxCrashes = 1
  Nobody = Nobody
INVARIANTS
  TypeOK
  CreditsAgree
  DoneMeansSettled
  CreditedOncePerAsker
PROPERTIES
  SettledIsFinal
  ImplementsFunding
  PaidIsCredited
