SPECIFICATION FairSpec
CONSTANTS
  w1 = w1
  w2 = w2
  Wallets = {w1, w2}
  Handlers = {h1, h2, h3}
  Nobody = Nobody
  MaxBalance = 4
  p1 = p1
  p2 = p2
  Payments = {p1, p2}
  Calls <- AllCalls
  Funding <- OneAndTwo
  Opening <- TwoAndOne
INVARIANTS
  TypeOK
  AuditUnlessLost
  CreditReadsAreFresh
  ReversedOnce
PROPERTIES
  ImplementsLedger
  EveryCallEnds
