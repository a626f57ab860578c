SPECIFICATION Spec
CONSTANTS
  w1 = w1
  w2 = w2
  Wallets = {w1, w2}
  Handlers = {h1, h2}
  Nobody = Nobody
  MaxBalance = 3
  p1 = p1
  p2 = p2
  Payments = {}
  Calls <- SameDebit
  Funding <- NoPayments
  Opening <- TwoAndOne
INVARIANTS
  NoOverdraft
