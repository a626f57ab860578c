SPECIFICATION Spec
CONSTANTS
  e1 = e1
  e2 = e2
  e3 = e3
  n1 = n1
  n2 = n2
  p1 = p1
  Emails = {e1, e2, e3}
  Names = {n1, n2}
  Passwords = {p1, Default}
  Default = Default
  Handlers = {h1, h2}
  Calls <- OneReset
  Opening <- TwoUsers
  Sessions = {}
  Epoch = 4
  MaxTime = 3
  MaxCrashes = 0
  Nobody = Nobody
PROPERTIES
  CodesExpire
