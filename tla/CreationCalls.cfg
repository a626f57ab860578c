SPECIFICATION FairSpec
CONSTANTS
  Users = {u1, u2}
  Handlers = {h1, h2, h3}
  MaxCrashes = 1
  Nobody = Nobody
  Askers = {a1, a2}
  wema = wema
  gtb = gtb
  Lists <- TwoLists
  AccountBank = wema
INVARIANTS
  TypeOK
  WalletHasItsAccount
  OrphansAreFailures
  BanksAgree
PROPERTIES
  NoAccountForOwners
  ListedBanksAreFound
  EveryCallEnds
