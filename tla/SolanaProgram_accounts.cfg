\* Two races, three token accounts of two drivers; one market, three bettors.
SPECIFICATION Spec
CONSTANTS
  d1 = d1
  d2 = d2
  a1 = a1
  a2 = a2
  a3 = a3
  b1 = b1
  b2 = b2
  b3 = b3
  n1 = n1
  n2 = n2
  n3 = n3
  f1 = f1
  f2 = f2
  j1 = j1
  Drivers = {d1, d2}
  NoDriver = NoDriver
  TokenAccounts = {a1, a2, a3}
  Owner <- TwoAccounts
  Facilitators = {f1, f2}
  Stake = 2
  Fee = 1
  Funds = 3
  MaxRaces = 2
  Bettors = {b1, b2, b3}
  Judges = {j1}
  Nullifiers = {n1, n2, n3}
  Purse = 2
  NumRacers = 2
  Markets = {m1}
SYMMETRY Symmetry
INVARIANTS
  VaultsExact
  VaultCoversClaims
PROPERTIES
  ImplementsStakePool
  ImplementsRaceLedger
  ImplementsBetPool
