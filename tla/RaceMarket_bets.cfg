\* Two races on one balance, three bettors, bets of 0 to 2.
SPECIFICATION MarketSpec
CONSTANTS
  b1 = b1
  b2 = b2
  b3 = b3
  n1 = n1
  n2 = n2
  n3 = n3
  k1 = k1
  k2 = k2
  Bettors = {b1, b2, b3}
  Market = Market
  Keys = {k1, k2}
  Nullifiers = {n1, n2, n3}
  Funds = 2
  MaxBet = 2
  RacerCount = 2
  MaxRaces = 2
SYMMETRY Symmetry
INVARIANTS
  ClaimsCovered
PROPERTIES
  ImplementsBetPool
