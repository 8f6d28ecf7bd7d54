\* Two races, one human, two requests at once, a judge who may be replaced.
SPECIFICATION Spec
CONSTANTS
  h1 = h1
  h2 = h2
  n1 = n1
  Relayer = relayer
  Bettors = {relayer}
  Market = Market
  Guard = guard
  Keys = {guard, k}
  Nullifiers = {n1}
  Funds = 2
  MaxBet = 1
  RacerCount = 2
  MaxRaces = 2
  BetAmounts = {1}
  Handlers = {h1, h2}
  MaxOpens = 2
SYMMETRY Symmetry
INVARIANTS
  SettledAsRaced
  BetsFollowRace
