\* One round and its race, two calls at a time, a restart at any moment:
\* whose result stands.
SPECIFICATION Spec
CONSTANTS
  w1 = w1
  w2 = w2
  x1 = x1
  c1 = c1
  c2 = c2
  RoundIds = {x1}
  NoRound = NoRound
  Wallets = {w1, w2}
  NoWallet = NoWallet
  NoRace = NoRace
  NoWinner = NoWinner
  Fees = {"x402"}
  CallIds = {c1, c2}
  Idle = Idle
  MaxRaces = 1
  Faults = {"crash"}
SYMMETRY RoomSymmetry
INVARIANTS
  ResultAgrees
PROPERTIES
  OutcomeStands
  LockedWithStakes
CHECK_DEADLOCK FALSE
