\* One round, two calls at a time, a restart or a lost receipt at any moment.
SPECIFICATION Spec
CONSTANTS
  w1 = w1
  w2 = w2
  x1 = x1
  c1 = c1
  c2 = c2
  RoundIds = {x1}
  NoRound = NoRound
  Wallets = {w1, w2}
  NoWallet = NoWallet
  NoRace = NoRace
  NoWinner = NoWinner
  Fees = {"x402"}
  CallIds = {c1, c2}
  Idle = Idle
  MaxRaces = 2
  Faults = {"crash", "timeout"}
SYMMETRY RoomSymmetry
INVARIANTS
  LocalBehindChain
  StakesKnown
  JoinsAgree
CHECK_DEADLOCK FALSE
