\* One round, two races, two calls at a time, and the transactions of one that
\* gave up.
SPECIFICATION NativeSpec
CONSTANTS
  w1 = w1
  w2 = w2
  c1 = c1
  c2 = c2
  RoundIds = {x1}
  NoRound = NoRound
  Wallets = {w1, w2}
  NoWallet = NoWallet
  NoRace = NoRace
  NoWinner = NoWinner
  CallIds = {c1, c2}
  Idle = Idle
  MaxRaces = 2
  MaxPending = 2
SYMMETRY Symmetry
INVARIANTS
  BehindUnlessCancelled
  ConfirmedIsStaked
  LockedRoundsAreStaked
CHECK_DEADLOCK FALSE
