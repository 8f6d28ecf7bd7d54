\* Two races with fixed amounts: whose money pays for what.
SPECIFICATION Spec
CONSTANTS
  d1 = d1
  d2 = d2
  Drivers = {d1, d2}
  NoDriver = NoDriver
  Treasuries = {t1}
  Escrow = Escrow
  Operator = op
  Keys = {op}
  Stakes = {1}
  Fees = {1}
  Funds = 4
  Grants = {2}
  MaxRaces = 2
  MaxSigned = 4
  MaxTime = 0
SYMMETRY DriverSymmetry
INVARIANTS
  Solvency
PROPERTIES
  MoneyMovesByRace
  ImplementsStakePool
  ImplementsRaceLedger
CHECK_DEADLOCK FALSE
