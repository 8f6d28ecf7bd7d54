\* One race: mismatched amounts, lapsed deadlines, approvals and permits that
\* cover an entry or do not, both roles changing hands.
SPECIFICATION Spec
CONSTANTS
  d1 = d1
  d2 = d2
  Drivers = {d1, d2}
  NoDriver = NoDriver
  Treasuries = {t1, t2}
  Escrow = Escrow
  Operator = op
  Keys = {op, fac}
  Stakes = {1, 2}
  Fees = {1}
  Funds = 4
  Grants = {3}
  MaxRaces = 1
  MaxSigned = 2
  MaxTime = 1
SYMMETRY DriverSymmetry
INVARIANTS
  TypeOK
  FeesAccounted
  EntriesConsented
  StakedBeforeRun
PROPERTIES
  ResultStands
CHECK_DEADLOCK FALSE
