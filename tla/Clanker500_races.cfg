\* Two races on one balance, two drivers who may refuse payments, two keys.
SPECIFICATION Spec
CONSTANTS
  d1 = d1
  d2 = d2
  Drivers = {d1, d2}
  NoDriver = NoDriver
  Escrow = Escrow
  Keys = {k1, k2}
  Stakes = {1, 2}
  Funds = 4
  MaxRaces = 2
SYMMETRY DriverSymmetry
INVARIANTS
  TwoDrivers
PROPERTIES
  ImplementsStakePool
  ImplementsRaceLedger
CHECK_DEADLOCK FALSE
