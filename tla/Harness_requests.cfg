\* Two threads and the deadman, one pilot, the serial port may fail.
SPECIFICATION Spec
CONSTANTS
  Tokens = {p1}
  Workers = {r1, r2}
  Deadman = Deadman
  Wanted <- MCForward
  Modes = {"low", "high"}
  Cap <- MCCap
  Faults = {"write"}
INVARIANTS
  SpeedsCapped
PROPERTIES
  LatchedStopHolds
  EndedRoundHolds
  DeadmanClears
