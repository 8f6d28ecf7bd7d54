\* Two sessions one after the other, two channels, a robot that comes and goes,
\* requests that fail.
SPECIFICATION Spec
CONSTANTS
  Tokens = {p1, p2}
  NoToken = NoToken
  socket = socket
  channel = channel
  Clients = {socket, channel}
  Kind <- MCKind
  Off = Off
  Nothing = Nothing
  Wanted <- MCWanted
  Modes = {"low", "high"}
  NoMode = NoMode
  Cap <- MCCap
  Full = 4
  Faults = {"request"}
INVARIANTS
  SpeedsGranted
PROPERTIES
  StoppedStays
  SilenceStops
