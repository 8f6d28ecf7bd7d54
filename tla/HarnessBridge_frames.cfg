\* One pilot, two speed modes, a drive and a camera socket or REST drives, and
\* two frames at a time that await the harness.
SPECIFICATION BridgeSpec
CONSTANTS
  p1 = p1
  PilotTokens = {p1}
  SpeedModes = {"low", "high"}
  Channels = {"drive", "camera"}
  Frames <- MCFrames
  MaxAwaiting = 2
  Nothing = Nothing
INVARIANTS
  CommandsGranted
PROPERTIES
  RestsWhenQuiet
  QueuedIsSent
