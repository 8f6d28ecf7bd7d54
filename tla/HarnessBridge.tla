---------------------------- MODULE HarnessBridge ----------------------------
(***************************************************************************)
(* The bridge of one robot, sidecar/src/harness-bridge.ts: it takes drive  *)
(* and camera frames from the sidecar's socket and passes them to the      *)
(* harness, over a socket per channel or, for drives, over REST.           *)
(*                                                                         *)
(* A frame whose token the harness does not know yet, or knows with        *)
(* another speed mode, first awaits a request to the harness; the requests *)
(* end in any order.  What was accepted last is the target.  A timer sends *)
(* the target again and again, and a zero once it is stale.  A tick that   *)
(* finds no socket awaits one.  All ticks that await one socket go on at   *)
(* the same time, in order, so only the last of them matters (captured).   *)
(*                                                                         *)
(* A command is a token, a speed mode and whether it moves the robot, or   *)
(* turns the camera, at all.  Telemetry is left out.                       *)
(*                                                                         *)
(* AuthorizedBefore, StaleAsFresh and PostedOnce are plausible wrong forms *)
(* of the definitions below them.                                          *)
(***************************************************************************)
EXTENDS Integers, Bags

CONSTANTS
  PilotTokens,  \* the pilots' tokens
  SpeedModes,   \* bound: the speed modes they use
  Channels,     \* bound: the channels in use
  Frames,       \* bound: the frames the sidecar passes on
  MaxAwaiting,  \* bound: frames that await the harness at a time
  Nothing       \* no command, target or mode

ASSUME BridgeAssumption ==
  /\ SpeedModes \subseteq {"low", "medium", "high"}
  /\ Channels \subseteq {"drive", "camera"}
  /\ Nothing \notin SpeedModes /\ MaxAwaiting \in Nat
  /\ Frames \subseteq [channel : Channels,
                     command : [token : PilotTokens, mode : SpeedModes, moves : BOOLEAN]]

VARIABLES
  driveMode,    \* "ws" or "rest", chosen at start-up
  linked,       \* whether the sidecar's socket is open
  awaiting,     \* the bag of frames whose request is under way
  authorized,   \* authorizedTokens: per token, the mode set for it
  granted,      \* the harness: per token, the modes it was ever given
  target,       \* latestWsDrive and latestCamera, and whether they are fresh
  socket,       \* robotDrive and robotCamera: "closed", "connecting", "open"
  captured,     \* what the last tick that awaits the socket will send
  latestRestDrive, posting,   \* REST: the command that waits, and the one sent
  told          \* whether the last command that reached the harness moves

restVars == <<latestRestDrive, posting>>
wsVars == <<target, socket, captured>>
bridgeVars == <<driveMode, linked, awaiting, authorized, granted, target, socket,
                captured, latestRestDrive, posting, told>>

Command == [token : PilotTokens, mode : SpeedModes, moves : BOOLEAN]
Target == [command : Command, fresh : BOOLEAN]
Captured == [command : Command, stale : BOOLEAN, current : BOOLEAN]

BridgeInit ==
  /\ driveMode \in {"ws", "rest"}
  /\ linked = FALSE
  /\ awaiting = EmptyBag
  /\ authorized = [t \in PilotTokens |-> Nothing]
  /\ granted = [t \in PilotTokens |-> {}]
  /\ target = [ch \in Channels |-> Nothing]
  /\ socket = [ch \in Channels |-> "closed"]
  /\ captured = [ch \in Channels |-> Nothing]
  /\ latestRestDrive = Nothing /\ posting = Nothing
  /\ told = [ch \in Channels |-> FALSE]

Zeroed(c) == [c EXCEPT !.moves = FALSE]
-----------------------------------------------------------------------------
(* Accepting a frame.  A new target is a new object: a tick that captured  *)
(* the old one no longer finds it current.                                 *)

Replace(news) ==
  /\ target' = [ch \in Channels |->
                  IF ch \in DOMAIN news THEN [command |-> news[ch], fresh |-> TRUE]
                  ELSE target[ch]]
  /\ captured' = [ch \in Channels |->
                    IF ch \in DOMAIN news /\ captured[ch] # Nothing
                    THEN [captured[ch] EXCEPT !.current = FALSE] ELSE captured[ch]]

queueRestDrive(c) ==
  IF posting = Nothing
  THEN posting' = c /\ UNCHANGED latestRestDrive
  ELSE latestRestDrive' = c /\ UNCHANGED posting

OverRest(ch) == ch = "drive" /\ driveMode = "rest"

Accept(f) ==
  \/ OverRest(f.channel) /\ queueRestDrive(f.command) /\ UNCHANGED wsVars
  \/ ~OverRest(f.channel) /\ Replace([ch \in {f.channel} |-> f.command])
     /\ UNCHANGED <<socket, restVars>>

AuthorizedBefore(f) ==
  /\ awaiting' = awaiting (+) SetToBag({f})
  /\ authorized' = [authorized EXCEPT ![f.command.token] = f.command.mode]

(* ensureHarnessToken, up to its request. *)
Ask(f) ==
  /\ awaiting' = awaiting (+) SetToBag({f})
  /\ UNCHANGED authorized

(* A frame whose token is known with its mode is accepted at once. *)
Receive(f) ==
  /\ linked
  /\ \/ /\ authorized[f.command.token] = f.command.mode
        /\ Accept(f)
        /\ UNCHANGED <<awaiting, authorized>>
     \/ /\ authorized[f.command.token] # f.command.mode
        /\ BagCardinality(awaiting) < MaxAwaiting
        /\ Ask(f)
        /\ UNCHANGED <<wsVars, restVars>>
  /\ UNCHANGED <<driveMode, linked, granted, told>>

Grant(c) == granted' = [granted EXCEPT ![c.token] = @ \cup {c.mode}]

Answered(f) ==
  /\ BagIn(f, awaiting)
  /\ awaiting' = awaiting (-) SetToBag({f})

RequestSucceeds(f) ==
  /\ Answered(f)
  /\ Grant(f.command)
  /\ authorized' = [authorized EXCEPT ![f.command.token] = f.command.mode]
  /\ Accept(f)
  /\ UNCHANGED <<driveMode, linked, told>>

(* The frame is dropped; the harness may have taken the request.           *)
RequestFails(f) ==
  /\ Answered(f)
  /\ Grant(f.command) \/ UNCHANGED granted
  /\ UNCHANGED <<driveMode, linked, authorized, wsVars, restVars, told>>
-----------------------------------------------------------------------------
(* The sidecar's socket.  When it closes, the targets are held at zero;    *)
(* frames that await the harness are not.                                  *)

LinkOpens ==
  /\ ~linked /\ linked' = TRUE
  /\ UNCHANGED <<driveMode, awaiting, authorized, granted, wsVars, restVars, told>>

LinkCloses ==
  /\ linked /\ linked' = FALSE
  /\ Replace([ch \in {d \in Channels : target[d] # Nothing} |-> Zeroed(target[ch].command)])
  /\ UNCHANGED <<driveMode, awaiting, authorized, granted, socket, restVars, told>>
-----------------------------------------------------------------------------
(* The sockets to the harness.                                             *)

StaleAsFresh(ch) == target[ch].command

ToSend(ch) == IF target[ch].fresh THEN target[ch].command ELSE Zeroed(target[ch].command)

Send(ch, c, done) ==
  /\ told' = [told EXCEPT ![ch] = c.moves]
  /\ target' = [target EXCEPT ![ch] = IF done THEN Nothing ELSE @]

(* One tick of the timer. *)
Flush(ch) ==
  /\ target[ch] # Nothing
  /\ \/ /\ socket[ch] = "open"
        /\ Send(ch, ToSend(ch), ~target[ch].fresh)
        /\ UNCHANGED <<socket, captured>>
     \/ /\ socket[ch] # "open"
        /\ socket' = [socket EXCEPT ![ch] = "connecting"]
        /\ captured' = [captured EXCEPT ![ch] =
                          [command |-> ToSend(ch), stale |-> ~target[ch].fresh, current |-> TRUE]]
        /\ UNCHANGED <<target, told>>
  /\ UNCHANGED <<driveMode, linked, awaiting, authorized, granted, restVars>>

(* The socket opens, and the ticks that awaited it send what they captured. *)
Opens(ch) ==
  /\ socket[ch] = "connecting"
  /\ socket' = [socket EXCEPT ![ch] = "open"]
  /\ Send(ch, captured[ch].command, captured[ch].stale /\ captured[ch].current)
  /\ captured' = [captured EXCEPT ![ch] = Nothing]
  /\ UNCHANGED <<driveMode, linked, awaiting, authorized, granted, restVars>>

(* Connecting fails, or the socket breaks. *)
Closes(ch) ==
  /\ socket[ch] # "closed"
  /\ socket' = [socket EXCEPT ![ch] = "closed"]
  /\ captured' = [captured EXCEPT ![ch] = Nothing]
  /\ UNCHANGED <<driveMode, linked, awaiting, authorized, granted, target, restVars, told>>

(* The target becomes older than wsTargetStaleMs. *)
GoesStale(ch) ==
  /\ target[ch] # Nothing /\ target[ch].fresh
  /\ target' = [target EXCEPT ![ch].fresh = FALSE]
  /\ UNCHANGED <<driveMode, linked, awaiting, authorized, granted, socket, captured,
                 restVars, told>>
-----------------------------------------------------------------------------
PostedOnce ==
  /\ posting # Nothing /\ posting' = Nothing
  /\ told' \in {told, [told EXCEPT !["drive"] = posting.moves]}
  /\ UNCHANGED latestRestDrive
  /\ UNCHANGED <<driveMode, linked, awaiting, authorized, granted, wsVars>>

(* flushRestDrive: a POST ends, perhaps in an error, and the loop goes on  *)
(* with the command that came meanwhile.                                   *)
PostEnds ==
  /\ posting # Nothing
  /\ told' \in {told, [told EXCEPT !["drive"] = posting.moves]}
  /\ posting' = latestRestDrive
  /\ latestRestDrive' = Nothing
  /\ UNCHANGED <<driveMode, linked, awaiting, authorized, granted, wsVars>>

RequestEnds(f) == RequestSucceeds(f) \/ RequestFails(f)

FrameArrives == \E f \in Frames : Receive(f)

BridgeNext ==
  \/ FrameArrives
  \/ \E f \in Frames : RequestEnds(f)
  \/ LinkOpens \/ LinkCloses
  \/ \E ch \in Channels : Flush(ch) \/ Opens(ch) \/ Closes(ch) \/ GoesStale(ch)
  \/ PostEnds

(* The timers run, the clock goes on, and a request ends: the REST loop    *)
(* aborts its own after ROBOT_DRIVE_TIMEOUT_MS, and fetch gives up the     *)
(* others.  Nothing is assumed of the sidecar or of the sockets.           *)
BridgeFairness ==
  /\ \A ch \in Channels : WF_bridgeVars(Flush(ch)) /\ WF_bridgeVars(GoesStale(ch))
  /\ \A f \in Frames : WF_bridgeVars(RequestEnds(f))
  /\ WF_bridgeVars(PostEnds)

BridgeSpec == BridgeInit /\ [][BridgeNext]_bridgeVars /\ BridgeFairness
-----------------------------------------------------------------------------
(* Every variable keeps its type, whatever arrives in whichever order.     *)
BridgeTypeOK ==
  /\ driveMode \in {"ws", "rest"} /\ linked \in BOOLEAN
  /\ IsABag(awaiting) /\ BagToSet(awaiting) \subseteq Frames
  /\ authorized \in [PilotTokens -> SpeedModes \cup {Nothing}]
  /\ granted \in [PilotTokens -> SUBSET SpeedModes]
  /\ target \in [Channels -> Target \cup {Nothing}]
  /\ socket \in [Channels -> {"closed", "connecting", "open"}]
  /\ captured \in [Channels -> Captured \cup {Nothing}]
  /\ latestRestDrive \in Command \cup {Nothing} /\ posting \in Command \cup {Nothing}
  /\ told \in [Channels -> BOOLEAN]

(* What is sent, or may still be, carries a token the harness was given    *)
(* with that speed mode before, although frames, requests and their        *)
(* failures interleave (ensureHarnessToken).                               *)
CommandsGranted ==
  \A c \in {latestRestDrive, posting}
           \cup {target[ch].command : ch \in {d \in Channels : target[d] # Nothing}}
           \cup {captured[ch].command : ch \in {d \in Channels : captured[d] # Nothing}} :
    c # Nothing => c.mode \in granted[c.token]

AtRest(ch) == ~told[ch] \/ socket[ch] # "open"

(* When no more frames come, each socket's channel is told to rest for     *)
(* good, or has no socket (whose end stops the harness): also if the last  *)
(* frames overtook each other while they awaited the harness, and if the   *)
(* socket opened late (flushRobotDriveSocket, flushRobotCameraSocket).     *)
RestsWhenQuiet ==
  <>[][~FrameArrives]_bridgeVars => \A ch \in Channels : <>[](OverRest(ch) \/ AtRest(ch))

(* Over REST, a command that came while another was being sent does not    *)
(* wait for a third (flushRestDrive).                                      *)
QueuedIsSent == latestRestDrive # Nothing ~> latestRestDrive = Nothing
=============================================================================
