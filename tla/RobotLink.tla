------------------------------ MODULE RobotLink ------------------------------
(***************************************************************************)
(* The sidecar's side of driving one robot, sidecar/src/robot-link.ts:     *)
(* pilot sessions, the phones' control channels, the last command, the     *)
(* sidecar's deadman and the two ways a command reaches the robot, its     *)
(* socket or, while it has none, one REST request after another.           *)
(*                                                                         *)
(* Node runs a callback to its end, so a callback is one action; the REST  *)
(* loop (flushRestDrive) awaits the robot and is one action per await.     *)
(* Both wheels are one speed, counted in steps of 1/Full and negative in   *)
(* reverse; zero stands for all within the deadman's tolerance of 0.001.   *)
(* `received` is the command the robot's end received last; what the robot *)
(* then does (Harness has a deadman of its own) is not part of this module.*)
(* The camera, the telemetry and the cache of tokens already authorized    *)
(* on the robot are left out.                                              *)
(*                                                                         *)
(* MakeUncapped, StopKeepingPending and DeadmanOnce are plausible wrong    *)
(* forms of the definitions below them.                                    *)
(***************************************************************************)
EXTENDS Integers

CONSTANTS
  Tokens,     \* bound: the tokens randomUUID yields
  NoToken,    \* the token of the first command
  Clients,    \* bound: control channels at a time
  Kind,       \* Kind[c]: channel c is a WebSocket or a WebRTC data channel
  Off,        \* a channel that is not open
  Nothing,    \* no command
  Wanted,     \* the speeds phones ask for
  Modes,      \* bound: the speed modes used
  NoMode,     \* a frame or an offer that names none
  Cap,        \* Cap[mode]: SPEED_CAPS
  Full,       \* the speed 1.0
  Faults      \* what may go wrong: a subset of {"request"}

ASSUME LinkAssumption ==
  /\ NoToken \notin Tokens
  /\ Wanted \subseteq Int
  /\ Modes \subseteq {"low", "medium", "high"}
  /\ NoMode \notin Modes
  /\ Full \in Nat \ {0}
  /\ Cap \in [{"low", "medium", "high"} -> 0..Full]
  /\ Kind \in [Clients -> {"ws", "webrtc"}]
  /\ Cap["low"] <= Cap["medium"] /\ Cap["medium"] <= Cap["high"]

VARIABLES
  grant,      \* grant[t]: the maximal mode token t was issued with, or "none"
  sessions,   \* sessions[t]: the session of token t, or Off
  clients,    \* the control channels
  last,       \* lastCommand
  stale,      \* more than DEADMAN_MS have passed since lastCommand.ts_ms
  stopped,    \* stoppedByDeadman
  attached,   \* the robot's socket is open
  replaced,   \* a replaced socket of the robot has not reported its end yet
  pending,    \* pendingRestDrive
  carrying,   \* the command flushRestDrive is sending
  received    \* the speed the robot's end received last

sessionVars == <<grant, sessions>>
robotVars == <<attached, replaced>>
vars == <<grant, sessions, clients, last, stale, stopped, attached, replaced,
          pending, carrying, received>>

SpeedMode == {"low", "medium", "high"}
Rank == [low |-> 0, medium |-> 1, high |-> 2]

(* open: not_before has passed.  An expired or ended session is removed.   *)
Session == [mode : SpeedMode, max : SpeedMode, open : BOOLEAN]

(* listed: in pilotClients or webrtcPilotClients.                          *)
Client == [token : Tokens, listed : BOOLEAN]

Speed == (-Full)..Full
Command == [token : Tokens \cup {NoToken}, speed : Speed]

Init ==
  /\ grant = [t \in Tokens |-> "none"]
  /\ sessions = [t \in Tokens |-> Off]
  /\ clients = [c \in Clients |-> Off]
  /\ last = [token |-> NoToken, speed |-> 0]
  /\ stale = FALSE
  /\ stopped = FALSE
  /\ attached = FALSE
  /\ replaced = FALSE
  /\ pending = Nothing
  /\ carrying = Nothing
  /\ received = 0
-----------------------------------------------------------------------------
(* Commands.                                                               *)

capSpeedMode(mode, max) == IF Rank[mode] > Rank[max] THEN max ELSE mode

Clamp(speed) == CASE speed > Full -> Full
                  [] speed < -Full -> -Full
                  [] OTHER -> speed

MakeUncapped(t, mode, speed) == [token |-> t, speed |-> Clamp(speed)]

makeCommand(t, mode, speed) == [token |-> t, speed |-> (Clamp(speed) * Cap[mode]) \div Full]

(* The mode a session drives in after one is asked for, or none is.        *)
Asked(session, mode) == IF mode = NoMode THEN session.mode ELSE capSpeedMode(mode, session.max)

(* sendToRobot, with the command pendingRestDrive has been left at.        *)
Send(cmd, left) ==
  IF attached
  THEN /\ received' = cmd.speed
       /\ pending' = left
       /\ UNCHANGED carrying
  ELSE /\ IF carrying = Nothing THEN carrying' = cmd /\ pending' = left
          ELSE pending' = cmd /\ UNCHANGED carrying
       /\ UNCHANGED received

Issue(cmd) == last' = cmd /\ stale' = FALSE /\ Send(cmd, pending)

AtRest(cmd) == [cmd EXCEPT !.speed = 0]

StopKeepingPending == pending
PendingAfterStop == Nothing

StopQuietly ==
  /\ stopped' = TRUE
  /\ last' = AtRest(last)
  /\ stale' = FALSE
  /\ pending' = PendingAfterStop
  /\ UNCHANGED <<carrying, received>>

(* safeStop; without a robot to send to, StopQuietly. *)
safeStop ==
  /\ stopped' = TRUE
  /\ last' = AtRest(last)
  /\ stale' = FALSE
  /\ Send(AtRest(last), PendingAfterStop)
-----------------------------------------------------------------------------
(* Sessions.  There is one per robot: a new one ends the one before.       *)

Unlisted == [c \in Clients |-> IF clients[c] = Off THEN Off ELSE [clients[c] EXCEPT !.listed = FALSE]]

authorizePilotSession(t, mode, max, open) ==
  /\ grant[t] = "none"
  /\ grant' = [grant EXCEPT ![t] = max]
  /\ sessions' = [x \in Tokens |->
       IF x = t THEN [mode |-> capSpeedMode(mode, max), max |-> max, open |-> open] ELSE Off]
  /\ clients' = Unlisted
  /\ last' = makeCommand(t, capSpeedMode(mode, max), 0)
  /\ stale' = FALSE
  /\ stopped' = FALSE
  /\ UNCHANGED <<robotVars, pending, carrying, received>>

(* By the operator's stop, and when a round ends. *)
revokePilotSessions ==
  /\ clients' = Unlisted
  /\ sessions' = [t \in Tokens |-> Off]
  /\ safeStop
  /\ UNCHANGED <<grant, robotVars>>

SessionTime(t) ==
  /\ sessions[t] # Off
  /\ sessions' \in {[sessions EXCEPT ![t] = Off], [sessions EXCEPT ![t].open = TRUE]}
  /\ UNCHANGED <<grant, clients, last, stale, stopped, robotVars, pending, carrying, received>>

(* An offer may choose the session's mode before anything is connected.    *)
Offer(t, mode) ==
  /\ sessions[t] # Off
  /\ sessions' = [sessions EXCEPT ![t].mode = Asked(sessions[t], mode)]
  /\ UNCHANGED <<grant, clients, last, stale, stopped, robotVars, pending, carrying, received>>

SpeedModeRoute(t, mode) ==
  /\ sessions[t] # Off
  /\ sessions[t].open
  /\ LET granted == capSpeedMode(mode, sessions[t].max)
     IN /\ sessions' = [sessions EXCEPT ![t].mode = granted]
        /\ Issue(makeCommand(t, granted, last.speed))
  /\ UNCHANGED <<grant, clients, stopped, robotVars>>
-----------------------------------------------------------------------------
(* Control channels.                                                       *)

Connect(c, t) ==
  /\ clients[c] = Off
  /\ sessions[t] # Off
  /\ clients' = [clients EXCEPT ![c] = [token |-> t, listed |-> TRUE]]
  /\ stopped' = (stopped /\ Kind[c] = "ws")
  /\ UNCHANGED <<sessionVars, last, stale, robotVars, pending, carrying, received>>

handleDriveCommand(c, wanted, mode) ==
  /\ clients[c] # Off
  /\ LET t == clients[c].token
         granted == Asked(sessions[t], mode)
     IN /\ sessions[t] # Off
        /\ sessions[t].open
        /\ sessions' = [sessions EXCEPT ![t].mode = granted]
        /\ Issue(makeCommand(t, granted, wanted))
  /\ stopped' = FALSE
  /\ UNCHANGED <<grant, clients, robotVars>>

(* A phone goes, or a channel the sidecar closed reports its end.  A socket*)
(* always stops the robot, a data channel only while it is listed.         *)
Disconnect(c) ==
  /\ clients[c] # Off
  /\ clients' = [clients EXCEPT ![c] = Off]
  /\ IF Kind[c] = "ws" \/ clients[c].listed THEN safeStop
     ELSE UNCHANGED <<last, stale, stopped, pending, carrying, received>>
  /\ UNCHANGED <<sessionVars, robotVars>>
-----------------------------------------------------------------------------
(* The robot's socket.  When one closes, the bridge at its other end, if it*)
(* is alive, holds a zero target and connects again.                       *)

RobotEndMayRest == received' \in {received, 0}

(* Bound: one replaced socket at a time. *)
Attach ==
  /\ attached => ~replaced
  /\ attached' = TRUE
  /\ replaced' = (replaced \/ attached)
  /\ RobotEndMayRest
  /\ UNCHANGED <<sessionVars, clients, last, stale, stopped, pending, carrying>>

Detach ==
  /\ attached
  /\ attached' = FALSE
  /\ stopped' = TRUE
  /\ last' = AtRest(last)
  /\ stale' = FALSE
  /\ pending' = PendingAfterStop
  /\ RobotEndMayRest
  /\ UNCHANGED <<sessionVars, clients, replaced, carrying>>

ReplacedCloses ==
  /\ replaced
  /\ replaced' = FALSE
  /\ StopQuietly
  /\ UNCHANGED <<sessionVars, clients, attached>>
-----------------------------------------------------------------------------
(* flushRestDrive: the request under way ends, and the next one begins.    *)

Flushed ==
  /\ carrying # Nothing
  /\ carrying' = pending
  /\ pending' = Nothing
  /\ UNCHANGED <<sessionVars, clients, last, stale, stopped, robotVars>>

Deliver == Flushed /\ received' = carrying.speed

(* The robot is not found, refuses, or does not answer in time.            *)
RequestFails ==
  /\ "request" \in Faults
  /\ Flushed
  /\ received' \in {received, carrying.speed}
-----------------------------------------------------------------------------
(* startDeadmanLoop.                                                       *)

DeadmanOnce == stale /\ last.speed # 0 /\ ~attached
DeadmanDue == stale /\ last.speed # 0

Deadman ==
  /\ DeadmanDue
  /\ safeStop
  /\ UNCHANGED <<sessionVars, clients, robotVars>>

Lapse ==
  /\ ~stale
  /\ stale' = TRUE
  /\ UNCHANGED <<sessionVars, clients, last, stopped, robotVars, pending, carrying, received>>
-----------------------------------------------------------------------------
DriveFrame ==
  \E c \in Clients, wanted \in Wanted, mode \in Modes \cup {NoMode} :
    handleDriveCommand(c, wanted, mode)

ModeChange == \E t \in Tokens, mode \in Modes : SpeedModeRoute(t, mode)

SessionStep ==
  \/ \E t \in Tokens, mode \in Modes, max \in Modes, open \in BOOLEAN :
       authorizePilotSession(t, mode, max, open)
  \/ revokePilotSessions
  \/ \E t \in Tokens : SessionTime(t)
  \/ \E t \in Tokens, mode \in Modes : Offer(t, mode)

Next ==
  \/ SessionStep
  \/ ModeChange
  \/ DriveFrame
  \/ \E c \in Clients, t \in Tokens : Connect(c, t)
  \/ \E c \in Clients : Disconnect(c)
  \/ Attach \/ Detach \/ ReplacedCloses
  \/ Deliver \/ RequestFails
  \/ Deadman \/ Lapse

(* The loop of the deadman and the clock go on, and a request ends. *)
Fairness == WF_vars(Deadman) /\ WF_vars(Lapse) /\ WF_vars(Deliver \/ RequestFails)

Spec == Init /\ [][Next]_vars /\ Fairness
-----------------------------------------------------------------------------
(* Properties.                                                             *)

(* Every variable keeps its type; in particular nothing waits for the REST *)
(* loop while the loop is idle.                                            *)
TypeOK ==
  /\ grant \in [Tokens -> SpeedMode \cup {"none"}]
  /\ sessions \in [Tokens -> Session \cup {Off}]
  /\ clients \in [Clients -> Client \cup {Off}]
  /\ last \in Command
  /\ {stale, stopped, attached, replaced} \subseteq BOOLEAN
  /\ {pending, carrying} \subseteq Command \cup {Nothing}
  /\ received \in Speed
  /\ carrying = Nothing => pending = Nothing

Granted(cmd) ==
  cmd.token # NoToken => LET most == Cap[grant[cmd.token]] IN cmd.speed \in (-most)..most

(* No command exceeds the maximal mode its session was granted, whatever   *)
(* modes phones ask for and whichever session follows (capSpeedMode and    *)
(* makeCommand, by the drive frames, the mode route and the offers).       *)
SpeedsGranted ==
  /\ Granted(last)
  /\ \A cmd \in {pending, carrying} \ {Nothing} : Granted(cmd)

Calm == carrying # Nothing => carrying.speed = 0

(* While telemetry marks the robot as stopped, once the request under way  *)
(* at the stop has ended, no request with a moving command begins and the  *)
(* robot receives nothing but zero, also if it changes between requests    *)
(* and its socket (safeStop drops pendingRestDrive).                       *)
StoppedStays ==
  [][stopped /\ stopped' /\ Calm => Calm' /\ received' \in {received, 0}]_vars

(* If frames and mode changes cease, the last command becomes zero and     *)
(* stays zero (startDeadmanLoop).                                          *)
SilenceStops == <>[][~DriveFrame /\ ~ModeChange]_vars => <>[](last.speed = 0)

Settled == carrying = Nothing /\ \A c \in Clients : clients[c] # Off => clients[c].listed

(* The guide to the race harness: if the phone disconnects or its frames   *)
(* stop, the sidecar forwards a zero-speed command and marks telemetry as  *)
(* stopped.  So when no request is under way and every channel closed by   *)
(* the sidecar has reported its end, a robot left with a moving command is *)
(* still watched by the deadman, which looks at lastCommand, or is marked  *)
(* (authorizePilotSession and Disconnect).  It does not hold when a        *)
(* session is issued over a WebRTC pilot who is driving.                   *)
MotionWatched == Settled /\ received # 0 => last.speed # 0 \/ stopped
=============================================================================
