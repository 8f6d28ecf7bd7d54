---------------------------- MODULE Sidecar_proofs ----------------------------
(* Theorems about two parts of the sidecar: RobotLink, for every number of *)
(* tokens and channels, every table of caps and every speed phones ask for,*)
(* and NativeRoom, for every number of rounds, drivers, calls, races and   *)
(* transactions.                                                           *)
EXTENDS RobotLink, NativeRoom, SequenceTheorems, TLAPS

(* A command that a session was granted: its token was issued with a mode, *)
(* g, whose cap its speed keeps to.  The first command has no token.       *)
Issued(cmd, g) ==
  /\ cmd \in Command
  /\ cmd.token # NoToken =>
       /\ g[cmd.token] \in SpeedMode
       /\ cmd.speed \in (-Cap[g[cmd.token]])..Cap[g[cmd.token]]

Held(cmd, g) == cmd = Nothing \/ Issued(cmd, g)

CommandsIssued ==
  /\ Issued(last, grant)
  /\ Held(pending, grant)
  /\ Held(carrying, grant)

(* A session keeps the mode its token was issued with and drives in none   *)
(* above it.                                                               *)
SessionsWithin ==
  \A t \in Tokens : sessions[t] # Off =>
    /\ sessions[t].max = grant[t]
    /\ Rank[sessions[t].mode] <= Rank[sessions[t].max]

(* While telemetry marks the robot as stopped, the last command and the one*)
(* that waits for the REST loop are at rest.                               *)
RestWhileStopped == stopped => last.speed = 0 /\ (pending # Nothing => pending.speed = 0)

(* The invariant the proofs carry through every step.  SpeedsGranted alone *)
(* is not inductive: a later command keeps to the grant only because the   *)
(* sessions do, and an earlier one only because no token is issued twice.  *)
IInv == TypeOK /\ CommandsIssued /\ SessionsWithin /\ RestWhileStopped
-----------------------------------------------------------------------------
(* The lemmas about modes and commands.                                    *)

LEMMA CapFacts ==
  ASSUME NEW mode \in SpeedMode
  PROVE  Cap[mode] \in Nat /\ Cap[mode] <= Full /\ Full \in Nat /\ Full > 0
  BY LinkAssumption DEF SpeedMode

(* The mode a request is answered with is one of the three and not above   *)
(* the maximal mode of the session.                                        *)
LEMMA CapSpeedMode ==
  ASSUME NEW mode \in SpeedMode, NEW max \in SpeedMode
  PROVE  /\ capSpeedMode(mode, max) \in SpeedMode
         /\ Rank[capSpeedMode(mode, max)] <= Rank[max]
  BY DEF capSpeedMode, SpeedMode, Rank

(* A mode that is not above another has no higher cap.                     *)
LEMMA RankCap ==
  ASSUME NEW mode \in SpeedMode, NEW max \in SpeedMode, Rank[mode] <= Rank[max]
  PROVE  Cap[mode] <= Cap[max]
  <1>1. /\ Cap["low"] \in Nat /\ Cap["medium"] \in Nat /\ Cap["high"] \in Nat
        /\ Cap["low"] <= Cap["medium"] /\ Cap["medium"] <= Cap["high"]
    BY LinkAssumption
  <1> QED BY <1>1 DEF SpeedMode, Rank

(* Scaling a full speed down to a cap keeps within the cap.                *)
LEMMA ScaleFacts ==
  ASSUME NEW full \in Nat, full > 0, NEW cap \in Nat, NEW s \in (-full)..full
  PROVE  (s * cap) \div full \in (-cap)..cap
  <1> DEFINE n == s * cap
             q == n \div full
  <1>1. n \in Int /\ q \in Int
    OBVIOUS
  <1>2. -(full * cap) <= n /\ n <= full * cap
    OBVIOUS
  <1>3. full * q <= n /\ n < full * (q + 1)
    BY <1>1
  <1>4. ~(q > cap)
    <2> SUFFICES ASSUME q >= cap + 1 PROVE FALSE
      BY <1>1
    <2>1. full * q >= full * (cap + 1)
      BY <1>1
    <2>2. full * (cap + 1) = full * cap + full
      OBVIOUS
    <2> QED BY <1>1, <1>2, <1>3, <2>1, <2>2
  <1>5. ~(q < -cap)
    <2> SUFFICES ASSUME q + 1 <= -cap PROVE FALSE
      BY <1>1
    <2>1. full * (q + 1) <= full * (-cap)
      BY <1>1
    <2>2. full * (-cap) = -(full * cap)
      OBVIOUS
    <2> QED BY <1>1, <1>2, <1>3, <2>1, <2>2
  <1> QED BY <1>1, <1>4, <1>5
(* The command made for a session keeps to the session's grant, and a      *)
(* command to rest stays at rest (makeCommand).                            *)
LEMMA MakeCommand ==
  ASSUME NEW g \in [Tokens -> SpeedMode \cup {"none"}], NEW t \in Tokens, NEW mode \in SpeedMode,
         NEW speed \in Int, g[t] \in SpeedMode, Rank[mode] <= Rank[g[t]]
  PROVE  /\ Issued(makeCommand(t, mode, speed), g)
         /\ speed = 0 => makeCommand(t, mode, speed).speed = 0
  <1> DEFINE cmd == makeCommand(t, mode, speed)
  <1>1. /\ Cap[mode] \in Nat /\ Cap[mode] <= Full /\ Full \in Nat /\ Full > 0
        /\ Cap[g[t]] \in Nat /\ Cap[mode] <= Cap[g[t]]
    BY CapFacts, RankCap
  <1>2. Clamp(speed) \in (-Full)..Full /\ (speed = 0 => Clamp(speed) = 0)
    BY <1>1 DEF Clamp
  <1>3. (Clamp(speed) * Cap[mode]) \div Full \in (-Cap[mode])..Cap[mode]
    BY <1>1, <1>2, ScaleFacts
  <1>4. cmd.token = t /\ cmd.speed = (Clamp(speed) * Cap[mode]) \div Full
    BY DEF makeCommand
  <1>5. cmd \in Command
    BY <1>1, <1>3 DEF makeCommand, Command, Speed
  <1>6. cmd.speed \in (-Cap[g[t]])..Cap[g[t]]
    BY <1>1, <1>3, <1>4
  <1>7. ASSUME speed = 0
        PROVE  cmd.speed = 0
    <2>1. Clamp(speed) * Cap[mode] = 0
      BY <1>1, <1>2, <1>7
    <2> QED BY <1>1, <1>4, <2>1
  <1> QED BY <1>4, <1>5, <1>6, <1>7 DEF Issued

(* Resting keeps a command issued (safeStop).                              *)
LEMMA RestFacts ==
  ASSUME NEW g, NEW cmd, Issued(cmd, g)
  PROVE  Issued(AtRest(cmd), g) /\ AtRest(cmd).speed = 0
  <1>1. /\ cmd \in Command /\ AtRest(cmd).token = cmd.token /\ AtRest(cmd).speed = 0
        /\ AtRest(cmd) \in [token : Tokens \cup {NoToken}, speed : {0}]
    BY DEF Issued, Command, AtRest
  <1>2. 0 \in Speed
    BY LinkAssumption DEF Speed
  <1>3. AtRest(cmd) \in Command
    BY <1>1, <1>2 DEF Command
  <1>4. ASSUME cmd.token # NoToken
        PROVE  g[cmd.token] \in SpeedMode /\ 0 \in (-Cap[g[cmd.token]])..Cap[g[cmd.token]]
    BY <1>4, CapFacts DEF Issued
  <1> QED BY <1>1, <1>3, <1>4 DEF Issued

(* A token is issued once, so a later grant changes no earlier command.    *)
LEMMA GrantKeepsHeld ==
  ASSUME NEW g \in [Tokens -> SpeedMode \cup {"none"}], NEW t \in Tokens, NEW max,
         g[t] = "none", NEW h, h = [g EXCEPT ![t] = max], NEW cmd, Held(cmd, g)
  PROVE  Held(cmd, h)
  <1>1. Issued(cmd, g) /\ cmd.token # NoToken => cmd.token \in Tokens /\ cmd.token # t
    BY DEF Issued, Command, SpeedMode
  <1> QED BY <1>1 DEF Held, Issued

(* What a command handed to the robot or to the REST loop leaves behind    *)
(* (sendToRobot and flushRestDrive).                                       *)
LEMMA SendFacts ==
  ASSUME NEW g, NEW cmd, Issued(cmd, g), NEW left, Held(left, g),
         carrying = Nothing => left = Nothing,
         Held(pending, g), Held(carrying, g), received \in Speed, Send(cmd, left)
  PROVE  /\ Held(pending', g) /\ Held(carrying', g) /\ received' \in Speed
         /\ carrying' = Nothing => pending' = Nothing
         /\ pending' \in {left, cmd}
         /\ \/ received' = cmd.speed /\ carrying' = carrying
            \/ received' = received /\ carrying' \in {carrying, cmd}
  BY DEF Send, Held, Issued, Command
-----------------------------------------------------------------------------
(* The inductive invariant.                                                *)

LEMMA InitIInv == Init => IInv
  <1> SUFFICES ASSUME Init PROVE IInv
    OBVIOUS
  <1>1. 0 \in Speed
    BY LinkAssumption DEF Speed
  <1>2. last \in Command /\ last.token = NoToken /\ last.speed = 0
    BY <1>1 DEF Init, Command
  <1>3. TypeOK
    BY <1>1, <1>2 DEF Init, TypeOK
  <1>4. CommandsIssued
    BY <1>2 DEF Init, CommandsIssued, Issued, Held
  <1>5. SessionsWithin /\ RestWhileStopped
    BY DEF Init, SessionsWithin, RestWhileStopped
  <1> QED BY <1>3, <1>4, <1>5 DEF IInv

(* A session whose mode changes to one that is granted to it.              *)
LEMMA SessionMode ==
  ASSUME IInv, NEW t \in Tokens, sessions[t] # Off, NEW mode \in SpeedMode,
         Rank[mode] <= Rank[sessions[t].max],
         sessions' = [sessions EXCEPT ![t].mode = mode], UNCHANGED grant
  PROVE  sessions' \in [Tokens -> Session \cup {Off}] /\ SessionsWithin'
  <1>1. /\ sessions \in [Tokens -> Session \cup {Off}] /\ sessions[t] \in Session
        /\ sessions[t].max = grant[t]
    BY DEF IInv, TypeOK, SessionsWithin
  <1> DEFINE s == [sessions[t] EXCEPT !.mode = mode]
  <1>2. s \in Session /\ s.mode = mode /\ s.max = sessions[t].max
    BY <1>1 DEF Session
  <1>3. sessions' = [sessions EXCEPT ![t] = s]
    BY <1>1
  <1> HIDE DEF s
  <1>4. sessions' \in [Tokens -> Session \cup {Off}]
    BY <1>1, <1>2, <1>3
  <1>5. ASSUME NEW x \in Tokens, sessions'[x] # Off
        PROVE  sessions'[x].max = grant[x] /\ Rank[sessions'[x].mode] <= Rank[sessions'[x].max]
    BY <1>1, <1>2, <1>3, <1>5 DEF IInv, SessionsWithin
  <1> QED BY <1>4, <1>5 DEF SessionsWithin

(* The mode a session is asked for, or keeps, is one of its own.           *)
LEMMA AskedFacts ==
  ASSUME IInv, NEW t \in Tokens, sessions[t] # Off, NEW mode \in Modes \cup {NoMode}
  PROVE  /\ Asked(sessions[t], mode) \in SpeedMode
         /\ Rank[Asked(sessions[t], mode)] <= Rank[sessions[t].max]
         /\ sessions[t].max = grant[t] /\ grant[t] \in SpeedMode
  <1>1. /\ sessions[t] \in Session /\ sessions[t].max = grant[t]
        /\ Rank[sessions[t].mode] <= Rank[sessions[t].max]
    BY DEF IInv, TypeOK, SessionsWithin
  <1>2. sessions[t].mode \in SpeedMode /\ sessions[t].max \in SpeedMode
    BY <1>1 DEF Session
  <1>3. CASE mode = NoMode
    BY <1>1, <1>2, <1>3 DEF Asked
  <1>4. CASE mode # NoMode
    <2>1. mode \in SpeedMode
      BY <1>4, LinkAssumption DEF SpeedMode
    <2> QED BY <1>1, <1>2, <1>4, <2>1, CapSpeedMode DEF Asked
  <1> QED BY <1>3, <1>4

(* The steps that leave the commands alone.                                *)
LEMMA QuietIInv ==
  ASSUME IInv, clients' \in [Clients -> Client \cup {Off}], stale' \in BOOLEAN, stopped' \in BOOLEAN,
         stopped' => stopped, attached' \in BOOLEAN, replaced' \in BOOLEAN, received' \in Speed,
         sessions' \in [Tokens -> Session \cup {Off}], SessionsWithin',
         UNCHANGED <<grant, last, pending, carrying>>
  PROVE  IInv'
  <1>1. TypeOK'
    BY DEF IInv, TypeOK
  <1>2. CommandsIssued'
    BY DEF IInv, CommandsIssued
  <1>3. RestWhileStopped'
    BY DEF IInv, RestWhileStopped
  <1> QED BY <1>1, <1>2, <1>3 DEF IInv

LEMMA UnlistedType ==
  ASSUME IInv
  PROVE  Unlisted \in [Clients -> Client \cup {Off}]
  <1>1. ASSUME NEW c \in Clients, clients[c] # Off
        PROVE  [clients[c] EXCEPT !.listed = FALSE] \in Client
    <2>1. clients[c] \in Client
      BY <1>1 DEF IInv, TypeOK
    <2> QED BY <2>1 DEF Client
  <1> QED BY <1>1 DEF Unlisted

LEMMA AuthorizeIInv ==
  ASSUME IInv, NEW t \in Tokens, NEW mode \in Modes, NEW max \in Modes, NEW open \in BOOLEAN,
         authorizePilotSession(t, mode, max, open)
  PROVE  IInv'
  <1>1. mode \in SpeedMode /\ max \in SpeedMode
    BY LinkAssumption DEF SpeedMode
  <1> DEFINE granted == capSpeedMode(mode, max)
  <1>2. granted \in SpeedMode /\ Rank[granted] <= Rank[max]
    BY <1>1, CapSpeedMode
  <1>3. /\ grant \in [Tokens -> SpeedMode \cup {"none"}]
        /\ grant' \in [Tokens -> SpeedMode \cup {"none"}]
        /\ grant[t] = "none" /\ grant'[t] = max
    BY <1>1 DEF IInv, TypeOK, authorizePilotSession
  <1>4. Issued(last', grant') /\ last'.speed = 0
    <2>1. last' = makeCommand(t, granted, 0)
      BY DEF authorizePilotSession
    <2>2. grant'[t] \in SpeedMode /\ Rank[granted] <= Rank[grant'[t]]
      BY <1>1, <1>2, <1>3
    <2> HIDE DEF granted
    <2> QED BY <1>2, <1>3, <2>1, <2>2, MakeCommand
  <1>5. Held(pending', grant') /\ Held(carrying', grant')
    <2>1. /\ UNCHANGED <<pending, carrying>> /\ grant' = [grant EXCEPT ![t] = max]
          /\ Held(pending, grant) /\ Held(carrying, grant)
      BY DEF IInv, CommandsIssued, authorizePilotSession
    <2> QED BY <1>3, <2>1, GrantKeepsHeld
  <1>6. SessionsWithin' /\ sessions' \in [Tokens -> Session \cup {Off}]
    <2> DEFINE s == [mode |-> granted, max |-> max, open |-> open]
    <2>1. s \in Session /\ s.max = max /\ s.mode = granted
      BY <1>1, <1>2 DEF Session
    <2>2. sessions' = [x \in Tokens |-> IF x = t THEN s ELSE Off]
      BY DEF authorizePilotSession
    <2> HIDE DEF s
    <2>3. sessions' \in [Tokens -> Session \cup {Off}]
      BY <2>1, <2>2
    <2>4. \A x \in Tokens : sessions'[x] # Off => x = t /\ sessions'[x] = s
      BY <2>2
    <2> QED BY <1>2, <1>3, <2>1, <2>3, <2>4 DEF SessionsWithin
  <1>7. TypeOK'
    BY <1>3, <1>4, <1>6, UnlistedType DEF IInv, TypeOK, authorizePilotSession, Issued, robotVars
  <1>8. CommandsIssued' /\ RestWhileStopped'
    BY <1>4, <1>5 DEF CommandsIssued, RestWhileStopped, authorizePilotSession
  <1> QED BY <1>6, <1>7, <1>8 DEF IInv

(* A drive frame and a mode change make a command and send it.             *)
LEMMA IssueIInv ==
  ASSUME IInv, NEW t \in Tokens, sessions[t] # Off, NEW mode \in SpeedMode,
         Rank[mode] <= Rank[sessions[t].max], NEW speed \in Int,
         sessions' = [sessions EXCEPT ![t].mode = mode],
         Issue(makeCommand(t, mode, speed)),
         \/ stopped' = FALSE
         \/ stopped' = stopped /\ (stopped => speed = 0),
         UNCHANGED <<grant, clients, robotVars>>
  PROVE  IInv'
  <1> DEFINE cmd == makeCommand(t, mode, speed)
  <1>1. /\ grant \in [Tokens -> SpeedMode \cup {"none"}]
        /\ sessions[t].max = grant[t] /\ grant[t] \in SpeedMode
    <2>1. sessions[t] \in Session /\ sessions[t].max = grant[t]
      BY DEF IInv, TypeOK, SessionsWithin
    <2> QED BY <2>1 DEF IInv, TypeOK, Session
  <1>2. Issued(cmd, grant) /\ (speed = 0 => cmd.speed = 0)
    BY <1>1, MakeCommand
  <1> HIDE DEF cmd
  <1>3. last' = cmd /\ stale' = FALSE /\ Send(cmd, pending)
    BY DEF Issue, cmd
  <1>4. /\ Held(pending, grant) /\ Held(carrying, grant) /\ received \in Speed
        /\ carrying = Nothing => pending = Nothing
    BY DEF IInv, TypeOK, CommandsIssued
  <1>5. /\ Held(pending', grant) /\ Held(carrying', grant) /\ received' \in Speed
        /\ carrying' = Nothing => pending' = Nothing
        /\ pending' \in {pending, cmd}
    BY <1>2, <1>3, <1>4, SendFacts
  <1>6. sessions' \in [Tokens -> Session \cup {Off}] /\ SessionsWithin'
    BY SessionMode
  <1>7. TypeOK'
    BY <1>2, <1>3, <1>5, <1>6 DEF IInv, TypeOK, Issued, Held, robotVars
  <1>8. CommandsIssued'
    BY <1>2, <1>3, <1>5 DEF CommandsIssued
  <1>9. RestWhileStopped'
    BY <1>2, <1>3, <1>5 DEF IInv, RestWhileStopped
  <1> QED BY <1>6, <1>7, <1>8, <1>9 DEF IInv

LEMMA DriveIInv ==
  ASSUME IInv, DriveFrame \/ ModeChange
  PROVE  IInv'
  <1>1. ASSUME NEW c \in Clients, NEW wanted \in Wanted, NEW mode \in Modes \cup {NoMode},
               handleDriveCommand(c, wanted, mode)
        PROVE  IInv'
    <2> DEFINE t == clients[c].token
    <2>1. t \in Tokens /\ wanted \in Int
      <3>1. clients[c] \in Client
        BY <1>1 DEF IInv, TypeOK, handleDriveCommand
      <3> QED BY <3>1, LinkAssumption DEF Client
    <2>2. sessions[t] # Off
      BY <1>1 DEF handleDriveCommand
    <2>3. Asked(sessions[t], mode) \in SpeedMode
          /\ Rank[Asked(sessions[t], mode)] <= Rank[sessions[t].max]
      BY <2>1, <2>2, AskedFacts
    <2> QED BY <1>1, <2>1, <2>2, <2>3, IssueIInv DEF handleDriveCommand
  <1>2. ASSUME NEW t \in Tokens, NEW mode \in Modes, SpeedModeRoute(t, mode)
        PROVE  IInv'
    <2> DEFINE granted == capSpeedMode(mode, sessions[t].max)
    <2>1. sessions[t] # Off /\ sessions[t] \in Session
      BY <1>2 DEF IInv, TypeOK, SpeedModeRoute
    <2>2. mode \in SpeedMode /\ sessions[t].max \in SpeedMode
      BY <2>1, LinkAssumption DEF Session, SpeedMode
    <2>3. granted \in SpeedMode /\ Rank[granted] <= Rank[sessions[t].max]
      BY <2>2, CapSpeedMode
    <2>4. last.speed \in Int /\ (stopped => last.speed = 0)
      BY LinkAssumption DEF IInv, TypeOK, Command, Speed, RestWhileStopped
    <2> QED BY <1>2, <2>1, <2>3, <2>4, IssueIInv DEF SpeedModeRoute
  <1> QED BY <1>1, <1>2 DEF DriveFrame, ModeChange

(* The ways the sidecar stops the robot.                                   *)
LEMMA StopFacts ==
  ASSUME IInv, safeStop \/ StopQuietly
  PROVE  /\ Issued(last', grant) /\ last'.speed = 0
         /\ Held(pending', grant) /\ Held(carrying', grant) /\ received' \in Speed
         /\ carrying' = Nothing => pending' = Nothing
         /\ pending' # Nothing => pending'.speed = 0
         /\ stopped' = TRUE /\ stale' = FALSE
  <1>1. Issued(last, grant) /\ Held(carrying, grant) /\ Held(pending, grant) /\ received \in Speed
    BY DEF IInv, TypeOK, CommandsIssued
  <1>2. Issued(AtRest(last), grant) /\ AtRest(last).speed = 0
    BY <1>1, RestFacts
  <1>3. CASE StopQuietly
    BY <1>1, <1>2, <1>3 DEF StopQuietly, PendingAfterStop, Held
  <1>4. CASE safeStop
    <2>1. Held(Nothing, grant) /\ Send(AtRest(last), Nothing) /\ last' = AtRest(last)
          /\ stopped' = TRUE /\ stale' = FALSE
      BY <1>4 DEF safeStop, PendingAfterStop, Held
    <2>2. /\ Held(pending', grant) /\ Held(carrying', grant) /\ received' \in Speed
          /\ carrying' = Nothing => pending' = Nothing
          /\ pending' \in {Nothing, AtRest(last)}
      BY <1>1, <1>2, <2>1, SendFacts
    <2> QED BY <1>2, <2>1, <2>2
  <1> QED BY <1>3, <1>4

LEMMA StopIInv ==
  ASSUME IInv, Issued(last', grant), last'.speed = 0,
         Held(pending', grant), Held(carrying', grant), received' \in Speed,
         carrying' = Nothing => pending' = Nothing,
         pending' # Nothing => pending'.speed = 0,
         stale' \in BOOLEAN, stopped' \in BOOLEAN,
         attached' \in BOOLEAN, replaced' \in BOOLEAN,
         clients' \in [Clients -> Client \cup {Off}],
         \/ UNCHANGED sessions
         \/ sessions' = [t \in Tokens |-> Off],
         UNCHANGED grant
  PROVE  IInv'
  <1>1. SessionsWithin' /\ sessions' \in [Tokens -> Session \cup {Off}]
    BY DEF IInv, TypeOK, SessionsWithin
  <1>2. TypeOK'
    BY <1>1 DEF IInv, TypeOK, Issued, Held
  <1>3. CommandsIssued' /\ RestWhileStopped'
    BY DEF CommandsIssued, RestWhileStopped
  <1> QED BY <1>1, <1>2, <1>3 DEF IInv
LEMMA SessionStepIInv ==
  ASSUME IInv, SessionStep
  PROVE  IInv'
  <1>1. ASSUME NEW t \in Tokens, SessionTime(t)
        PROVE  IInv'
    <2>1. sessions' \in [Tokens -> Session \cup {Off}] /\ SessionsWithin'
      <3>1. sessions[t] \in Session /\ sessions \in [Tokens -> Session \cup {Off}]
        BY <1>1 DEF IInv, TypeOK, SessionTime
      <3>2. CASE sessions' = [sessions EXCEPT ![t] = Off]
        BY <1>1, <3>1, <3>2 DEF IInv, SessionsWithin, SessionTime
      <3>3. CASE sessions' = [sessions EXCEPT ![t].open = TRUE]
        <4> DEFINE s == [sessions[t] EXCEPT !.open = TRUE]
        <4>1. s \in Session /\ s.mode = sessions[t].mode /\ s.max = sessions[t].max
          BY <3>1 DEF Session
        <4>2. sessions' = [sessions EXCEPT ![t] = s]
          BY <3>3
        <4> HIDE DEF s
        <4> QED BY <1>1, <3>1, <4>1, <4>2 DEF IInv, SessionsWithin, SessionTime
      <3> QED BY <1>1, <3>2, <3>3 DEF SessionTime
    <2> QED BY <1>1, <2>1, QuietIInv DEF IInv, TypeOK, SessionTime, robotVars
  <1>2. ASSUME NEW t \in Tokens, NEW mode \in Modes, Offer(t, mode)
        PROVE  IInv'
    <2>1. sessions' \in [Tokens -> Session \cup {Off}] /\ SessionsWithin'
      BY <1>2, AskedFacts, SessionMode DEF Offer
    <2> QED BY <1>2, <2>1, QuietIInv DEF IInv, TypeOK, Offer, robotVars
  <1>3. CASE revokePilotSessions
    BY <1>3, StopFacts, StopIInv, UnlistedType DEF revokePilotSessions, robotVars, IInv, TypeOK
  <1> QED BY <1>1, <1>2, <1>3, AuthorizeIInv DEF SessionStep

LEMMA ChannelIInv ==
  ASSUME IInv, NEW c \in Clients, NEW t \in Tokens, Connect(c, t) \/ Disconnect(c)
  PROVE  IInv'
  <1>1. clients \in [Clients -> Client \cup {Off}]
        /\ clients' \in [Clients -> Client \cup {Off}]
    <2>1. [token |-> t, listed |-> TRUE] \in Client
      BY DEF Client
    <2> QED BY <2>1 DEF IInv, TypeOK, Connect, Disconnect
  <1>2. SessionsWithin' /\ UNCHANGED sessionVars
    BY DEF Connect, Disconnect, sessionVars, IInv, SessionsWithin
  <1>3. CASE safeStop /\ UNCHANGED robotVars
    BY <1>1, <1>2, <1>3, StopFacts, StopIInv DEF sessionVars, robotVars, IInv, TypeOK
  <1>4. CASE UNCHANGED <<last, pending, carrying, received, robotVars>>
             /\ stopped' \in BOOLEAN /\ (stopped' => stopped) /\ stale' = stale
    BY <1>1, <1>2, <1>4, QuietIInv DEF sessionVars, robotVars, IInv, TypeOK
  <1> QED BY <1>3, <1>4 DEF Connect, Disconnect, IInv, TypeOK

LEMMA RobotStepIInv ==
  ASSUME IInv, \/ Attach \/ Detach \/ ReplacedCloses
               \/ Deliver \/ RequestFails
               \/ Deadman \/ Lapse
               \/ UNCHANGED vars
  PROVE  IInv'
  <1>1. /\ 0 \in Speed /\ received \in Speed
        /\ attached \in BOOLEAN /\ replaced \in BOOLEAN /\ stale \in BOOLEAN /\ stopped \in BOOLEAN
        /\ clients \in [Clients -> Client \cup {Off}]
        /\ sessions \in [Tokens -> Session \cup {Off}] /\ SessionsWithin
    BY LinkAssumption DEF IInv, TypeOK, Speed
  <1>2. CASE Attach \/ Lapse \/ UNCHANGED vars
    <2>1. SessionsWithin' /\ UNCHANGED <<sessions, grant, clients, last, pending, carrying>>
      BY <1>1, <1>2 DEF Attach, Lapse, vars, sessionVars, SessionsWithin
    <2>2. /\ attached' \in BOOLEAN /\ replaced' \in BOOLEAN /\ stale' \in BOOLEAN
          /\ stopped' = stopped /\ received' \in {received, 0}
      BY <1>1, <1>2 DEF Attach, RobotEndMayRest, Lapse, vars, robotVars
    <2> QED BY <1>1, <2>1, <2>2, QuietIInv
  <1>3. CASE Deadman
    BY <1>1, <1>3, StopFacts, StopIInv DEF Deadman, sessionVars, robotVars
  <1>4. CASE ReplacedCloses
    BY <1>1, <1>4, StopFacts, StopIInv DEF ReplacedCloses, sessionVars
  <1>5. CASE Detach
    <2>1. Issued(AtRest(last), grant) /\ AtRest(last).speed = 0 /\ Held(carrying, grant)
      BY RestFacts DEF IInv, CommandsIssued
    <2>2. Held(pending', grant) /\ pending' = Nothing
      BY <1>5 DEF Detach, PendingAfterStop, Held
    <2> QED BY <1>1, <1>5, <2>1, <2>2, StopIInv DEF Detach, RobotEndMayRest, sessionVars
  <1>6. CASE Deliver \/ RequestFails
    <2>1. /\ carrying # Nothing /\ carrying' = pending /\ pending' = Nothing
          /\ UNCHANGED <<grant, sessions, clients, last, stale, stopped, attached, replaced>>
          /\ received' \in {received, carrying.speed}
      BY <1>6 DEF Deliver, RequestFails, Flushed, sessionVars, robotVars
    <2>2. carrying \in Command
      BY <2>1 DEF IInv, TypeOK
    <2>3. received' \in Speed
      BY <1>1, <2>1, <2>2 DEF Command
    <2>4. TypeOK'
      BY <2>1, <2>3 DEF IInv, TypeOK
    <2>5. CommandsIssued' /\ SessionsWithin' /\ RestWhileStopped'
      BY <2>1 DEF IInv, CommandsIssued, Held, SessionsWithin, RestWhileStopped
    <2> QED BY <2>4, <2>5 DEF IInv
  <1> QED BY <1>2, <1>3, <1>4, <1>5, <1>6

LEMMA NextIInv == IInv /\ [Next]_vars => IInv'
  <1> SUFFICES ASSUME IInv, [Next]_vars PROVE IInv'
    OBVIOUS
  <1>1. CASE SessionStep
    BY <1>1, SessionStepIInv
  <1>2. CASE ModeChange \/ DriveFrame
    BY <1>2, DriveIInv
  <1>3. CASE \E c \in Clients, t \in Tokens : Connect(c, t)
    BY <1>3, ChannelIInv
  <1>4. ASSUME NEW c \in Clients, Disconnect(c)
        PROVE  IInv'
    <2>1. clients[c].token \in Tokens
      BY <1>4 DEF Disconnect, IInv, TypeOK, Client
    <2> QED BY <1>4, <2>1, ChannelIInv
  <1> QED BY <1>1, <1>2, <1>3, <1>4, RobotStepIInv DEF Next

-----------------------------------------------------------------------------
(* The invariant, in every behaviour of the link.                          *)
THEOREM InvariantHolds == Spec => []IInv
  BY InitIInv, NextIInv, PTL DEF Spec

(* Every variable keeps its type; in particular no command waits for the   *)
(* REST loop while the loop is idle, where nothing would send it.          *)
THEOREM TypeCorrect == Spec => []TypeOK
  <1>1. IInv => TypeOK
    BY DEF IInv
  <1> QED BY <1>1, InvariantHolds, PTL

(* No command, sent, waiting or last, exceeds the maximal mode its session *)
(* was granted, whatever modes phones ask for and whichever session follows*)
(* (capSpeedMode and makeCommand).                                         *)
THEOREM GrantsKept == Spec => []SpeedsGranted
  <1>1. IInv => SpeedsGranted
    BY DEF IInv, CommandsIssued, Held, Issued, SpeedsGranted, Granted
  <1> QED BY <1>1, InvariantHolds, PTL
-----------------------------------------------------------------------------
(* The stop.                                                               *)

LEMMA StoppedStep ==
  ASSUME IInv, [Next]_vars, stopped, stopped', Calm
  PROVE  Calm' /\ received' \in {received, 0}
  <1>1. /\ last.speed = 0 /\ (pending # Nothing => pending.speed = 0)
        /\ Issued(last, grant) /\ AtRest(last).speed = 0
    BY RestFacts DEF IInv, CommandsIssued, RestWhileStopped
  <1>2. ASSUME NEW cmd, cmd.speed = 0, NEW left, Send(cmd, left)
        PROVE  Calm' /\ received' \in {received, 0}
    BY <1>2 DEF Send, Calm
  <1>3. ASSUME UNCHANGED carrying, received' \in {received, 0}
        PROVE  Calm' /\ received' \in {received, 0}
    BY <1>3 DEF Calm
  <1>4. CASE SessionStep
    BY <1>1, <1>2, <1>3, <1>4
       DEF SessionStep, authorizePilotSession, revokePilotSessions, safeStop, SessionTime, Offer
  <1>5. ASSUME NEW t \in Tokens, NEW mode \in Modes, SpeedModeRoute(t, mode)
        PROVE  Calm' /\ received' \in {received, 0}
    <2> DEFINE granted == capSpeedMode(mode, sessions[t].max)
    <2>1. sessions[t] \in Session /\ sessions[t].max = grant[t] /\ grant \in [Tokens -> SpeedMode \cup {"none"}]
      BY <1>5 DEF IInv, TypeOK, SessionsWithin, SpeedModeRoute
    <2>2. mode \in SpeedMode /\ sessions[t].max \in SpeedMode
      BY <2>1, LinkAssumption DEF Session, SpeedMode
    <2>3. granted \in SpeedMode /\ Rank[granted] <= Rank[grant[t]]
      BY <2>1, <2>2, CapSpeedMode
    <2>4. makeCommand(t, granted, last.speed).speed = 0
      BY <1>1, <2>1, <2>2, <2>3, MakeCommand
    <2>5. Send(makeCommand(t, granted, last.speed), pending)
      BY <1>5 DEF SpeedModeRoute, Issue
    <2> HIDE DEF granted
    <2> QED BY <1>2, <2>4, <2>5
  <1>6. ~DriveFrame
    BY DEF DriveFrame, handleDriveCommand
  <1>7. CASE \E c \in Clients, t \in Tokens : Connect(c, t)
    BY <1>3, <1>7 DEF Connect
  <1>8. CASE \E c \in Clients : Disconnect(c)
    BY <1>1, <1>2, <1>3, <1>8 DEF Disconnect, safeStop
  <1>9. CASE Attach \/ Detach \/ ReplacedCloses \/ Lapse \/ UNCHANGED vars
    BY <1>3, <1>9 DEF Attach, Detach, ReplacedCloses, StopQuietly, RobotEndMayRest, Lapse, vars
  <1>10. CASE Deliver \/ RequestFails
    BY <1>1, <1>10 DEF Deliver, RequestFails, Flushed, Calm
  <1>11. CASE Deadman
    BY <1>1, <1>2, <1>11 DEF Deadman, safeStop
  <1> QED BY <1>4, <1>5, <1>6, <1>7, <1>8, <1>9, <1>10, <1>11 DEF Next, ModeChange

(* While telemetry marks the robot as stopped, once the request under way  *)
(* at the stop has ended, the robot receives nothing but zero, whichever   *)
(* way commands reach it (safeStop, sendToRobot and flushRestDrive).       *)
THEOREM StoppedRobotStays == Spec => StoppedStays
  <1>1. IInv /\ [Next]_vars =>
          [stopped /\ stopped' /\ Calm => Calm' /\ received' \in {received, 0}]_vars
    BY StoppedStep
  <1> QED BY <1>1, InvariantHolds, PTL DEF Spec, StoppedStays
-----------------------------------------------------------------------------
(* NativeRoom.                                                             *)

(* The statuses of a race that has once been "at", or been cancelled.      *)
Reached(at) ==
  CASE at = "Created" -> RaceStatus \ {"None"}
    [] at = "Joined" -> RaceStatus \ {"None", "Created"}
    [] at = "Locked" -> {"Locked", "Started", "Finished", "Settled", "Canceled"}
    [] at = "Started" -> {"Started", "Finished", "Settled", "Canceled"}
    [] at = "Finished" -> {"Finished", "Settled", "Canceled"}
    [] at = "Settled" -> {"Settled", "Canceled"}

(* What a round says of its race, what a transaction needs and what it     *)
(* does.                                                                   *)
Claim == [opened |-> "Created", joined |-> "Joined", locked |-> "Locked", started |-> "Started",
          finished |-> "Finished", settled |-> "Settled", canceled |-> "Created"]

Needs == [lock |-> "Joined", start |-> "Locked", finish |-> "Started", settle |-> "Finished",
          cancel |-> "Created"]

MarkOps == {"lock", "start", "finish", "settle", "cancel"}

(* Of a round's own parts: only what has ended has a winner, stakes are    *)
(* authorized by joining, and what is ready has two drivers who joined.    *)
Shaped(rd) ==
  /\ rd.status \in {"finished", "settled"} => rd.winner # NoWinner
  /\ rd.winner # NoWinner => rd.status \in {"finished", "settled", "canceled"}
  /\ \A s \in Slot : rd.drivers[s].stakeAuthorized => rd.drivers[s].chainJoined
  /\ rd.status \in {"ready", "locked", "countdown", "racing"} =>
       \A s \in Slot : rd.drivers[s].chainJoined

(* A round without a race says nothing of one. *)
Detached(rd) ==
  /\ rd.chainStatus = "not-opened"
  /\ \A s \in Slot : ~rd.drivers[s].chainJoined

(* What a round says of its race has been so: its chainStatus, the lock of *)
(* a round that runs, and the entries of those who joined.                 *)
Claims(rd, race) ==
  /\ rd.chainStatus # "not-opened"
  /\ raceStatus[race] \in Reached(Claim[rd.chainStatus])
  /\ rd.status \in {"locked", "countdown", "racing"} => raceStatus[race] \in Reached("Locked")
  /\ \A s \in Slot : rd.drivers[s].chainJoined => entrant[race][s] # NoWallet

RoundSound(rd) ==
  /\ Shaped(rd)
  /\ rd.chainRaceId = NoRace => Detached(rd)
  /\ rd.chainRaceId # NoRace => Claims(rd, rd.chainRaceId)

RoundsSound == \A x \in RoundIds : Known(x) => RoundSound(round[x])

(* A call keeps to the round it was made for: its race is the round's own, *)
(* since a race once attached is never replaced, and the winner it will    *)
(* send is the round's.                                                    *)
OfRound(call) ==
  LET rd == round[call.round]
  IN /\ Known(call.round)
     /\ call.op # "open" => call.race # NoRace /\ call.race = rd.chainRaceId
     /\ call.op = "finish" => call.winner # NoWinner /\ call.winner = rd.winner

(* Where it stands in its handler.                                         *)
InPhase(call) ==
  /\ call.op = "open" /\ call.phase # "reading" => call.race \in RaceId /\ call.race <= nextRaceId
  /\ call.op = "confirm" => call.phase \in {"reading", "done"}
  /\ call.op = "confirm" /\ call.phase = "reading" => call.wallet # NoWallet

(* What it may rely on when it resumes, even though its transaction may    *)
(* have reverted: the race has then been brought past that point by        *)
(* another.                                                                *)
Answered(call) ==
  call.phase = "done" =>
    /\ call.op = "open" => call.race < nextRaceId
    /\ call.op = "confirm" => entrant[call.race][call.slot] # NoWallet
    /\ call.op \in MarkOps => raceStatus[call.race] \in Reached(Claim[Marks[call.op]])

CallSound(call) == OfRound(call) /\ InPhase(call) /\ Answered(call)

CallsSound == \A c \in CallIds : calls[c] # Idle => CallSound(calls[c])

(* Some round with this race has this winner. *)
WonBy(race, winner) ==
  \E x \in RoundIds : Known(x) /\ round[x].chainRaceId = race /\ round[x].winner = winner

(* A transaction was sent when its race was where it needs it to be, so    *)
(* that the race can only have gone on since; the result it carries is its *)
(* round's.                                                                *)
TransactionSound(tx) ==
  /\ tx.op # "open" => tx.race \in RaceId /\ raceStatus[tx.race] \in Reached(Needs[tx.op])
  /\ tx.op = "finish" => tx.winner \in Slot /\ WonBy(tx.race, tx.winner)

(* Who waits for a transaction waits for that one. *)
Awaited(tx) ==
  tx.by # Idle =>
    /\ calls[tx.by] # Idle
    /\ calls[tx.by].phase = "sent"
    /\ calls[tx.by].op = tx.op
    /\ calls[tx.by].race = tx.race

TransactionsSound ==
  /\ \A i \in DOMAIN unmined : TransactionSound(unmined[i]) /\ Awaited(unmined[i])
  /\ \A i, j \in DOMAIN unmined : unmined[i].by = unmined[j].by => i = j \/ unmined[i].by = Idle

ChainSound ==
  \A r \in RaceId :
    /\ r < nextRaceId <=> raceStatus[r] # "None"
    /\ (\A s \in Slot : entrant[r][s] # NoWallet) => raceStatus[r] \in Reached("Joined")

ResultsWon ==
  \A r \in RaceId : raceStatus[r] \in {"Finished", "Settled"} => WonBy(r, winnerSlot[r])

(* The invariant the proofs carry through every step.  What a round says   *)
(* of its race holds only because of what the calls rely on, and those of  *)
(* the transactions sent: the three are inductive together.                *)
NativeInv ==
  /\ NativeTypeOK
  /\ RoundsSound
  /\ CallsSound
  /\ TransactionsSound
  /\ ChainSound
  /\ ResultsWon
-----------------------------------------------------------------------------
(* The statuses of a race.                                                 *)

Stages == {"Created", "Joined", "Locked", "Started", "Finished", "Settled"}

GoesOn(from, to) == \A at \in Stages : from \in Reached(at) => to \in Reached(at)

LEMMA StageFacts ==
  /\ \A cs \in ChainStatus \ {"not-opened"} : Claim[cs] \in Stages
  /\ \A op \in MarkOps : /\ Needs[op] \in Stages
                         /\ Marks[op] \in ChainStatus \ {"not-opened"}
                         /\ Claim[Marks[op]] \in Stages
  BY DEF ChainStatus, Claim, Stages, MarkOps, Needs, Marks

LEMMA ReachedFacts ==
  /\ \A at \in Stages : "None" \notin Reached(at) /\ Reached(at) \subseteq Reached("Created")
  /\ Reached("Created") = RaceStatus \ {"None"}
  BY DEF Reached, RaceStatus, Stages

(* A race goes on, whatever step it makes. *)
LEMMA GoesOnSteps ==
  /\ \A from : GoesOn(from, from)
  /\ \A to : GoesOn("None", to)
  /\ GoesOn("Created", "Joined")
  /\ GoesOn("Joined", "Locked")
  /\ GoesOn("Locked", "Started")
  /\ GoesOn("Started", "Finished")
  /\ GoesOn("Finished", "Settled")
  /\ \A from \in RaceStatus : GoesOn(from, "Canceled")
  BY DEF GoesOn, Reached, Stages, RaceStatus

(* Once past what a transaction needs, a race is where it would have taken *)
(* it.                                                                     *)
LEMMA PastNeeds ==
  ASSUME NEW op \in MarkOps, NEW st \in Reached(Needs[op]), st # Needs[op]
  PROVE  st \in Reached(Claim[Marks[op]])
  BY DEF MarkOps, Needs, Marks, Claim, Reached, RaceStatus
-----------------------------------------------------------------------------
(* What the functions of rounds.ts do to a round.                          *)

SameClaims(old, new) ==
  /\ old.chainRaceId # NoRace => new.chainRaceId = old.chainRaceId
  /\ old.winner # NoWinner => new.winner = old.winner

Evolves(old, new) == new \in Round /\ RoundSound(new) /\ SameClaims(old, new)

Running == {"locked", "countdown", "racing"}

LEMMA NativeSlots == Slot = {0, 1} /\ Challenger \in Slot /\ Chain!Slot = Slot /\ Chain!RaceId = RaceId
  BY SMT DEF Slot, Challenger, Opponent, Chain!Slot, Chain!RaceId, RaceId

LEMMA NativeNames == NoWallet \notin Wallets /\ NoRace \notin RaceId /\ NoWinner \notin Slot
  BY NativeAssumption, NativeSlots DEF RaceId

(* A handler that does not await leaves what the round says of its race.   *)
LEMMA LocalEvolves ==
  ASSUME NEW rd \in Round, RoundSound(rd), NEW new \in Round, Shaped(new),
         new.chainRaceId = rd.chainRaceId, new.chainStatus = rd.chainStatus,
         \A s \in Slot : new.drivers[s].chainJoined = rd.drivers[s].chainJoined,
         rd.winner # NoWinner => new.winner = rd.winner,
         new.status \in Running => \/ rd.status \in Running
                                   \/ rd.chainRaceId # NoRace => rd.chainStatus = "locked"
  PROVE  Evolves(rd, new)
<1>1. CASE rd.chainRaceId = NoRace
  BY <1>1 DEF Evolves, SameClaims, RoundSound, Detached
<1>2. CASE rd.chainRaceId # NoRace
  <2>1. Claims(rd, rd.chainRaceId) BY <1>2 DEF RoundSound
  <2>2. rd.chainStatus = "locked" => raceStatus[rd.chainRaceId] \in Reached("Locked")
    BY <2>1 DEF Claims, Claim
  <2>3. Claims(new, rd.chainRaceId)
    BY <1>2, <2>1, <2>2 DEF Claims, Running
  <2>4. QED BY <1>2, <2>3 DEF Evolves, SameClaims, RoundSound
<1>3. QED BY <1>1, <1>2

LEMMA EvolvesOn ==
  ASSUME NEW a, NEW b, NEW c, Evolves(a, b), Evolves(b, c)
  PROVE  Evolves(a, c)
  BY DEF Evolves, SameClaims

LEMMA CreateSound ==
  createRound(NoWallet) \in Round /\ RoundSound(createRound(NoWallet))
<1> DEFINE new == createRound(NoWallet)
<1>1. NewDriver(NoWallet) \in Driver
  BY DEF NewDriver, Driver, FeePayment
<1>2. new = [status |-> "accepted", chainStatus |-> "not-opened", chainRaceId |-> NoRace,
             winner |-> NoWinner, drivers |-> [s \in Slot |-> NewDriver(NoWallet)]]
  BY DEF createRound
<1>3. new \in Round
  BY <1>1, <1>2 DEF Round, RoundStatus, ChainStatus
<1>4. \A s \in Slot : ~new.drivers[s].chainJoined /\ ~new.drivers[s].stakeAuthorized
  BY <1>2 DEF NewDriver
<1>5. new.status = "accepted" /\ new.winner = NoWinner /\ new.chainRaceId = NoRace
      /\ new.chainStatus = "not-opened"
  BY <1>2
<1> HIDE DEF new
<1>6. QED BY <1>3, <1>4, <1>5 DEF RoundSound, Shaped, Detached, new

LEMMA ClaimEvolves ==
  ASSUME NEW rd \in Round, RoundSound(rd), NEW s \in Slot, NEW wallet \in Wallets,
         CanClaimSlot(rd, s, wallet)
  PROVE  Evolves(rd, claimSlot(rd, s, wallet))
<1> DEFINE new == claimSlot(rd, s, wallet)
           d == [rd.drivers[s] EXCEPT !.wallet = wallet]
<1>1. /\ d \in Driver /\ d.chainJoined = rd.drivers[s].chainJoined
      /\ d.stakeAuthorized = rd.drivers[s].stakeAuthorized
  BY DEF Driver, Round
<1>2. /\ new.status = (IF rd.status = "challenge" /\ rd.drivers[1 - s].wallet # NoWallet
                       THEN "accepted" ELSE rd.status)
      /\ new.chainStatus = rd.chainStatus
      /\ new.chainRaceId = rd.chainRaceId /\ new.winner = rd.winner
      /\ new.drivers = [rd.drivers EXCEPT ![s] = d]
  BY DEF claimSlot, Round
<1>3. [rd.drivers EXCEPT ![s] = d] \in [Slot -> Driver]
  BY <1>1 DEF Round
<1>4. new \in Round
  BY <1>2, <1>3 DEF claimSlot, Round, RoundStatus
<1>5. \A t \in Slot : /\ new.drivers[t].chainJoined = rd.drivers[t].chainJoined
                      /\ new.drivers[t].stakeAuthorized = rd.drivers[t].stakeAuthorized
  BY <1>1, <1>2 DEF Round
<1>6. new.status = rd.status \/ (new.status = "accepted" /\ rd.status = "challenge")
  BY <1>2
<1> HIDE DEF new
<1>7. Shaped(rd) BY DEF RoundSound
<1>8. Shaped(new)
  BY <1>2, <1>5, <1>6, <1>7 DEF Shaped
<1>9. QED BY <1>2, <1>4, <1>5, <1>6, <1>8, LocalEvolves DEF Running, new

(* The round goes on: lock, countdown, racing or cancel.                   *)
LEMMA StatusEvolves ==
  ASSUME NEW rd \in Round, RoundSound(rd), NEW status \in Running \cup {"canceled"},
         rd.status \notin {"finished", "settled", "canceled"},
         status \in Running => \/ rd.status \in Running
                               \/ CanLockRound(rd)
  PROVE  Evolves(rd, WithStatus(rd, status))
<1> DEFINE new == WithStatus(rd, status)
<1>1. /\ new \in Round /\ new.status = status /\ new.chainStatus = rd.chainStatus
      /\ new.chainRaceId = rd.chainRaceId /\ new.winner = rd.winner /\ new.drivers = rd.drivers
  BY DEF WithStatus, Round, Running, RoundStatus
<1>2. Shaped(rd) BY DEF RoundSound
<1>3. status \in Running => \A s \in Slot : rd.drivers[s].chainJoined
  BY <1>2 DEF Shaped, Running, CanLockRound
<1>4. Shaped(new)
  BY <1>1, <1>2, <1>3 DEF Shaped, Running
<1>5. status \in Running => \/ rd.status \in Running
                            \/ rd.chainRaceId # NoRace => rd.chainStatus = "locked"
  BY DEF CanLockRound
<1> HIDE DEF new
<1>6. QED BY <1>1, <1>4, <1>5, LocalEvolves DEF new

LEMMA WinnerEvolves ==
  ASSUME NEW rd \in Round, RoundSound(rd), NEW w \in Slot,
         rd.status \notin {"finished", "settled", "canceled"}
  PROVE  Evolves(rd, [rd EXCEPT !.status = "finished", !.winner = w])
<1> DEFINE new == [rd EXCEPT !.status = "finished", !.winner = w]
<1>1. /\ new \in Round /\ new.status = "finished" /\ new.chainStatus = rd.chainStatus
      /\ new.chainRaceId = rd.chainRaceId /\ new.winner = w /\ new.drivers = rd.drivers
  BY DEF Round, RoundStatus
<1>2. Shaped(rd) BY DEF RoundSound
<1>3. rd.winner = NoWinner BY <1>2 DEF Shaped
<1>4. Shaped(new)
  BY <1>1, <1>2, NativeNames DEF Shaped
<1> HIDE DEF new
<1>5. QED BY <1>1, <1>3, <1>4, LocalEvolves DEF new, Running

LEMMA ChooseEvolves ==
  ASSUME NEW rd \in Round, RoundSound(rd), NEW w \in Slot, CanChooseWinner(rd, w)
  PROVE  Evolves(rd, chooseWinner(rd, w))
<1>1. CASE rd.status \in {"finished", "settled"}
  BY <1>1 DEF chooseWinner, Evolves, SameClaims
<1>2. CASE rd.status \notin {"finished", "settled"}
  BY <1>2, WinnerEvolves DEF chooseWinner, CanChooseWinner
<1>3. QED BY <1>1, <1>2

(* Whatever the handlers that do not await make of a round, it evolves.    *)
LEMMA LocalStepEvolves ==
  ASSUME NEW x \in RoundIds, NEW rd \in Round, RoundSound(rd), LocalStep(x, rd)
  PROVE  \E new : Evolves(rd, new) /\ Update(x, new)
<1>1. CASE \E wallet \in Wallets : ClaimNextSlot(x, rd, wallet)
  BY <1>1, ClaimEvolves DEF ClaimNextSlot
<1>2. CASE LocksLocally(rd) /\ Update(x, WithStatus(rd, "locked"))
  BY <1>2, StatusEvolves DEF LocksLocally, CanLockRound, Running
<1>3. CASE rd.status = "locked" /\ Update(x, WithStatus(rd, "countdown"))
  BY <1>3, StatusEvolves DEF Running
<1>4. CASE StartsLocally(rd) /\ Update(x, WithStatus(rd, "racing"))
  BY <1>4, StatusEvolves DEF StartsLocally, Running
<1>5. CASE \E w \in Slot : rd.status = "racing" /\ Update(x, finishRound(rd, w))
  BY <1>5, WinnerEvolves DEF finishRound
<1>6. CASE \E w \in Slot : CanChooseWinner(rd, w) /\ Update(x, chooseWinner(rd, w))
  BY <1>6, ChooseEvolves
<1>7. CASE CanCancelRound(rd) /\ Update(x, WithStatus(rd, "canceled"))
  BY <1>7, StatusEvolves DEF CanCancelRound, Running
<1>8. QED BY <1>1, <1>2, <1>3, <1>4, <1>5, <1>6, <1>7 DEF LocalStep
-----------------------------------------------------------------------------
(* What a handler makes of its round when the chain has answered.          *)

LEMMA AttachEvolves ==
  ASSUME NEW rd \in Round, RoundSound(rd), NEW race \in RaceId, CanAttachChainRace(rd, race),
         raceStatus[race] \in Reached("Created")
  PROVE  Evolves(rd, attachChainRace(rd, race))
<1> DEFINE new == attachChainRace(rd, race)
<1>1. /\ new \in Round /\ new.status = rd.status /\ new.chainStatus = "opened"
      /\ new.chainRaceId = race /\ new.winner = rd.winner /\ new.drivers = rd.drivers
  BY DEF attachChainRace, Round, ChainStatus
<1>2. race # NoRace /\ (rd.chainRaceId # NoRace => rd.chainRaceId = race)
  BY NativeNames DEF CanAttachChainRace
<1>3. Shaped(rd) BY DEF RoundSound
<1>4. Shaped(new) BY <1>1, <1>3 DEF Shaped
<1> HIDE DEF new
<1>5. Claims(new, race)
  <2>1. CASE rd.chainRaceId = NoRace
    <3>1. \A s \in Slot : ~rd.drivers[s].chainJoined
      BY <2>1 DEF RoundSound, Detached
    <3>2. rd.status \notin Running
      BY <1>3, <3>1, NativeSlots DEF Shaped, Running
    <3>3. QED BY <1>1, <3>1, <3>2 DEF Claims, Claim, Running
  <2>2. CASE rd.chainRaceId = race
    <3>1. Claims(rd, race) BY <1>2, <2>2 DEF RoundSound
    <3>2. QED BY <1>1, <3>1 DEF Claims, Claim
  <2>3. QED BY <1>2, <2>1, <2>2
<1>6. RoundSound(new) BY <1>1, <1>2, <1>4, <1>5 DEF RoundSound
<1>7. QED BY <1>1, <1>2, <1>6 DEF Evolves, SameClaims, new

LEMMA MarkEvolves ==
  ASSUME NEW rd \in Round, RoundSound(rd), NEW op \in MarkOps, rd.chainRaceId # NoRace,
         CanMarkChain(rd, Marks[op]),
         raceStatus[rd.chainRaceId] \in Reached(Claim[Marks[op]])
  PROVE  /\ Evolves(rd, markChain(rd, Marks[op]))
         /\ markChain(rd, Marks[op]).chainStatus = Marks[op]
         /\ op \notin {"settle", "cancel"} => markChain(rd, Marks[op]).status = rd.status
<1> DEFINE cs == Marks[op]
           new == markChain(rd, cs)
<1>1. cs \in ChainStatus \ {"not-opened"} /\ (cs \in {"settled", "canceled"} <=> op \in {"settle", "cancel"})
  BY DEF MarkOps, Marks, ChainStatus
<1>2. cs = "settled" => rd.status \in {"finished", "settled"}
  BY DEF CanMarkChain
<1>3. raceStatus[rd.chainRaceId] \in Reached(Claim[cs]) OBVIOUS
<1> HIDE DEF cs
<1>4. /\ new.status = (IF cs \in {"settled", "canceled"} THEN cs ELSE rd.status)
      /\ new.chainStatus = cs /\ new.chainRaceId = rd.chainRaceId
      /\ new.winner = rd.winner /\ new.drivers = rd.drivers
  BY DEF markChain, Round
<1>5. new \in Round
  BY <1>1 DEF markChain, Round, RoundStatus
<1>6. Shaped(rd) /\ Claims(rd, rd.chainRaceId) BY DEF RoundSound
<1> HIDE DEF new
<1>7. Shaped(new) BY <1>2, <1>4, <1>6 DEF Shaped
<1>8. Claims(new, rd.chainRaceId)
  BY <1>1, <1>3, <1>4, <1>6 DEF Claims
<1>9. RoundSound(new) BY <1>4, <1>7, <1>8 DEF RoundSound
<1>10. Evolves(rd, new) BY <1>4, <1>5, <1>9 DEF Evolves, SameClaims
<1>11. QED BY <1>1, <1>4, <1>10 DEF new, cs

LEMMA ReadyOrNot ==
  ASSUME NEW rd \in Round
  PROVE  /\ updateReady(rd) \in Round
         /\ updateReady(rd).chainStatus = rd.chainStatus
         /\ updateReady(rd).chainRaceId = rd.chainRaceId
         /\ updateReady(rd).winner = rd.winner
         /\ updateReady(rd).drivers = rd.drivers
         /\ \/ updateReady(rd).status = rd.status
            \/ /\ updateReady(rd).status = "ready" /\ Joinable(rd)
               /\ \A s \in Slot : rd.drivers[s].stakeAuthorized
  BY DEF updateReady, Round, RoundStatus

(* A driver's entry has been found on chain. *)
LEMMA ConfirmEvolves ==
  ASSUME NEW rd \in Round, RoundSound(rd), NEW s \in Slot, rd.chainRaceId \in RaceId, Joinable(rd),
         entrant[rd.chainRaceId][s] # NoWallet,
         (\A t \in Slot : entrant[rd.chainRaceId][t] # NoWallet) =>
            raceStatus[rd.chainRaceId] \in Reached("Joined")
  PROVE  Evolves(rd, markNativeChainJoined(rd, s))
<1> DEFINE d == [rd.drivers[s] EXCEPT !.chainJoined = TRUE, !.stakeAuthorized = TRUE,
                                      !.feePaid = TRUE, !.feePayment = "other"]
           drivers == [rd.drivers EXCEPT ![s] = d]
           cs == StatusAfterJoin(drivers)
           mid == [rd EXCEPT !.drivers = drivers, !.chainStatus = cs]
           new == updateReady(mid)
<1>1. d \in Driver /\ d.chainJoined = TRUE /\ d.stakeAuthorized = TRUE
  <2>1. rd.drivers[s] \in Driver BY DEF Round
  <2>2. QED BY <2>1 DEF Driver, FeePayment
<1>2. /\ drivers \in [Slot -> Driver] /\ drivers[s] = d
      /\ \A t \in Slot : t # s => drivers[t] = rd.drivers[t]
  BY <1>1 DEF Round
<1>3. cs \in {"opened", "joined"} /\ (cs = "joined" => \A t \in Slot : drivers[t].chainJoined)
  BY DEF StatusAfterJoin
<1>4. markNativeChainJoined(rd, s) = new
  BY DEF markNativeChainJoined
<1> HIDE DEF d, drivers, cs
<1>5. /\ mid \in Round /\ mid.status = rd.status /\ mid.chainStatus = cs
      /\ mid.chainRaceId = rd.chainRaceId /\ mid.winner = rd.winner /\ mid.drivers = drivers
  BY <1>2, <1>3 DEF Round, ChainStatus
<1> HIDE DEF mid
<1>6. /\ new \in Round /\ new.chainStatus = cs /\ new.chainRaceId = rd.chainRaceId
      /\ new.winner = rd.winner /\ new.drivers = drivers
      /\ \/ new.status = rd.status
         \/ /\ new.status = "ready" /\ Joinable(rd)
            /\ \A t \in Slot : drivers[t].stakeAuthorized
  BY <1>5, ReadyOrNot DEF Joinable
<1> HIDE DEF new
<1>7. rd.chainRaceId # NoRace BY NativeNames
<1>8. Shaped(rd) /\ Claims(rd, rd.chainRaceId) BY <1>7 DEF RoundSound
<1>9. \A t \in Slot : /\ drivers[t].stakeAuthorized => drivers[t].chainJoined
                      /\ rd.drivers[t].chainJoined => drivers[t].chainJoined
                      /\ drivers[t].chainJoined => entrant[rd.chainRaceId][t] # NoWallet
  BY <1>1, <1>2, <1>8 DEF Shaped, Claims
<1>10. Shaped(new)
  BY <1>6, <1>8, <1>9 DEF Shaped, Joinable
<1>11. raceStatus[rd.chainRaceId] \in Reached(Claim[cs])
  <2>1. CASE cs = "joined"
    BY <2>1, <1>3, <1>9 DEF Claim
  <2>2. CASE cs = "opened"
    <3>1. raceStatus[rd.chainRaceId] \in Reached(Claim[rd.chainStatus])
          /\ Claim[rd.chainStatus] \in Stages
      BY <1>8, StageFacts DEF Claims, Round
    <3>2. QED BY <2>2, <3>1, ReachedFacts DEF Claim
  <2>3. QED BY <1>3, <2>1, <2>2
<1>12. Claims(new, rd.chainRaceId)
  BY <1>3, <1>6, <1>8, <1>9, <1>11 DEF Claims, Joinable
<1>13. RoundSound(new) BY <1>6, <1>7, <1>10, <1>12 DEF RoundSound
<1>14. QED BY <1>4, <1>6, <1>13 DEF Evolves, SameClaims
-----------------------------------------------------------------------------
(* What a step may do to the rounds and to the chain meanwhile.            *)

(* No round is removed, and none changes its race or its winner. *)
RoundsGrow ==
  \A x \in RoundIds : Known(x) => round'[x] # NoRound /\ SameClaims(round[x], round'[x])

(* No race goes back, no entry is taken back and no result is replaced. *)
ChainGrows ==
  /\ nextRaceId' >= nextRaceId
  /\ \A r \in RaceId :
       /\ GoesOn(raceStatus[r], raceStatus'[r])
       /\ \A s \in Slot : entrant[r][s] # NoWallet => entrant'[r][s] # NoWallet
       /\ raceStatus'[r] \in {"Finished", "Settled"} /\ raceStatus[r] \in {"Finished", "Settled"} =>
            winnerSlot'[r] = winnerSlot[r]

LEMMA ChainStays ==
  ASSUME NativeTypeOK, UNCHANGED chainVars
  PROVE  ChainGrows
<1>1. nextRaceId \in Nat BY NativeAssumption DEF NativeTypeOK
<1>2. QED BY <1>1, GoesOnSteps DEF ChainGrows, chainVars

LEMMA RoundsStay == UNCHANGED round => RoundsGrow
  BY DEF RoundsGrow, Known, SameClaims

LEMMA WonStays ==
  ASSUME NativeTypeOK, RoundsGrow, NEW race \in RaceId, NEW winner \in Slot, WonBy(race, winner)
  PROVE  WonBy(race, winner)'
<1>1. PICK x \in RoundIds : Known(x) /\ round[x].chainRaceId = race /\ round[x].winner = winner
  BY DEF WonBy
<1>2. /\ round'[x] # NoRound /\ round'[x].chainRaceId = race /\ round'[x].winner = winner
  BY <1>1, NativeNames DEF RoundsGrow, SameClaims
<1>3. QED BY <1>2 DEF WonBy, Known

(* A call may go on relying on its round and on what it was answered.      *)
LEMMA CallKept ==
  ASSUME NativeInv, RoundsGrow, ChainGrows, nextRaceId' \in Nat,
         NEW c \in CallIds, calls[c] # Idle, calls'[c] = calls[c]
  PROVE  CallSound(calls[c])'
<1> DEFINE call == calls[c]
           x == call.round
<1>1. call \in Call /\ x \in RoundIds
  BY DEF NativeInv, NativeTypeOK, Call
<1>2. OfRound(call) /\ InPhase(call) /\ Answered(call)
  BY DEF NativeInv, CallsSound, CallSound
<1>3. nextRaceId \in Nat /\ nextRaceId' >= nextRaceId
  BY NativeAssumption DEF NativeInv, NativeTypeOK, ChainGrows
<1>4. OfRound(calls[c])'
  <2>1. Known(x) /\ round'[x] # NoRound /\ SameClaims(round[x], round'[x])
    BY <1>1, <1>2 DEF OfRound, RoundsGrow
  <2>2. QED BY <2>1, <1>2 DEF OfRound, SameClaims, Known
<1>5. InPhase(calls[c])'
  <2>1. call.op = "open" /\ call.phase # "reading" => call.race \in RaceId /\ call.race <= nextRaceId'
    BY <1>2, <1>3 DEF InPhase, RaceId
  <2>2. QED BY <2>1, <1>2 DEF InPhase
<1>6. Answered(calls[c])'
  <2>1. SUFFICES ASSUME call.phase = "done"
                 PROVE  /\ call.op = "open" => call.race < nextRaceId'
                        /\ call.op = "confirm" => entrant'[call.race][call.slot] # NoWallet
                        /\ call.op \in MarkOps =>
                             raceStatus'[call.race] \in Reached(Claim[Marks[call.op]])
    BY DEF Answered
  <2>2. /\ call.op = "open" => call.race < nextRaceId /\ call.race \in RaceId
        /\ call.op = "confirm" => entrant[call.race][call.slot] # NoWallet
        /\ call.op \in MarkOps => raceStatus[call.race] \in Reached(Claim[Marks[call.op]])
    BY <2>1, <1>2 DEF Answered, InPhase
  <2>3. call.op # "open" => call.race \in RaceId
    BY <1>1, <1>2 DEF OfRound, Call
  <2>4. call.slot \in Slot BY <1>1 DEF Call
  <2>5. call.op = "open" => call.race < nextRaceId'
    BY <2>2, <1>3 DEF RaceId
  <2>6. call.op = "confirm" => entrant'[call.race][call.slot] # NoWallet
    BY <2>2, <2>3, <2>4 DEF ChainGrows
  <2>7. call.op \in MarkOps => raceStatus'[call.race] \in Reached(Claim[Marks[call.op]])
    <3>1. SUFFICES ASSUME call.op \in MarkOps
                   PROVE  raceStatus'[call.race] \in Reached(Claim[Marks[call.op]])
      OBVIOUS
    <3>2. Claim[Marks[call.op]] \in Stages /\ call.race \in RaceId
      BY <3>1, <2>3, StageFacts DEF MarkOps
    <3>3. GoesOn(raceStatus[call.race], raceStatus'[call.race])
      BY <3>2 DEF ChainGrows
    <3>4. QED BY <2>2, <3>1, <3>2, <3>3 DEF GoesOn
  <2>8. QED BY <2>5, <2>6, <2>7
<1>7. QED BY <1>4, <1>5, <1>6 DEF CallSound

LEMMA CallsKept ==
  ASSUME NativeInv, RoundsGrow, ChainGrows, nextRaceId' \in Nat,
         \A c \in CallIds : calls'[c] \in {Idle, calls[c]} \/ CallSound(calls[c])'
  PROVE  CallsSound'
<1>1. SUFFICES ASSUME NEW c \in CallIds, calls'[c] # Idle
               PROVE  CallSound(calls[c])'
  BY DEF CallsSound
<1>2. QED BY <1>1, CallKept

(* So does a transaction that is not mined.                                *)
SameTransaction(tx, old) ==
  tx \in Sent /\ tx.op = old.op /\ tx.race = old.race /\ tx.winner = old.winner

LEMMA TransactionKept ==
  ASSUME NativeTypeOK, RoundsGrow, ChainGrows,
         NEW i \in DOMAIN unmined, TransactionSound(unmined[i]),
         NEW j, SameTransaction(unmined'[j], unmined[i])
  PROVE  TransactionSound(unmined[j])'
<1> DEFINE tx == unmined[i]
           new == unmined'[j]
<1>1. new.op = tx.op /\ new.race = tx.race /\ new.winner = tx.winner /\ new \in Sent
  BY DEF SameTransaction
<1>2. tx.op # "open" => tx.op \in MarkOps /\ tx.race \in RaceId /\ Needs[tx.op] \in Stages
  BY <1>1, StageFacts DEF Sent, TransactionOp, MarkOps, TransactionSound
<1>3. tx.op # "open" => raceStatus'[tx.race] \in Reached(Needs[tx.op])
  <2>1. SUFFICES ASSUME tx.op # "open" PROVE raceStatus'[tx.race] \in Reached(Needs[tx.op])
    OBVIOUS
  <2>2. GoesOn(raceStatus[tx.race], raceStatus'[tx.race])
    BY <2>1, <1>2 DEF ChainGrows
  <2>3. QED BY <2>1, <2>2, <1>2 DEF GoesOn, TransactionSound
<1>4. tx.op = "finish" => tx.race \in RaceId /\ tx.winner \in Slot /\ WonBy(tx.race, tx.winner)
  BY DEF TransactionSound
<1>5. tx.op = "finish" => \E x \in RoundIds :
        round'[x] # NoRound /\ round'[x].chainRaceId = tx.race /\ round'[x].winner = tx.winner
  BY <1>4, WonStays DEF WonBy, Known
<1>6. QED BY <1>1, <1>2, <1>3, <1>4, <1>5 DEF TransactionSound, WonBy, Known
-----------------------------------------------------------------------------
(* What a transaction does to the chain.                                   *)

ChainTyped ==
  /\ nextRaceId \in 0..MaxRaces
  /\ raceStatus \in [RaceId -> RaceStatus]
  /\ entrant \in [RaceId -> [Slot -> Wallets \cup {NoWallet}]]
  /\ winnerSlot \in [RaceId -> Slot]

ChainMoves == ChainTyped' /\ ChainSound' /\ ChainGrows

NewResult(r) ==
  raceStatus'[r] \in {"Finished", "Settled"} /\ raceStatus[r] \notin {"Finished", "Settled"}

(* What has been done when a transaction is mined, even one that reverts,  *)
(* for the calls that await it.                                            *)
Mined(tx) ==
  /\ ChainMoves
  /\ tx.op = "open" => \A r \in RaceId : r <= nextRaceId => r < nextRaceId'
  /\ tx.op \in MarkOps => raceStatus'[tx.race] \in Reached(Claim[Marks[tx.op]])
  /\ \A r \in RaceId : NewResult(r) => /\ tx.op = "finish" /\ r = tx.race
                                       /\ winnerSlot'[r] = tx.winner

(* One race goes on.                                                       *)
LEMMA AdvanceMoves ==
  ASSUME ChainTyped, ChainSound, NEW r \in RaceId, NEW to \in RaceStatus \ {"None"},
         raceStatus[r] # "None", GoesOn(raceStatus[r], to),
         Chain!Advance(r, raceStatus[r], to),
         winnerSlot' \in [RaceId -> Slot],
         \A q \in RaceId : winnerSlot'[q] = winnerSlot[q] \/ (q = r /\ raceStatus[r] = "Started")
  PROVE  ChainMoves /\ raceStatus'[r] = to
         /\ \A q \in RaceId : q # r => raceStatus'[q] = raceStatus[q]
<1>1. /\ raceStatus' = [raceStatus EXCEPT ![r] = to] /\ UNCHANGED <<entrant, nextRaceId>>
  BY DEF Chain!Advance
<1>2. /\ raceStatus'[r] = to
      /\ \A q \in RaceId : q # r => raceStatus'[q] = raceStatus[q]
  BY <1>1 DEF ChainTyped
<1>3. ChainTyped' BY <1>1 DEF ChainTyped
<1>4. \A q \in RaceId : GoesOn(raceStatus[q], raceStatus'[q])
  BY <1>2, GoesOnSteps
<1>5. ChainSound'
  <2>1. \A q \in RaceId : raceStatus[q] \in Reached("Joined") => raceStatus'[q] \in Reached("Joined")
    BY <1>4 DEF GoesOn, Stages
  <2>2. \A q \in RaceId : raceStatus'[q] # "None" <=> raceStatus[q] # "None"
    BY <1>2
  <2>3. QED BY <1>1, <2>1, <2>2 DEF ChainSound
<1>6. nextRaceId \in Nat BY NativeAssumption DEF ChainTyped
<1>7. ChainGrows BY <1>1, <1>2, <1>4, <1>6 DEF ChainGrows
<1>8. QED BY <1>2, <1>3, <1>5, <1>7 DEF ChainMoves

LEMMA OpenMoves ==
  ASSUME ChainTyped, ChainSound, Chain!OpenRace
  PROVE  ChainMoves /\ nextRaceId' = nextRaceId + 1 /\ \A r \in RaceId : ~NewResult(r)
<1>1. /\ nextRaceId \in RaceId /\ nextRaceId' = nextRaceId + 1 /\ nextRaceId' \in 0..MaxRaces
      /\ raceStatus' = [raceStatus EXCEPT ![nextRaceId] = "Created"]
      /\ UNCHANGED <<entrant, winnerSlot>>
  BY NativeAssumption DEF Chain!OpenRace, ChainTyped, RaceId
<1>2. /\ raceStatus'[nextRaceId] = "Created"
      /\ \A q \in RaceId : q # nextRaceId => raceStatus'[q] = raceStatus[q]
  BY <1>1 DEF ChainTyped
<1>3. raceStatus[nextRaceId] = "None"
  BY <1>1 DEF ChainSound, ChainTyped, RaceId
<1>4. ChainTyped' BY <1>1 DEF ChainTyped, RaceStatus
<1>5. \A q \in RaceId : GoesOn(raceStatus[q], raceStatus'[q])
  BY <1>2, <1>3, GoesOnSteps
<1>6. \A q \in RaceId : q < nextRaceId' <=> q < nextRaceId \/ q = nextRaceId
  BY <1>1 DEF RaceId
<1>7. ChainSound'
  <2>1. \A q \in RaceId : raceStatus[q] \in Reached("Joined") => raceStatus'[q] \in Reached("Joined")
    BY <1>5 DEF GoesOn, Stages
  <2>2. \A q \in RaceId : q < nextRaceId' <=> raceStatus'[q] # "None"
    BY <1>2, <1>6 DEF ChainSound
  <2>3. QED BY <1>1, <2>1, <2>2 DEF ChainSound
<1>8. nextRaceId' >= nextRaceId BY <1>1 DEF RaceId
<1>9. ChainGrows BY <1>1, <1>2, <1>5, <1>8 DEF ChainGrows
<1>10. QED BY <1>1, <1>2, <1>4, <1>7, <1>9 DEF ChainMoves, NewResult

LEMMA JoinMoves ==
  ASSUME ChainTyped, ChainSound, NEW r \in RaceId, NEW s \in Slot, NEW w \in Wallets,
         Chain!Join(r, s, w)
  PROVE  ChainMoves /\ \A q \in RaceId : ~NewResult(q)
<1>1. /\ raceStatus[r] \in {"Created", "Joined"}
      /\ entrant[r][s] = NoWallet
      /\ entrant' = [entrant EXCEPT ![r][s] = w]
      /\ raceStatus' = [raceStatus EXCEPT ![r] =
                          IF entrant[r][1 - s] # NoWallet THEN "Joined" ELSE raceStatus[r]]
      /\ UNCHANGED <<winnerSlot, nextRaceId>>
  BY DEF Chain!Join
<1>2. /\ entrant'[r][s] = w
      /\ \A t \in Slot : t # s => entrant'[r][t] = entrant[r][t]
      /\ \A q \in RaceId : q # r => entrant'[q] = entrant[q]
  BY <1>1 DEF ChainTyped
<1>3. /\ raceStatus'[r] = IF entrant[r][1 - s] # NoWallet THEN "Joined" ELSE raceStatus[r]
      /\ \A q \in RaceId : q # r => raceStatus'[q] = raceStatus[q]
  BY <1>1 DEF ChainTyped
<1>4. ChainTyped' BY <1>1 DEF ChainTyped, RaceStatus
<1>5. \A q \in RaceId : GoesOn(raceStatus[q], raceStatus'[q])
  BY <1>1, <1>3, GoesOnSteps
<1>6. w # NoWallet BY NativeNames
<1>7. (\A t \in Slot : entrant'[r][t] # NoWallet) => raceStatus'[r] = "Joined"
  BY <1>2, <1>3, NativeSlots
<1>8. ChainSound'
  <2>1. \A q \in RaceId : q < nextRaceId' <=> raceStatus'[q] # "None"
    BY <1>1, <1>3 DEF ChainSound
  <2>2. \A q \in RaceId : (\A t \in Slot : entrant'[q][t] # NoWallet) =>
          raceStatus'[q] \in Reached("Joined")
    <3>1. "Joined" \in Reached("Joined") BY DEF Reached, RaceStatus
    <3>2. QED BY <1>2, <1>3, <1>7, <3>1 DEF ChainSound
  <2>3. QED BY <2>1, <2>2 DEF ChainSound
<1>9. nextRaceId' >= nextRaceId BY <1>1, NativeAssumption DEF ChainTyped
<1>10. \A q \in RaceId, t \in Slot : entrant[q][t] # NoWallet => entrant'[q][t] # NoWallet
  BY <1>2, <1>6
<1>11. ChainGrows BY <1>1, <1>5, <1>9, <1>10 DEF ChainGrows
<1>12. QED BY <1>1, <1>3, <1>4, <1>8, <1>11 DEF ChainMoves, NewResult

(* Transactions that move a race on, one case for each.                    *)
LEMMA MarkMined ==
  ASSUME ChainTyped, ChainSound, NEW tx, tx.op \in MarkOps, tx.race \in RaceId,
         raceStatus[tx.race] \in Reached(Needs[tx.op]),
         tx.op = "finish" => tx.winner \in Slot, Transaction(tx)
  PROVE  Mined(tx)
<1> DEFINE r == tx.race
<1>1. ASSUME NEW to \in RaceStatus \ {"None"}, Chain!Advance(r, raceStatus[r], to),
             GoesOn(raceStatus[r], to), to \in Reached(Claim[Marks[tx.op]]),
             to \in {"Finished", "Settled"} => tx.op = "finish" \/ raceStatus[r] = "Finished",
             \/ UNCHANGED winnerSlot /\ tx.op # "finish"
             \/ raceStatus[r] = "Started" /\ winnerSlot' = [winnerSlot EXCEPT ![r] = tx.winner]
                /\ tx.winner \in Slot
      PROVE  Mined(tx)
  <2>1. raceStatus[r] # "None"
    BY ReachedFacts, StageFacts
  <2>2. /\ winnerSlot' \in [RaceId -> Slot]
        /\ \A q \in RaceId : winnerSlot'[q] = winnerSlot[q] \/ (q = r /\ raceStatus[r] = "Started")
        /\ tx.op = "finish" => winnerSlot'[r] = tx.winner
    BY <1>1 DEF ChainTyped
  <2>3. /\ ChainMoves /\ raceStatus'[r] = to
        /\ \A q \in RaceId : q # r => raceStatus'[q] = raceStatus[q]
    BY <1>1, <2>1, <2>2, AdvanceMoves
  <2>4. \A q \in RaceId : NewResult(q) => /\ tx.op = "finish" /\ q = tx.race
                                          /\ winnerSlot'[q] = tx.winner
    BY <1>1, <2>2, <2>3 DEF NewResult
  <2>5. tx.op # "open" BY DEF MarkOps
  <2>6. QED BY <1>1, <2>3, <2>4, <2>5 DEF Mined
<1>2. CASE tx.op = "lock"
  <2>1. Chain!Lock(r) BY <1>2 DEF Transaction
  <2>2. "Locked" \in Reached(Claim[Marks[tx.op]]) BY <1>2 DEF Marks, Claim, Reached
  <2>3. QED BY <1>1, <1>2, <2>1, <2>2, GoesOnSteps DEF Chain!Lock, Chain!Advance, RaceStatus
<1>3. CASE tx.op = "start"
  <2>1. Chain!Start(r) BY <1>3 DEF Transaction
  <2>2. "Started" \in Reached(Claim[Marks[tx.op]]) BY <1>3 DEF Marks, Claim, Reached
  <2>3. QED BY <1>1, <1>3, <2>1, <2>2, GoesOnSteps DEF Chain!Start, Chain!Advance, RaceStatus
<1>4. CASE tx.op = "finish"
  <2>1. Chain!Finish(r, tx.winner) BY <1>4 DEF Transaction
  <2>2. "Finished" \in Reached(Claim[Marks[tx.op]]) BY <1>4 DEF Marks, Claim, Reached
  <2>3. QED BY <1>1, <1>4, <2>1, <2>2, GoesOnSteps DEF Chain!Finish, Chain!Advance, RaceStatus
<1>5. CASE tx.op = "settle"
  <2>1. Chain!Settle(r) BY <1>5 DEF Transaction
  <2>2. "Settled" \in Reached(Claim[Marks[tx.op]]) BY <1>5 DEF Marks, Claim, Reached
  <2>3. QED BY <1>1, <1>5, <2>1, <2>2, GoesOnSteps DEF Chain!Settle, Chain!Advance, RaceStatus
<1>6. CASE tx.op = "cancel"
  <2>1. Chain!Cancel(r) BY <1>6 DEF Transaction
  <2>2. "Canceled" \in Reached(Claim[Marks[tx.op]]) BY <1>6 DEF Marks, Claim, Reached, RaceStatus
  <2>3. GoesOn(raceStatus[r], "Canceled") BY GoesOnSteps DEF ChainTyped
  <2>4. QED BY <1>1, <1>6, <2>1, <2>2, <2>3 DEF Chain!Cancel, RaceStatus
<1>7. QED BY <1>2, <1>3, <1>4, <1>5, <1>6 DEF MarkOps

(* A transaction that reverts finds its race past what it needs.           *)
LEMMA RevertMined ==
  ASSUME NativeInv, NEW tx \in Sent, TransactionSound(tx), ~WouldSucceed(tx), UNCHANGED chainVars
  PROVE  Mined(tx)
<1>1. ChainMoves
  <2>1. ChainTyped /\ ChainSound BY DEF NativeInv, NativeTypeOK, ChainTyped
  <2>2. ChainTyped' BY <2>1 DEF ChainTyped, chainVars
  <2>3. ChainSound' BY <2>1 DEF ChainSound, chainVars
  <2>4. ChainGrows BY ChainStays DEF NativeInv
  <2>5. QED BY <2>2, <2>3, <2>4 DEF ChainMoves
<1>2. tx.op = "open" => \A r \in RaceId : r <= nextRaceId => r < nextRaceId'
  <2>1. tx.op = "open" => nextRaceId = MaxRaces
    BY NativeAssumption DEF WouldSucceed, NativeInv, NativeTypeOK
  <2>2. nextRaceId' = nextRaceId BY DEF chainVars
  <2>3. QED BY <2>1, <2>2, NativeAssumption DEF RaceId
<1>3. tx.op \in MarkOps => raceStatus'[tx.race] \in Reached(Claim[Marks[tx.op]])
  <2>1. SUFFICES ASSUME tx.op \in MarkOps
                 PROVE  raceStatus[tx.race] \in Reached(Claim[Marks[tx.op]])
    BY DEF chainVars
  <2>2. tx.race \in RaceId /\ raceStatus[tx.race] \in Reached(Needs[tx.op])
    BY <2>1 DEF TransactionSound, MarkOps
  <2>3. CASE tx.op = "cancel"
    BY <2>2, <2>3 DEF Needs, Marks, Claim
  <2>4. CASE tx.op # "cancel"
    <3>1. raceStatus[tx.race] # Needs[tx.op]
      <4>1. tx.op \in {"lock", "start", "finish", "settle"}
        BY <2>1, <2>4 DEF MarkOps
      <4>2. CASE tx.op = "lock" BY <4>2 DEF WouldSucceed, Needs
      <4>3. CASE tx.op = "start" BY <4>3 DEF WouldSucceed, Needs
      <4>4. CASE tx.op = "finish" BY <4>4 DEF WouldSucceed, Needs
      <4>5. CASE tx.op = "settle" BY <4>5 DEF WouldSucceed, Needs
      <4>6. QED BY <4>1, <4>2, <4>3, <4>4, <4>5
    <3>2. QED BY <2>1, <2>2, <3>1, PastNeeds
  <2>5. QED BY <2>3, <2>4
<1>4. \A r \in RaceId : ~NewResult(r) BY DEF NewResult, chainVars
<1>5. QED BY <1>1, <1>2, <1>3, <1>4 DEF Mined

LEMMA TransactionMined ==
  ASSUME NativeInv, NEW tx \in Sent, TransactionSound(tx),
         Transaction(tx) \/ (~WouldSucceed(tx) /\ UNCHANGED chainVars)
  PROVE  Mined(tx)
<1>1. ChainTyped /\ ChainSound BY DEF NativeInv, NativeTypeOK, ChainTyped
<1>2. CASE ~WouldSucceed(tx) /\ UNCHANGED chainVars
  BY <1>2, RevertMined
<1>3. CASE Transaction(tx) /\ tx.op = "open"
  <2>1. ChainMoves /\ nextRaceId' = nextRaceId + 1 /\ \A r \in RaceId : ~NewResult(r)
    BY <1>1, <1>3, OpenMoves DEF Transaction
  <2>2. \A r \in RaceId : r <= nextRaceId => r < nextRaceId'
    BY <1>1, <2>1 DEF ChainTyped, RaceId
  <2>3. tx.op \notin MarkOps BY <1>3 DEF MarkOps
  <2>4. QED BY <2>1, <2>2, <2>3 DEF Mined
<1>4. CASE Transaction(tx) /\ tx.op # "open"
  <2>1. tx.op \in MarkOps BY <1>4 DEF Transaction, MarkOps
  <2>2. /\ tx.race \in RaceId /\ raceStatus[tx.race] \in Reached(Needs[tx.op])
        /\ tx.op = "finish" => tx.winner \in Slot
    BY <1>4 DEF TransactionSound
  <2>3. QED BY <1>1, <1>4, <2>1, <2>2, MarkMined
<1>5. QED BY <1>2, <1>3, <1>4
-----------------------------------------------------------------------------
(* The steps of the room.                                                  *)

(* The chain's part of the invariant stays while the chain does.           *)
LEMMA ChainUnchanged ==
  ASSUME NativeInv, UNCHANGED chainVars, RoundsGrow
  PROVE  ChainSound' /\ ResultsWon' /\ ChainGrows /\ nextRaceId' \in Nat
<1>1. ChainSound' BY DEF NativeInv, ChainSound, chainVars
<1>2. ChainGrows BY ChainStays DEF NativeInv
<1>3. nextRaceId' \in Nat BY NativeAssumption DEF NativeInv, NativeTypeOK, chainVars
<1>4. ResultsWon'
  <2>1. SUFFICES ASSUME NEW r \in RaceId, raceStatus[r] \in {"Finished", "Settled"}
                 PROVE  \E x \in RoundIds : /\ round'[x] # NoRound
                                            /\ round'[x].chainRaceId = r
                                            /\ round'[x].winner = winnerSlot[r]
    BY DEF ResultsWon, WonBy, Known, chainVars
  <2>2. winnerSlot[r] \in Slot /\ WonBy(r, winnerSlot[r])
    BY <2>1 DEF NativeInv, NativeTypeOK, ResultsWon
  <2>3. QED BY <2>2, WonStays DEF WonBy, Known, NativeInv
<1>5. QED BY <1>1, <1>2, <1>3, <1>4

(* A call awaits a transaction it has sent.                                *)
Waits(c) == calls[c] # Idle /\ calls[c].phase = "sent"

(* What a handler may do to the calls but for sending and giving up.       *)
CallsStep ==
  /\ calls' \in [CallIds -> Call \cup {Idle}]
  /\ \A c \in CallIds : \/ calls'[c] = calls[c]
                        \/ ~Waits(c) /\ (calls'[c] = Idle \/ CallSound(calls[c])')

LEMMA TransactionsStay ==
  ASSUME NativeInv, UNCHANGED unmined, RoundsGrow, ChainGrows,
         \A c \in CallIds : calls'[c] = calls[c] \/ ~Waits(c)
  PROVE  TransactionsSound'
<1>1. SUFFICES ASSUME NEW i \in DOMAIN unmined
               PROVE  TransactionSound(unmined[i])' /\ Awaited(unmined[i])'
  BY DEF TransactionsSound, NativeInv
<1>2. unmined[i] \in Sent /\ TransactionSound(unmined[i]) /\ Awaited(unmined[i])
  BY DEF NativeInv, NativeTypeOK, TransactionsSound
<1>3. TransactionSound(unmined[i])'
  <2>1. SameTransaction(unmined'[i], unmined[i]) BY <1>2 DEF SameTransaction
  <2>2. QED BY <1>2, <2>1, TransactionKept DEF NativeInv
<1>4. Awaited(unmined[i])'
  BY <1>2 DEF Awaited, Waits, Sent
<1>5. QED BY <1>3, <1>4

(* A round is saved, by a handler that may then end or call on.            *)
LEMMA SaveKeeps ==
  ASSUME NativeInv, NEW x \in RoundIds, NEW new \in Round, RoundSound(new),
         Known(x) => SameClaims(round[x], new),
         Save(x, new), UNCHANGED <<unmined, chainVars>>, CallsStep
  PROVE  NativeInv'
<1>1. new # NoRound BY FreshAssumption
<1>2. /\ round'[x] = new
      /\ \A y \in RoundIds : y # x => round'[y] = round[y]
  BY DEF NativeInv, NativeTypeOK, Save
<1>3. NativeTypeOK'
  BY <1>2 DEF NativeInv, NativeTypeOK, Save, chainVars, CallsStep
<1>4. RoundsGrow
  BY <1>1, <1>2 DEF RoundsGrow, Known, SameClaims
<1>5. RoundsSound'
  <2>1. SUFFICES ASSUME NEW y \in RoundIds, round'[y] # NoRound
                 PROVE  RoundSound(round[y])'
    BY DEF RoundsSound, Known
  <2>2. RoundSound(round'[y])
    BY <2>1, <1>2 DEF NativeInv, RoundsSound, Known
  <2>3. QED BY <2>2 DEF RoundSound, Shaped, Detached, Claims, chainVars
<1>6. ChainSound' /\ ResultsWon' /\ ChainGrows /\ nextRaceId' \in Nat
  BY <1>4, ChainUnchanged
<1>7. CallsSound' BY <1>4, <1>6, CallsKept DEF CallsStep
<1>8. TransactionsSound' BY <1>4, <1>6, TransactionsStay DEF CallsStep
<1>9. QED BY <1>3, <1>5, <1>6, <1>7, <1>8 DEF NativeInv

(* A handler goes on, or another one begins, and no round changes.         *)
LEMMA CallsStepKeeps ==
  ASSUME NativeInv, UNCHANGED <<round, unmined, chainVars>>, CallsStep
  PROVE  NativeInv'
<1>1. RoundsGrow BY RoundsStay
<1>2. NativeTypeOK' BY DEF NativeInv, NativeTypeOK, chainVars, CallsStep
<1>3. RoundsSound'
  BY DEF NativeInv, RoundsSound, Known, RoundSound, Shaped, Detached, Claims, chainVars
<1>4. ChainSound' /\ ResultsWon' /\ ChainGrows /\ nextRaceId' \in Nat
  BY <1>1, ChainUnchanged
<1>5. CallsSound' BY <1>1, <1>4, CallsKept DEF CallsStep
<1>6. TransactionsSound' BY <1>1, <1>4, TransactionsStay DEF CallsStep
<1>7. QED BY <1>2, <1>3, <1>4, <1>5, <1>6 DEF NativeInv

(* A call is begun or goes on, or ends.                                    *)
LEMMA PlaceKeeps ==
  ASSUME NativeInv, NEW c \in CallIds, ~Waits(c), NEW call,
         call = Idle \/ (call \in Call /\ CallSound(call)),
         Place(c, call), UNCHANGED <<round, unmined, chainVars>>
  PROVE  NativeInv'
<1>1. calls \in [CallIds -> Call \cup {Idle}] BY DEF NativeInv, NativeTypeOK
<1>2. calls'[c] = call /\ \A d \in CallIds : d # c => calls'[d] = calls[d]
  BY <1>1 DEF Place
<1>3. calls' \in [CallIds -> Call \cup {Idle}] BY <1>1 DEF Place
<1>4. calls'[c] = Idle \/ CallSound(calls[c])'
  BY <1>2 DEF CallSound, OfRound, InPhase, Answered, Known, chainVars
<1>5. CallsStep BY <1>2, <1>3, <1>4 DEF CallsStep
<1>6. QED BY <1>5, CallsStepKeeps

LEMMA NewCallType ==
  ASSUME NEW x \in RoundIds, NEW race \in RaceId \cup {NoRace}, NEW op \in TransactionOp \cup {"confirm"}
  PROVE  /\ NewCall(op, x, race) \in Call
         /\ \A s \in Slot, w \in Wallets :
              [NewCall(op, x, race) EXCEPT !.phase = "reading", !.slot = s, !.wallet = w] \in Call
         /\ [NewCall(op, x, race) EXCEPT !.phase = "reading"] \in Call
         /\ \A w \in Slot : [NewCall(op, x, race) EXCEPT !.winner = w] \in Call
  BY NativeSlots DEF NewCall, Call

LEMMA OpeningSound ==
  ASSUME NEW x \in RoundIds
  PROVE  /\ Opening(x) \in Call
         /\ Opening(x).op = "open" /\ Opening(x).phase = "reading" /\ Opening(x).round = x
<1>1. "open" \in TransactionOp \cup {"confirm"} BY DEF TransactionOp
<1>2. QED BY <1>1, NewCallType DEF Opening, NewCall

(* A call that will mark its round is sound when it is made from the round *)
(* as it is.                                                               *)
MadeFrom(call, x, rd) ==
  /\ call \in Call
  /\ call.op \in MarkOps
  /\ call.phase = "asked"
  /\ call.round = x
  /\ call.race = rd.chainRaceId
  /\ call.op = "finish" => call.winner # NoWinner /\ call.winner = rd.winner

LEMMA SendsMade ==
  ASSUME NEW x \in RoundIds, NEW rd \in Round, NEW op \in MarkOps \ {"finish"}
  PROVE  MadeFrom(NewCall(op, x, rd.chainRaceId), x, rd)
<1>1. rd.chainRaceId \in RaceId \cup {NoRace} /\ op \in TransactionOp \cup {"confirm"}
  BY DEF Round, MarkOps, TransactionOp
<1>2. NewCall(op, x, rd.chainRaceId) \in Call BY <1>1, NewCallType
<1>3. QED BY <1>2 DEF MadeFrom, NewCall

LEMMA SettleMade ==
  ASSUME NEW x \in RoundIds, NEW rd \in Round,
         rd.chainStatus = "started" => rd.winner # NoWinner
  PROVE  MadeFrom(SettleCall(x, rd), x, rd)
<1>1. CASE rd.chainStatus = "started"
  <2>1. rd.chainRaceId \in RaceId \cup {NoRace} /\ "finish" \in TransactionOp \cup {"confirm"}
        /\ rd.winner \in Slot
    BY <1>1 DEF Round, TransactionOp
  <2>2. [NewCall("finish", x, rd.chainRaceId) EXCEPT !.winner = rd.winner] \in Call
    BY <2>1, NewCallType
  <2>3. QED BY <1>1, <2>2 DEF MadeFrom, SettleCall, NewCall, MarkOps
<1>2. CASE rd.chainStatus # "started"
  BY <1>2, SendsMade DEF SettleCall, MarkOps
<1>3. QED BY <1>1, <1>2

LEMMA MadeSound ==
  ASSUME NEW x \in RoundIds, NEW call, MadeFrom(call, x, round[x]), Known(x),
         round[x].chainRaceId # NoRace
  PROVE  CallSound(call)
  BY DEF MadeFrom, CallSound, OfRound, InPhase, Answered, MarkOps

LEMMA RequestKeeps ==
  ASSUME NativeInv, NEW c \in CallIds, NEW x \in RoundIds, Request(c, x)
  PROVE  NativeInv'
<1> DEFINE rd == round[x]
<1>1. /\ Known(x) /\ rd \in Round /\ RoundSound(rd) /\ ~Waits(c)
      /\ UNCHANGED <<round, unmined, chainVars>>
  BY DEF Request, NativeInv, NativeTypeOK, RoundsSound, Known, Waits
<1>2. ASSUME Place(c, Opening(x)) PROVE NativeInv'
  <2>1. CallSound(Opening(x)) /\ Opening(x) \in Call
    BY <1>1, OpeningSound DEF CallSound, OfRound, InPhase, Answered
  <2>2. QED BY <1>1, <1>2, <2>1, PlaceKeeps
<1>3. ASSUME NEW call, MadeFrom(call, x, rd), rd.chainRaceId # NoRace, Place(c, call)
      PROVE  NativeInv'
  <2>1. CallSound(call) BY <1>1, <1>3, MadeSound
  <2>2. call \in Call BY <1>3 DEF MadeFrom
  <2>3. QED BY <1>1, <1>3, <2>1, <2>2, PlaceKeeps
<1>4. ASSUME NEW s \in Slot, NEW w \in Wallets, rd.chainRaceId # NoRace,
             Place(c, Confirming(x, rd, s, w))
      PROVE  NativeInv'
  <2> DEFINE call == Confirming(x, rd, s, w)
  <2>1. rd.chainRaceId \in RaceId \cup {NoRace} /\ "confirm" \in TransactionOp \cup {"confirm"}
    BY <1>1 DEF Round
  <2>2. call \in Call BY <2>1, NewCallType DEF Confirming
  <2>3. /\ call.op = "confirm" /\ call.phase = "reading" /\ call.round = x
        /\ call.race = rd.chainRaceId /\ call.wallet # NoWallet
    BY NativeNames DEF NewCall, Confirming
  <2> HIDE DEF call
  <2>4. CallSound(call)
    BY <1>1, <1>4, <2>3 DEF CallSound, OfRound, InPhase, Answered
  <2>5. QED BY <1>1, <1>4, <2>2, <2>4, PlaceKeeps DEF call
<1>5. ASSUME NEW op \in {"lock", "start", "cancel"}, rd.chainRaceId # NoRace,
             Place(c, NewCall(op, x, rd.chainRaceId))
      PROVE  NativeInv'
  <2>1. MadeFrom(NewCall(op, x, rd.chainRaceId), x, rd)
    BY <1>1, SendsMade DEF MarkOps
  <2>2. QED BY <1>3, <1>5, <2>1
<1>6. ASSUME rd.status \in {"finished", "settled"}, rd.chainRaceId # NoRace, Place(c, SettleCall(x, rd))
      PROVE  NativeInv'
  <2>1. rd.winner # NoWinner BY <1>1, <1>6 DEF RoundSound, Shaped
  <2>2. MadeFrom(SettleCall(x, rd), x, rd) BY <1>1, <2>1, SettleMade
  <2>3. QED BY <1>3, <1>6, <2>2
<1>7. CASE rd.chainRaceId = NoRace /\ Place(c, Opening(x)) BY <1>2, <1>7
<1>8. CASE /\ rd.chainRaceId # NoRace
           /\ \E s \in Slot, w \in Wallets : Place(c, Confirming(x, rd, s, w))
  BY <1>4, <1>8
<1>9. CASE rd.chainRaceId # NoRace /\ \E op \in {"lock", "start", "cancel"} :
             Place(c, NewCall(op, x, rd.chainRaceId))
  BY <1>5, <1>9
<1>10. CASE /\ rd.status \in {"finished", "settled"} /\ rd.chainRaceId # NoRace
            /\ Place(c, SettleCall(x, rd))
  BY <1>6, <1>10
<1> HIDE DEF rd
<1>11. QED BY <1>7, <1>8, <1>9, <1>10 DEF Request, rd

LEMMA ReadKeeps ==
  ASSUME NativeInv, NEW c \in CallIds, ReadNextRaceId(c) \/ ReadJoin(c) \/ Reject(c)
  PROVE  NativeInv'
<1> DEFINE call == calls[c]
<1>1. /\ call # Idle /\ call \in Call /\ CallSound(call) /\ ~Waits(c)
      /\ UNCHANGED <<round, unmined, chainVars>>
  BY DEF ReadNextRaceId, ReadJoin, Reject, NativeInv, NativeTypeOK, CallsSound, Waits
<1>2. CASE ReadNextRaceId(c)
  <2>1. /\ nextRaceId \in RaceId /\ call.op = "open"
        /\ Place(c, [call EXCEPT !.phase = "asked", !.race = nextRaceId])
    BY <1>2, NativeAssumption DEF ReadNextRaceId, NativeInv, NativeTypeOK, RaceId
  <2> DEFINE new == [call EXCEPT !.phase = "asked", !.race = nextRaceId]
  <2>2. /\ new \in Call /\ new.op = "open" /\ new.phase = "asked" /\ new.race = nextRaceId
        /\ new.round = call.round
    BY <1>1, <2>1 DEF Call
  <2> HIDE DEF new
  <2>3. CallSound(new)
    BY <1>1, <2>1, <2>2 DEF CallSound, OfRound, InPhase, Answered, RaceId
  <2>4. QED BY <1>1, <2>1, <2>2, <2>3, PlaceKeeps DEF new
<1>3. CASE ReadJoin(c)
  <2> DEFINE new == [call EXCEPT !.phase = "done", !.wallet = NoWallet]
  <2>1. /\ call.op = "confirm" /\ call.phase = "reading" /\ JoinFound(call) /\ Place(c, new)
    BY <1>3 DEF ReadJoin
  <2>2. /\ new \in Call /\ new.op = "confirm" /\ new.phase = "done" /\ new.race = call.race
        /\ new.round = call.round /\ new.slot = call.slot
    BY <1>1, <2>1 DEF Call
  <2>3. entrant[call.race][call.slot] # NoWallet
    BY <1>1, <2>1 DEF JoinFound, CallSound, InPhase
  <2> HIDE DEF new
  <2>4. CallSound(new)
    BY <1>1, <2>1, <2>2, <2>3 DEF CallSound, OfRound, InPhase, Answered, MarkOps
  <2>5. QED BY <1>1, <2>1, <2>2, <2>4, PlaceKeeps
<1>4. CASE Reject(c)
  BY <1>1, <1>4, PlaceKeeps DEF Reject
<1>5. QED BY <1>2, <1>3, <1>4

LEMMA CreateKeeps ==
  ASSUME NativeInv, NEW x \in RoundIds, Create(x)
  PROVE  NativeInv'
<1> DEFINE new == createRound(NoWallet)
<1>1. new \in Round /\ RoundSound(new) BY CreateSound
<1> HIDE DEF new
<1>2. ~Known(x) /\ Save(x, new) /\ UNCHANGED <<unmined, chainVars>>
  BY DEF Create, new
<1>3. calls \in [CallIds -> Call \cup {Idle}] BY DEF NativeInv, NativeTypeOK
<1>4. round'[x] = new /\ new # NoRound
  BY <1>1, <1>2, FreshAssumption DEF NativeInv, NativeTypeOK, Save
<1>5. CallsStep
  <2>1. CASE UNCHANGED calls BY <1>3, <2>1 DEF CallsStep
  <2>2. CASE \E c \in CallIds : calls[c] = Idle /\ Place(c, Opening(x))
    <3>1. PICK c \in CallIds : calls[c] = Idle /\ Place(c, Opening(x)) BY <2>2
    <3>2. calls'[c] = Opening(x) /\ \A d \in CallIds : d # c => calls'[d] = calls[d]
      BY <1>3, <3>1 DEF Place
    <3>3. CallSound(calls[c])'
      BY <1>4, <3>2, OpeningSound DEF CallSound, OfRound, InPhase, Answered, Known
    <3>4. calls' \in [CallIds -> Call \cup {Idle}]
      BY <1>3, <3>1, OpeningSound DEF Place
    <3>5. QED BY <3>1, <3>2, <3>3, <3>4 DEF CallsStep, Waits
  <2>3. QED BY <2>1, <2>2 DEF Create
<1>6. QED BY <1>1, <1>2, <1>5, SaveKeeps

LEMMA LocalKeeps ==
  ASSUME NativeInv, NEW x \in RoundIds, Known(x), LocalStep(x, round[x])
  PROVE  NativeInv'
<1>1. round[x] \in Round /\ RoundSound(round[x])
  BY DEF NativeInv, NativeTypeOK, RoundsSound, Known
<1>2. PICK new : Evolves(round[x], new) /\ Update(x, new)
  BY <1>1, LocalStepEvolves
<1>3. new \in Round /\ RoundSound(new) /\ SameClaims(round[x], new)
  BY <1>2 DEF Evolves
<1>4. Save(x, new) /\ UNCHANGED <<calls, unmined, chainVars>> BY <1>2 DEF Update
<1>5. CallsStep BY <1>4 DEF CallsStep, NativeInv, NativeTypeOK
<1>6. QED BY <1>3, <1>4, <1>5, SaveKeeps
-----------------------------------------------------------------------------
(* A handler resumes.                                                      *)

LEMMA DoneFacts ==
  ASSUME NativeInv, NEW c \in CallIds, calls[c] # Idle, calls[c].phase = "done"
  PROVE  LET call == calls[c]
             rd == round[call.round]
         IN /\ call \in Call /\ call.round \in RoundIds /\ call.slot \in Slot
            /\ rd \in Round /\ RoundSound(rd) /\ Known(call.round)
            /\ call.op # "open" => call.race \in RaceId /\ call.race = rd.chainRaceId
            /\ call.op = "open" => call.race \in RaceId /\ raceStatus[call.race] \in Reached("Created")
            /\ call.op = "confirm" =>
                 /\ entrant[call.race][call.slot] # NoWallet
                 /\ (\A t \in Slot : entrant[call.race][t] # NoWallet) =>
                      raceStatus[call.race] \in Reached("Joined")
            /\ call.op \in MarkOps => raceStatus[call.race] \in Reached(Claim[Marks[call.op]])
<1> DEFINE call == calls[c]
           rd == round[call.round]
<1>1. call \in Call /\ OfRound(call) /\ InPhase(call) /\ Answered(call) /\ NativeTypeOK /\ ChainSound
  BY DEF NativeInv, NativeTypeOK, CallsSound, CallSound
<1>2. call.round \in RoundIds /\ call.slot \in Slot /\ Known(call.round)
  BY <1>1 DEF Call, OfRound
<1>3. rd \in Round /\ RoundSound(rd)
  BY <1>2 DEF NativeInv, NativeTypeOK, RoundsSound, Known
<1>4. call.op # "open" => call.race \in RaceId /\ call.race = rd.chainRaceId
  BY <1>1 DEF Call, OfRound
<1>5. call.op = "open" => call.race \in RaceId /\ raceStatus[call.race] \in Reached("Created")
  <2>1. SUFFICES ASSUME call.op = "open"
                 PROVE  call.race \in RaceId /\ raceStatus[call.race] \in Reached("Created")
    OBVIOUS
  <2>2. call.race \in RaceId /\ call.race < nextRaceId
    BY <1>1, <2>1 DEF InPhase, Answered
  <2>3. raceStatus[call.race] \in RaceStatus \ {"None"}
    BY <1>1, <2>2 DEF NativeTypeOK, ChainSound
  <2>4. QED BY <2>2, <2>3, ReachedFacts
<1>6. call.op = "confirm" =>
        /\ entrant[call.race][call.slot] # NoWallet
        /\ (\A t \in Slot : entrant[call.race][t] # NoWallet) =>
             raceStatus[call.race] \in Reached("Joined")
  BY <1>1, <1>4 DEF Answered, ChainSound
<1>7. call.op \in MarkOps => raceStatus[call.race] \in Reached(Claim[Marks[call.op]])
  BY <1>1 DEF Answered
<1> HIDE DEF call, rd
<1>8. QED BY <1>1, <1>2, <1>3, <1>4, <1>5, <1>6, <1>7 DEF call, rd

LEMMA MarkedEvolves ==
  ASSUME NativeInv, NEW c \in CallIds, calls[c] # Idle, calls[c].phase = "done",
         Accepts(calls[c], round[calls[c].round])
  PROVE  /\ Evolves(round[calls[c].round], Marked(calls[c], round[calls[c].round]))
         /\ calls[c].op = "finish" =>
              Marked(calls[c], round[calls[c].round]).chainStatus = "finished"
<1> DEFINE call == calls[c]
           rd == round[call.round]
           marked == markChain(rd, Marks[call.op])
<1>1. /\ call \in Call /\ call.round \in RoundIds /\ call.slot \in Slot
      /\ rd \in Round /\ RoundSound(rd) /\ Known(call.round)
      /\ call.op # "open" => call.race \in RaceId /\ call.race = rd.chainRaceId
      /\ call.op = "open" => call.race \in RaceId /\ raceStatus[call.race] \in Reached("Created")
      /\ call.op = "confirm" =>
           /\ entrant[call.race][call.slot] # NoWallet
           /\ (\A t \in Slot : entrant[call.race][t] # NoWallet) =>
                raceStatus[call.race] \in Reached("Joined")
      /\ call.op \in MarkOps => raceStatus[call.race] \in Reached(Claim[Marks[call.op]])
  BY DoneFacts
<1>2. Accepts(call, rd) OBVIOUS
<1> HIDE DEF call, rd
<1>3. CASE call.op = "open"
  <2>1. Evolves(rd, attachChainRace(rd, call.race))
    BY <1>1, <1>2, <1>3, AttachEvolves DEF Accepts
  <2>2. Marked(call, rd) = attachChainRace(rd, call.race) BY <1>3 DEF Marked
  <2>3. QED BY <1>3, <2>1, <2>2 DEF call, rd
<1>4. CASE call.op = "confirm"
  <2>1. Evolves(rd, markNativeChainJoined(rd, call.slot))
    BY <1>1, <1>2, <1>4, ConfirmEvolves DEF Accepts
  <2>2. Marked(call, rd) = markNativeChainJoined(rd, call.slot) BY <1>4 DEF Marked
  <2>3. QED BY <1>4, <2>1, <2>2 DEF call, rd
<1>5. CASE call.op \in MarkOps
  <2>1. rd.chainRaceId = call.race /\ call.race \in RaceId /\ rd.chainRaceId # NoRace
    BY <1>1, <1>5, NativeNames DEF MarkOps
  <2>2. CanMarkChain(rd, Marks[call.op])
    BY <1>2, <1>5 DEF Accepts, MarkOps
  <2>3. /\ Evolves(rd, marked) /\ marked.chainStatus = Marks[call.op]
        /\ call.op \notin {"settle", "cancel"} => marked.status = rd.status
    BY <1>1, <1>5, <2>1, <2>2, MarkEvolves
  <2>4. call.op \in DOMAIN Marks BY <1>5 DEF Marks, MarkOps
  <2> HIDE DEF marked
  <2>5. CASE call.op = "lock" /\ rd.status = "ready"
    <3>1. Marked(call, rd) = WithStatus(marked, "locked")
      BY <2>4, <2>5 DEF Marked, marked
    <3>2. marked.status = "ready" /\ marked.chainStatus = "locked"
      BY <2>3, <2>5 DEF Marks
    <3>3. Evolves(marked, WithStatus(marked, "locked"))
      BY <2>3, <3>2, StatusEvolves DEF Evolves, CanLockRound, Running
    <3>4. Evolves(rd, WithStatus(marked, "locked")) BY <2>3, <3>3, EvolvesOn
    <3>5. QED BY <2>5, <3>1, <3>4 DEF call, rd
  <2>6. CASE call.op = "start" /\ rd.status = "countdown"
    <3>1. Marked(call, rd) = WithStatus(marked, "racing")
      BY <2>4, <2>6 DEF Marked, marked
    <3>2. marked.status = "countdown" BY <2>3, <2>6
    <3>3. Evolves(marked, WithStatus(marked, "racing"))
      BY <2>3, <3>2, StatusEvolves DEF Evolves, Running
    <3>4. Evolves(rd, WithStatus(marked, "racing")) BY <2>3, <3>3, EvolvesOn
    <3>5. QED BY <2>6, <3>1, <3>4 DEF call, rd
  <2>7. CASE ~(call.op = "lock" /\ rd.status = "ready") /\ ~(call.op = "start" /\ rd.status = "countdown")
    <3>1. Marked(call, rd) = marked
      BY <1>5, <2>4, <2>7 DEF Marked, marked, MarkOps
    <3>2. call.op = "finish" => Marks[call.op] = "finished" BY DEF Marks
    <3>3. QED BY <2>3, <3>1, <3>2 DEF call, rd
  <2>8. QED BY <2>5, <2>6, <2>7
<1>6. call.op \in TransactionOp \cup {"confirm"} BY <1>1 DEF Call
<1>7. QED BY <1>3, <1>4, <1>5, <1>6 DEF TransactionOp, MarkOps

LEMMA ResumeKeeps ==
  ASSUME NativeInv, NEW c \in CallIds, Resume(c)
  PROVE  NativeInv'
<1> DEFINE call == calls[c]
           x == call.round
           marked == Marked(call, round[x])
           next == IF call.op = "finish" THEN SettleCall(x, marked) ELSE Idle
<1>1. call # Idle /\ call.phase = "done" /\ ~Waits(c) /\ UNCHANGED <<unmined, chainVars>>
  BY DEF Resume, Waits
<1>2. x \in RoundIds /\ round[x] \in Round /\ RoundSound(round[x]) /\ Known(x)
      /\ (call.op # "open" => call.race \in RaceId /\ call.race = round[x].chainRaceId)
  BY <1>1, DoneFacts
<1>3. CASE ~Accepts(call, round[x])
  BY <1>1, <1>3, PlaceKeeps DEF Resume
<1>4. CASE Accepts(call, round[x])
  <2>1. Save(x, marked) /\ Place(c, next) BY <1>4 DEF Resume
  <2>2. /\ Evolves(round[x], marked)
        /\ call.op = "finish" => marked.chainStatus = "finished"
    BY <1>1, <1>4, MarkedEvolves
  <2> HIDE DEF marked
  <2>3. marked \in Round /\ RoundSound(marked) /\ SameClaims(round[x], marked)
    BY <2>2 DEF Evolves
  <2>4. calls \in [CallIds -> Call \cup {Idle}] /\ round \in [RoundIds -> Round \cup {NoRound}]
    BY DEF NativeInv, NativeTypeOK
  <2>5. round'[x] = marked /\ marked # NoRound
    BY <1>2, <2>1, <2>3, <2>4, FreshAssumption DEF Save
  <2>6. calls'[c] = next /\ \A d \in CallIds : d # c => calls'[d] = calls[d]
    BY <2>1, <2>4 DEF Place
  <2>7. next = Idle \/ (next \in Call /\ CallSound(calls[c])')
    <3>1. CASE call.op # "finish" BY <3>1
    <3>2. CASE call.op = "finish"
      <4>1. MadeFrom(SettleCall(x, marked), x, marked)
        BY <1>2, <2>2, <2>3, <3>2, SettleMade
      <4>2. marked.chainRaceId # NoRace
        BY <1>2, <2>3, <3>2, NativeNames DEF SameClaims
      <4> HIDE DEF x
      <4>3. next = SettleCall(x, marked) BY <3>2
      <4> HIDE DEF next
      <4>4. CallSound(calls[c])'
        BY <2>5, <2>6, <4>1, <4>2, <4>3
           DEF MadeFrom, CallSound, OfRound, InPhase, Answered, MarkOps, Known
      <4>5. QED BY <4>1, <4>3, <4>4 DEF MadeFrom
    <3>3. QED BY <3>1, <3>2
  <2> HIDE DEF next
  <2>8. CallsStep BY <1>1, <2>1, <2>4, <2>6, <2>7 DEF CallsStep, Place
  <2>9. QED BY <1>1, <1>2, <2>1, <2>3, <2>8, SaveKeeps
<1>5. QED BY <1>3, <1>4
-----------------------------------------------------------------------------
(* The chain goes on under the rounds and the transactions.                *)

LEMMA RoundsKept ==
  ASSUME NativeInv, UNCHANGED round, ChainGrows
  PROVE  RoundsSound'
<1>1. SUFFICES ASSUME NEW x \in RoundIds, Known(x)
               PROVE  RoundSound(round[x])'
  BY DEF RoundsSound, Known
<1>2. PICK rd \in Round : RoundSound(rd) /\ round[x] = rd /\ round'[x] = rd
  BY <1>1 DEF NativeInv, NativeTypeOK, RoundsSound, Known
<1>3. CASE rd.chainRaceId = NoRace
  BY <1>2, <1>3 DEF RoundSound, Shaped, Detached
<1>4. CASE rd.chainRaceId # NoRace
  <2>1. PICK race \in RaceId : race = rd.chainRaceId BY <1>4 DEF Round
  <2>2. Claims(rd, race) BY <1>2, <1>4, <2>1 DEF RoundSound
  <2>3. Claim[rd.chainStatus] \in Stages /\ "Locked" \in Stages
    BY <2>2, StageFacts DEF Claims, Round, Stages
  <2>4. GoesOn(raceStatus[race], raceStatus'[race])
        /\ \A s \in Slot : entrant[race][s] # NoWallet => entrant'[race][s] # NoWallet
    BY DEF ChainGrows
  <2>5. /\ raceStatus'[race] \in Reached(Claim[rd.chainStatus])
        /\ rd.status \in {"locked", "countdown", "racing"} => raceStatus'[race] \in Reached("Locked")
    BY <2>2, <2>3, <2>4 DEF Claims, GoesOn
  <2>6. Claims(rd, race)' BY <2>2, <2>4, <2>5 DEF Claims
  <2>7. QED BY <1>2, <1>4, <2>1, <2>6 DEF RoundSound, Shaped, Claims
<1>5. QED BY <1>3, <1>4

LEMMA ResultsKept ==
  ASSUME NativeInv, UNCHANGED round, ChainGrows,
         \A r \in RaceId : NewResult(r) => WonBy(r, winnerSlot'[r])
  PROVE  ResultsWon'
<1>1. SUFFICES ASSUME NEW r \in RaceId, raceStatus'[r] \in {"Finished", "Settled"}
               PROVE  WonBy(r, winnerSlot'[r])
  BY DEF ResultsWon, WonBy, Known
<1>2. CASE NewResult(r) BY <1>2
<1>3. CASE ~NewResult(r)
  <2>1. raceStatus[r] \in {"Finished", "Settled"} BY <1>1, <1>3 DEF NewResult
  <2>2. winnerSlot'[r] = winnerSlot[r] BY <1>1, <2>1 DEF ChainGrows
  <2>3. WonBy(r, winnerSlot[r]) BY <2>1 DEF NativeInv, ResultsWon
  <2>4. QED BY <2>2, <2>3 DEF WonBy
<1>4. QED BY <1>2, <1>3

LEMMA SendKeeps ==
  ASSUME NativeInv, NEW c \in CallIds, SendTransaction(c)
  PROVE  NativeInv'
<1> DEFINE call == calls[c]
           new == [call EXCEPT !.phase = "sent"]
<1>1. /\ call # Idle /\ call.phase = "asked" /\ Len(unmined) < MaxPending /\ WouldSucceed(call)
      /\ unmined' = Append(unmined, [op |-> call.op, race |-> call.race,
                                     winner |-> call.winner, by |-> c])
      /\ Place(c, new) /\ UNCHANGED <<round, chainVars>>
  BY DEF SendTransaction
<1>2. call \in Call /\ OfRound(call) /\ InPhase(call)
  BY <1>1 DEF NativeInv, NativeTypeOK, CallsSound, CallSound
<1>3. call.op \in TransactionOp
  BY <1>1, <1>2 DEF Call, InPhase
<1>4. /\ new \in Call /\ new.op = call.op /\ new.phase = "sent" /\ new.round = call.round
      /\ new.race = call.race /\ new.winner = call.winner
  BY <1>2 DEF Call
<1>5. PICK tx \in Sent : /\ unmined' = Append(unmined, tx)
                         /\ tx.op = call.op /\ tx.race = call.race /\ tx.winner = call.winner
                         /\ tx.by = c
  BY <1>1, <1>2, <1>3 DEF Sent, Call
<1>6. calls \in [CallIds -> Call \cup {Idle}] /\ unmined \in Seq(Sent)
  BY DEF NativeInv, NativeTypeOK
<1> HIDE DEF new
<1>7. calls'[c] = new /\ \A d \in CallIds : d # c => calls'[d] = calls[d]
  BY <1>1, <1>6 DEF Place
<1>8. calls' \in [CallIds -> Call \cup {Idle}] BY <1>1, <1>4, <1>6 DEF Place
<1>9. new # Idle BY <1>4, FreshAssumption
<1>10. /\ unmined' \in Seq(Sent) /\ Len(unmined') = Len(unmined) + 1
       /\ \A i \in 1..Len(unmined) : unmined'[i] = unmined[i]
       /\ unmined'[Len(unmined) + 1] = tx
  BY <1>5, <1>6, AppendProperties
<1>11. /\ DOMAIN unmined = 1..Len(unmined) /\ Len(unmined) \in Nat
       /\ DOMAIN unmined' = 1..(Len(unmined) + 1)
  BY <1>6, <1>10, LenProperties
<1>12. RoundsGrow BY <1>1, RoundsStay
<1>13. ChainSound' /\ ResultsWon' /\ ChainGrows /\ nextRaceId' \in Nat
  BY <1>1, <1>12, ChainUnchanged
<1>14. RoundsSound' BY <1>1, <1>13, RoundsKept
<1>15. NativeTypeOK'
  BY <1>1, <1>8, <1>10, <1>11, NativeAssumption DEF NativeInv, NativeTypeOK, chainVars
<1>16. CallsSound'
  <2>1. OfRound(call) /\ InPhase(call) /\ call.op # "confirm"
    BY <1>2, <1>3 DEF TransactionOp
  <2> HIDE DEF call
  <2>2. CallSound(calls[c])'
    BY <1>1, <1>4, <1>7, <2>1
       DEF CallSound, OfRound, InPhase, Answered, Known, chainVars
  <2>3. QED BY <1>7, <1>12, <1>13, <2>2, CallsKept
<1>17. call.op # "open" => call.race \in RaceId /\ raceStatus[call.race] \in Reached(Needs[call.op])
  <2>1. SUFFICES ASSUME call.op # "open"
                 PROVE  call.race \in RaceId /\ raceStatus[call.race] \in Reached(Needs[call.op])
    OBVIOUS
  <2>2. call.race \in RaceId BY <1>2, <2>1 DEF OfRound, Call
  <2>3. raceStatus[call.race] \in RaceStatus BY <2>2 DEF NativeInv, NativeTypeOK
  <2>4. CASE call.op = "lock" BY <1>1, <2>2, <2>4 DEF WouldSucceed, Needs, Reached, RaceStatus
  <2>5. CASE call.op = "start" BY <1>1, <2>2, <2>5 DEF WouldSucceed, Needs, Reached
  <2>6. CASE call.op = "finish" BY <1>1, <2>2, <2>6 DEF WouldSucceed, Needs, Reached
  <2>7. CASE call.op = "settle" BY <1>1, <2>2, <2>7 DEF WouldSucceed, Needs, Reached
  <2>8. CASE call.op = "cancel" BY <1>1, <2>2, <2>3, <2>8 DEF WouldSucceed, Needs, Reached
  <2>9. QED BY <1>3, <2>1, <2>4, <2>5, <2>6, <2>7, <2>8 DEF TransactionOp
<1>18. call.op = "finish" => call.winner \in Slot /\ WonBy(call.race, call.winner)
  BY <1>2 DEF OfRound, Call, WonBy
<1> HIDE DEF call
<1>19. TransactionSound(tx)'
  BY <1>1, <1>5, <1>17, <1>18 DEF TransactionSound, WonBy, Known, chainVars
<1>20. Awaited(tx)'
  BY <1>4, <1>5, <1>7, <1>9 DEF Awaited
<1>21. ASSUME NEW i \in 1..Len(unmined)
       PROVE  TransactionSound(unmined[i])' /\ Awaited(unmined[i])' /\ unmined[i].by # c
  <2>1. unmined[i] \in Sent /\ TransactionSound(unmined[i]) /\ Awaited(unmined[i])
    BY <1>6, <1>11, <1>21 DEF NativeInv, TransactionsSound
  <2>2. unmined[i].by # c
    BY <1>1, <2>1, NativeAssumption DEF Awaited, call
  <2>3. SameTransaction(unmined'[i], unmined[i]) BY <1>10, <1>21, <2>1 DEF SameTransaction
  <2>4. TransactionSound(unmined[i])'
    BY <1>11, <1>12, <1>13, <1>21, <2>1, <2>3, TransactionKept DEF NativeInv
  <2>5. unmined'[i] = unmined[i] BY <1>10, <1>21
  <2>6. Awaited(unmined[i])'
    BY <1>7, <2>1, <2>2, <2>5 DEF Awaited, Sent
  <2>7. QED BY <2>2, <2>4, <2>6
<1>22. TransactionsSound'
  <2>1. ASSUME NEW i \in DOMAIN unmined'
        PROVE  i \in 1..Len(unmined) \/ i = Len(unmined) + 1
    BY <1>11, <2>1
  <2>2. ASSUME NEW i \in DOMAIN unmined'
        PROVE  TransactionSound(unmined[i])' /\ Awaited(unmined[i])'
    <3>1. CASE i \in 1..Len(unmined) BY <1>21, <3>1
    <3>2. CASE i = Len(unmined) + 1
      <4>1. unmined'[i] = tx BY <1>10, <3>2
      <4>2. QED BY <1>19, <1>20, <4>1 DEF TransactionSound, Awaited
    <3>3. QED BY <2>1, <2>2, <3>1, <3>2
  <2>3. ASSUME NEW i \in DOMAIN unmined', NEW j \in DOMAIN unmined', unmined'[i].by = unmined'[j].by
        PROVE  i = j \/ unmined'[i].by = Idle
    <3>1. CASE i \in 1..Len(unmined) /\ j \in 1..Len(unmined)
      BY <1>10, <1>11, <2>3, <3>1 DEF NativeInv, TransactionsSound
    <3>2. CASE i = Len(unmined) + 1 \/ j = Len(unmined) + 1
      BY <1>5, <1>10, <1>21, <2>1, <2>3, <3>2
    <3>3. QED BY <2>1, <2>3, <3>1, <3>2
  <2>4. QED BY <2>2, <2>3 DEF TransactionsSound
<1>23. QED BY <1>13, <1>14, <1>15, <1>16, <1>22 DEF NativeInv

LEMMA GiveUpKeeps ==
  ASSUME NativeInv, NEW c \in CallIds, GiveUp(c)
  PROVE  NativeInv'
<1>1. /\ Place(c, Idle) /\ UNCHANGED <<round, chainVars>>
      /\ unmined' = [i \in DOMAIN unmined |->
                       IF unmined[i].by = c THEN [unmined[i] EXCEPT !.by = Idle] ELSE unmined[i]]
  BY DEF GiveUp
<1>2. calls \in [CallIds -> Call \cup {Idle}] /\ unmined \in Seq(Sent)
  BY DEF NativeInv, NativeTypeOK
<1>3. calls'[c] = Idle /\ \A d \in CallIds : d # c => calls'[d] = calls[d]
  BY <1>1, <1>2 DEF Place
<1>4. calls' \in [CallIds -> Call \cup {Idle}] BY <1>1, <1>2 DEF Place
<1>5. /\ DOMAIN unmined = 1..Len(unmined) /\ Len(unmined) \in Nat
      /\ \A i \in 1..Len(unmined) : unmined[i] \in Sent
  BY <1>2, LenProperties, ElementOfSeq
<1>6. ASSUME NEW i \in 1..Len(unmined)
      PROVE  /\ SameTransaction(unmined'[i], unmined[i])
             /\ unmined[i].by = c => unmined'[i].by = Idle
             /\ unmined[i].by # c => unmined'[i].by = unmined[i].by
  <2>1. unmined[i] \in Sent BY <1>5
  <2>2. CASE unmined[i].by = c
    <3>1. unmined'[i] = [unmined[i] EXCEPT !.by = Idle] BY <1>1, <1>5, <2>2
    <3>2. [unmined[i] EXCEPT !.by = Idle] \in Sent BY <2>1 DEF Sent
    <3>3. QED BY <2>1, <2>2, <3>1, <3>2 DEF SameTransaction, Sent
  <2>3. CASE unmined[i].by # c
    <3>1. unmined'[i] = unmined[i] BY <1>1, <1>5, <2>3
    <3>2. QED BY <2>1, <2>3, <3>1 DEF SameTransaction
  <2>4. QED BY <2>2, <2>3
<1>7. /\ unmined' \in [1..Len(unmined) -> Sent]
  BY <1>1, <1>5, <1>6 DEF SameTransaction
<1>8. unmined' \in Seq(Sent) BY <1>5, <1>7, SeqDef
<1>9. DOMAIN unmined' = 1..Len(unmined) BY <1>7
<1>10. Len(unmined') = Len(unmined) BY <1>5, <1>8, <1>9, LenProperties
<1>11. RoundsGrow BY <1>1, RoundsStay
<1>12. ChainSound' /\ ResultsWon' /\ ChainGrows /\ nextRaceId' \in Nat
  BY <1>1, <1>11, ChainUnchanged
<1>13. RoundsSound' BY <1>1, <1>12, RoundsKept
<1>14. NativeTypeOK'
  BY <1>1, <1>4, <1>8, <1>10 DEF NativeInv, NativeTypeOK, chainVars
<1>15. CallsSound' BY <1>3, <1>11, <1>12, CallsKept
<1>16. TransactionsSound'
  <2>1. ASSUME NEW i \in 1..Len(unmined)
        PROVE  TransactionSound(unmined[i])' /\ Awaited(unmined[i])'
    <3>1. unmined[i] \in Sent /\ TransactionSound(unmined[i]) /\ Awaited(unmined[i])
      BY <1>5 DEF NativeInv, TransactionsSound
    <3>2. TransactionSound(unmined[i])'
      BY <1>5, <1>6, <1>11, <1>12, <3>1, TransactionKept DEF NativeInv
    <3>3. Awaited(unmined[i])'
      BY <1>3, <1>6, <3>1 DEF Awaited, Sent, SameTransaction
    <3>4. QED BY <3>2, <3>3
  <2>2. ASSUME NEW i \in 1..Len(unmined), NEW j \in 1..Len(unmined), unmined'[i].by = unmined'[j].by
        PROVE  i = j \/ unmined'[i].by = Idle
    <3>1. unmined[i].by = unmined[j].by => i = j \/ unmined[i].by = Idle
      BY <1>5 DEF NativeInv, TransactionsSound
    <3>2. QED BY <1>6, <2>2, <3>1
  <2>3. QED BY <1>9, <2>1, <2>2 DEF TransactionsSound
<1>17. QED BY <1>12, <1>13, <1>14, <1>15, <1>16 DEF NativeInv

(* A transaction is mined.                                                 *)
LEMMA MineKeeps ==
  ASSUME NativeInv, Mine
  PROVE  NativeInv'
<1>1. calls \in [CallIds -> Call \cup {Idle}] /\ unmined \in Seq(Sent) /\ unmined # <<>>
  BY DEF NativeInv, NativeTypeOK, Mine
<1>2. /\ DOMAIN unmined = 1..Len(unmined) /\ Len(unmined) \in Nat \ {0}
      /\ \A i \in 1..Len(unmined) : unmined[i] \in Sent
  BY <1>1, LenProperties, ElementOfSeq, EmptySeq
<1>3. PICK tx \in Sent : tx = Head(unmined) /\ tx = unmined[1]
  BY <1>1, <1>2
<1>4. /\ Transaction(tx) \/ (~WouldSucceed(tx) /\ UNCHANGED chainVars)
      /\ unmined' = Tail(unmined)
      /\ calls' = [c \in CallIds |->
                     IF c = tx.by THEN [calls[c] EXCEPT !.phase = "done"] ELSE calls[c]]
      /\ UNCHANGED round
  BY <1>3 DEF Mine
<1>5. TransactionSound(tx) /\ Awaited(tx)
  BY <1>2, <1>3 DEF NativeInv, TransactionsSound
<1>6. Mined(tx) BY <1>4, <1>5, TransactionMined
<1>7. /\ unmined' \in Seq(Sent) /\ Len(unmined') = Len(unmined) - 1
      /\ DOMAIN unmined' = 1..(Len(unmined) - 1)
      /\ \A i \in 1..(Len(unmined) - 1) : unmined'[i] = unmined[i + 1]
  BY <1>1, <1>4, HeadTailProperties, LenProperties
<1>8. ChainTyped' /\ ChainSound' /\ ChainGrows BY <1>6 DEF Mined, ChainMoves
<1>9. nextRaceId' \in Nat /\ nextRaceId' >= nextRaceId /\ nextRaceId \in Nat
  BY <1>8, NativeAssumption DEF ChainTyped, ChainGrows, NativeInv, NativeTypeOK
<1>10. RoundsGrow BY <1>4, RoundsStay
<1>11. RoundsSound' BY <1>4, <1>8, RoundsKept
<1>12. ResultsWon'
  <2>1. ASSUME NEW r \in RaceId, NewResult(r) PROVE WonBy(r, winnerSlot'[r])
    BY <1>5, <1>6, <2>1 DEF Mined, TransactionSound
  <2>2. QED BY <1>4, <1>8, <2>1, ResultsKept
<1>13. ASSUME NEW c \in CallIds, c = tx.by
       PROVE  calls'[c] \in Call /\ CallSound(calls[c])'
  <2>1. /\ calls[c] # Idle /\ calls[c].phase = "sent" /\ calls[c].op = tx.op
        /\ calls[c].race = tx.race
    BY <1>5, <1>13, NativeAssumption DEF Awaited
  <2>2. PICK call \in Call : call = calls[c] BY <1>1, <2>1
  <2>3. OfRound(call) /\ InPhase(call)
    BY <2>1, <2>2 DEF NativeInv, CallsSound, CallSound
  <2> DEFINE done == [call EXCEPT !.phase = "done"]
  <2>4. /\ done \in Call /\ done.phase = "done" /\ done.op = call.op
         /\ done.race = call.race /\ done.round = call.round /\ done.winner = call.winner
    BY DEF Call
  <2>5. calls'[c] = done BY <1>4, <1>13, <2>2
  <2> HIDE DEF done
  <2>6. PICK new \in Call : /\ new = calls'[c] /\ new.phase = "done" /\ new.op = tx.op
                            /\ new.race = tx.race /\ new.round = call.round
                            /\ new.winner = call.winner
    BY <2>1, <2>2, <2>4, <2>5
  <2>7. tx.op \in TransactionOp /\ tx.op # "confirm" BY DEF Sent, TransactionOp
  <2>8. OfRound(new)'
    BY <1>4, <2>1, <2>2, <2>3, <2>6 DEF OfRound, Known
  <2>9. tx.op = "open" => tx.race \in RaceId /\ tx.race <= nextRaceId
    BY <2>1, <2>2, <2>3 DEF InPhase
  <2>10. tx.op = "open" => tx.race < nextRaceId'
    BY <1>6, <2>9 DEF Mined
  <2>11. InPhase(new)'
    BY <2>6, <2>7, <2>9, <2>10, <1>9 DEF InPhase, RaceId
  <2>12. Answered(new)'
    BY <1>6, <2>6, <2>7, <2>10 DEF Answered, Mined
  <2>13. QED BY <2>6, <2>8, <2>11, <2>12 DEF CallSound, OfRound, InPhase, Answered
<1>14. \A c \in CallIds : c # tx.by => calls'[c] = calls[c] BY <1>4
<1>15. calls' \in [CallIds -> Call \cup {Idle}]
  <2>1. \A c \in CallIds : calls'[c] \in Call \cup {Idle} BY <1>1, <1>13, <1>14
  <2>2. QED BY <1>4, <2>1
<1>16. CallsSound' BY <1>8, <1>9, <1>10, <1>13, <1>14, CallsKept
<1>17. NativeTypeOK'
  <2>1. Len(unmined') <= MaxPending
    BY <1>2, <1>7, NativeAssumption DEF NativeInv, NativeTypeOK
  <2>2. round' \in [RoundIds -> Round \cup {NoRound}] BY <1>4 DEF NativeInv, NativeTypeOK
  <2>3. QED BY <1>7, <1>8, <1>15, <2>1, <2>2 DEF NativeTypeOK, ChainTyped
<1>18. TransactionsSound'
  <2>1. ASSUME NEW i \in 1..(Len(unmined) - 1)
        PROVE  /\ i + 1 \in 1..Len(unmined) /\ i + 1 # 1
               /\ unmined'[i] = unmined[i + 1]
    BY <1>2, <1>7, <2>1
  <2>2. ASSUME NEW i \in 1..(Len(unmined) - 1)
        PROVE  TransactionSound(unmined[i])' /\ Awaited(unmined[i])'
    <3>1. /\ unmined[i + 1] \in Sent /\ TransactionSound(unmined[i + 1]) /\ Awaited(unmined[i + 1])
      BY <1>2, <2>1 DEF NativeInv, TransactionsSound
    <3>2. SameTransaction(unmined'[i], unmined[i + 1]) BY <2>1, <3>1 DEF SameTransaction
    <3>3. TransactionSound(unmined[i])'
      BY <1>2, <1>8, <1>10, <2>1, <3>1, <3>2, TransactionKept DEF NativeInv
    <3>4. unmined[i + 1].by = tx.by => tx.by = Idle
      BY <1>2, <1>3, <2>1 DEF NativeInv, TransactionsSound
    <3>5. Awaited(unmined[i])'
      BY <1>14, <2>1, <3>1, <3>4 DEF Awaited, Sent
    <3>6. QED BY <3>3, <3>5
  <2>3. ASSUME NEW i \in 1..(Len(unmined) - 1), NEW j \in 1..(Len(unmined) - 1),
               unmined'[i].by = unmined'[j].by
        PROVE  i = j \/ unmined'[i].by = Idle
    <3>1. i + 1 = j + 1 \/ unmined[i + 1].by = Idle
      BY <1>2, <2>1, <2>3 DEF NativeInv, TransactionsSound
    <3>2. QED BY <2>1, <3>1
  <2>4. QED BY <1>7, <2>2, <2>3 DEF TransactionsSound
<1>19. QED BY <1>8, <1>11, <1>12, <1>16, <1>17, <1>18 DEF NativeInv

LEMMA DriverJoinsKeeps ==
  ASSUME NativeInv, DriverJoins
  PROVE  NativeInv'
<1>1. PICK x \in RoundIds, s \in Slot, w \in Wallets :
        Known(x) /\ round[x].chainRaceId # NoRace /\ Chain!Join(round[x].chainRaceId, s, w)
  BY DEF DriverJoins
<1>2. UNCHANGED <<round, calls, unmined>> BY DEF DriverJoins
<1>3. PICK race \in RaceId : Chain!Join(race, s, w)
  BY <1>1 DEF NativeInv, NativeTypeOK, Known, Round
<1>4. ChainTyped /\ ChainSound BY DEF NativeInv, NativeTypeOK, ChainTyped
<1>5. ChainMoves /\ \A q \in RaceId : ~NewResult(q)
  BY <1>3, <1>4, JoinMoves
<1>6. ChainTyped' /\ ChainSound' /\ ChainGrows BY <1>5 DEF ChainMoves
<1>7. nextRaceId' \in Nat BY <1>6, NativeAssumption DEF ChainTyped
<1>8. RoundsGrow BY <1>2, RoundsStay
<1>9. RoundsSound' BY <1>2, <1>6, RoundsKept
<1>10. ResultsWon' BY <1>2, <1>5, <1>6, ResultsKept
<1>11. CallsSound' BY <1>2, <1>6, <1>7, <1>8, CallsKept
<1>12. TransactionsSound' BY <1>2, <1>6, <1>8, TransactionsStay
<1>13. NativeTypeOK' BY <1>2, <1>6 DEF NativeInv, NativeTypeOK, ChainTyped
<1>14. QED BY <1>6, <1>9, <1>10, <1>11, <1>12, <1>13 DEF NativeInv

LEMMA NextKeeps ==
  ASSUME NativeInv, [NativeNext]_nativeVars
  PROVE  NativeInv'
<1>1. CASE \E x \in RoundIds : Create(x) BY <1>1, CreateKeeps
<1>2. CASE \E x \in RoundIds : Known(x) /\ LocalStep(x, round[x]) BY <1>2, LocalKeeps
<1>3. CASE \E c \in CallIds : CallStep(c)
  <2>1. PICK c \in CallIds : CallStep(c) BY <1>3
  <2>2. CASE \E x \in RoundIds : Request(c, x) BY <2>2, RequestKeeps
  <2>3. CASE ReadNextRaceId(c) \/ ReadJoin(c) \/ Reject(c) BY <2>3, ReadKeeps
  <2>4. CASE SendTransaction(c) BY <2>4, SendKeeps
  <2>5. CASE GiveUp(c) BY <2>5, GiveUpKeeps
  <2>6. CASE Resume(c) BY <2>6, ResumeKeeps
  <2>7. QED BY <2>1, <2>2, <2>3, <2>4, <2>5, <2>6 DEF CallStep
<1>4. CASE Mine BY <1>4, MineKeeps
<1>5. CASE DriverJoins BY <1>5, DriverJoinsKeeps
<1>6. CASE UNCHANGED nativeVars
  <2>1. UNCHANGED <<round, unmined, chainVars>> /\ UNCHANGED calls
    BY <1>6 DEF nativeVars, chainVars
  <2>2. CallsStep BY <2>1 DEF CallsStep, NativeInv, NativeTypeOK
  <2>3. QED BY <2>1, <2>2, CallsStepKeeps
<1>7. QED BY <1>1, <1>2, <1>3, <1>4, <1>5, <1>6 DEF NativeNext

LEMMA InitSound ==
  ASSUME NativeInit
  PROVE  NativeInv
<1>1. /\ round = [x \in RoundIds |-> NoRound] /\ calls = [c \in CallIds |-> Idle]
      /\ unmined = <<>> /\ Chain!Init
  BY DEF NativeInit
<1>2. /\ nextRaceId = 0 /\ raceStatus = [r \in RaceId |-> "None"]
      /\ \A r \in RaceId, s \in Slot : entrant[r][s] = NoWallet
      /\ ChainTyped
  BY <1>1, NativeAssumption, NativeSlots DEF Chain!Init, ChainTyped, RaceStatus
<1>3. unmined \in Seq(Sent) /\ Len(unmined) = 0 /\ DOMAIN unmined = {}
  BY <1>1
<1>4. NativeTypeOK BY <1>1, <1>2, <1>3, NativeAssumption DEF NativeTypeOK, ChainTyped
<1>5. RoundsSound /\ CallsSound BY <1>1 DEF RoundsSound, CallsSound, Known
<1>6. TransactionsSound BY <1>3 DEF TransactionsSound
<1>7. ChainSound /\ ResultsWon
  BY <1>2, NativeSlots DEF ChainSound, ResultsWon, RaceId
<1>8. QED BY <1>4, <1>5, <1>6, <1>7 DEF NativeInv
-----------------------------------------------------------------------------
(* The theorems.                                                           *)

(* Whatever calls are under way and whenever they are answered, mined,     *)
(* given up or resumed, the invariant holds (the clanker500 routes).       *)
THEOREM NativeInvariantHolds == NativeSpec => []NativeInv
<1>1. NativeInit => NativeInv BY InitSound
<1>2. NativeInv /\ [NativeNext]_nativeVars => NativeInv' BY NextKeeps
<1>3. QED BY <1>1, <1>2, PTL DEF NativeSpec

(* Every variable keeps its type, and no more transactions are sent than   *)
(* may be under way.                                                       *)
THEOREM NativeTypeCorrect == NativeSpec => []NativeTypeOK
<1>1. NativeInv => NativeTypeOK BY DEF NativeInv
<1>2. QED BY <1>1, NativeInvariantHolds, PTL

(* A driver the sidecar has down as joined has a stake in that slot of the *)
(* round's race (confirm-join, attachChainRace).                           *)
THEOREM ConfirmedStaked == NativeSpec => []ConfirmedIsStaked
<1>1. NativeInv => ConfirmedIsStaked
  <2>1. SUFFICES ASSUME NativeInv, NEW x \in RoundIds, NEW s \in Slot, Known(x),
                        round[x].drivers[s].chainJoined
                 PROVE  Attached(x) /\ entrant[round[x].chainRaceId][s] # NoWallet
    BY DEF ConfirmedIsStaked
  <2>2. RoundSound(round[x]) BY <2>1 DEF NativeInv, RoundsSound
  <2>3. round[x].chainRaceId # NoRace BY <2>1, <2>2 DEF RoundSound, Detached
  <2>4. QED BY <2>1, <2>2, <2>3 DEF RoundSound, Claims, Attached
<1>2. QED BY <1>1, NativeInvariantHolds, PTL

(* A round that has been locked and not cancelled has both stakes locked   *)
(* on chain (lockRoundLocal, attachChainRace).                             *)
THEOREM LockedStaked == NativeSpec => []LockedRoundsAreStaked
<1>1. NativeInv => LockedRoundsAreStaked
  <2>1. SUFFICES ASSUME NativeInv, NEW x \in RoundIds, Known(x),
                        round[x].status \in {"locked", "countdown", "racing"}
                 PROVE  /\ Attached(x)
                        /\ RaceOf(x) \notin {"None", "Created", "Joined"}
                        /\ \A s \in Slot : entrant[round[x].chainRaceId][s] # NoWallet
    BY DEF LockedRoundsAreStaked
  <2>2. RoundSound(round[x]) /\ Shaped(round[x])
    BY <2>1 DEF NativeInv, RoundsSound, RoundSound
  <2>3. \A s \in Slot : round[x].drivers[s].chainJoined BY <2>1, <2>2 DEF Shaped
  <2>4. round[x].chainRaceId # NoRace
    BY <2>2, <2>3, NativeSlots DEF RoundSound, Detached
  <2>5. Claims(round[x], round[x].chainRaceId) BY <2>2, <2>4 DEF RoundSound
  <2>6. raceStatus[round[x].chainRaceId] \in Reached("Locked") BY <2>1, <2>5 DEF Claims
  <2>7. RaceOf(x) \notin {"None", "Created", "Joined"}
    BY <2>6 DEF RaceOf, Reached
  <2>8. QED BY <2>1, <2>3, <2>4, <2>5, <2>7 DEF Claims, Attached
<1>2. QED BY <1>1, NativeInvariantHolds, PTL

(* No two rounds have the same race: what no test of attachChainRace       *)
(* ensures, since the id of the next race is read before it is opened.     *)
OneRoundPerRace ==
  \A x, y \in RoundIds :
    Attached(x) /\ Attached(y) /\ round[x].chainRaceId = round[y].chainRaceId => x = y

(* A round never says more of its race than is true, and while it has its  *)
(* race for itself the race's result is its own (the settle route).        *)
THEOREM NativeBehind ==
  NativeSpec => [](OneRoundPerRace => BehindUnlessCancelled)
<1>1. ASSUME NativeInv, OneRoundPerRace PROVE BehindUnlessCancelled
  <2>1. SUFFICES ASSUME NEW x \in RoundIds, Attached(x), round[x].chainStatus # "canceled",
                        RaceOf(x) # "Canceled"
                 PROVE  /\ \E i \in Said[round[x].chainStatus]..6 : RaceOf(x) = Order[i]
                        /\ RaceOf(x) \in {"Finished", "Settled"} =>
                             round[x].winner = winnerSlot[round[x].chainRaceId]
    BY DEF BehindUnlessCancelled
  <2>2. PICK rd \in Round, race \in RaceId : rd = round[x] /\ race = rd.chainRaceId
    BY <1>1, <2>1 DEF NativeInv, NativeTypeOK, Attached, Known, Round
  <2>3. Claims(rd, race) BY <1>1, <2>1, <2>2 DEF NativeInv, RoundsSound, RoundSound, Attached
  <2>4. rd.chainStatus \in ChainStatus \ {"not-opened", "canceled"}
        /\ raceStatus[race] \in Reached(Claim[rd.chainStatus])
        /\ raceStatus[race] # "Canceled" /\ RaceOf(x) = raceStatus[race]
    BY <2>1, <2>2, <2>3 DEF Claims, Round, RaceOf
  <2>5. \E i \in Said[rd.chainStatus]..6 : RaceOf(x) = Order[i]
    <3> DEFINE cs == rd.chainStatus
               st == raceStatus[race]
    <3>1. Order[1] = "Created" /\ Order[2] = "Joined" /\ Order[3] = "Locked"
          /\ Order[4] = "Started" /\ Order[5] = "Finished" /\ Order[6] = "Settled"
      BY DEF Order
    <3> HIDE DEF cs, st
    <3>2. CASE cs = "opened"
      <4>1. st \in {Order[1], Order[2], Order[3], Order[4], Order[5], Order[6]}
        BY <2>4, <3>1, <3>2 DEF Claim, Reached, RaceStatus, cs, st
      <4>2. Said[cs] = 1 BY <3>2 DEF Said
      <4>3. QED BY <2>4, <4>1, <4>2 DEF cs, st
    <3>3. CASE cs = "joined"
      <4>1. st \in {Order[2], Order[3], Order[4], Order[5], Order[6]}
        BY <2>4, <3>1, <3>3 DEF Claim, Reached, RaceStatus, cs, st
      <4>2. Said[cs] = 2 BY <3>3 DEF Said
      <4>3. QED BY <2>4, <4>1, <4>2 DEF cs, st
    <3>4. CASE cs = "locked"
      <4>1. st \in {Order[3], Order[4], Order[5], Order[6]}
        BY <2>4, <3>1, <3>4 DEF Claim, Reached, cs, st
      <4>2. Said[cs] = 3 BY <3>4 DEF Said
      <4>3. QED BY <2>4, <4>1, <4>2 DEF cs, st
    <3>5. CASE cs = "started"
      <4>1. st \in {Order[4], Order[5], Order[6]}
        BY <2>4, <3>1, <3>5 DEF Claim, Reached, cs, st
      <4>2. Said[cs] = 4 BY <3>5 DEF Said
      <4>3. QED BY <2>4, <4>1, <4>2 DEF cs, st
    <3>6. CASE cs = "finished"
      <4>1. st \in {Order[5], Order[6]}
        BY <2>4, <3>1, <3>6 DEF Claim, Reached, cs, st
      <4>2. Said[cs] = 5 BY <3>6 DEF Said
      <4>3. QED BY <2>4, <4>1, <4>2 DEF cs, st
    <3>7. CASE cs = "settled"
      <4>1. st = Order[6]
        BY <2>4, <3>1, <3>7 DEF Claim, Reached, cs, st
      <4>2. Said[cs] = 6 BY <3>7 DEF Said
      <4>3. QED BY <2>4, <4>1, <4>2 DEF cs, st
    <3>8. QED BY <2>4, <3>2, <3>3, <3>4, <3>5, <3>6, <3>7 DEF ChainStatus, cs
  <2>6. ASSUME RaceOf(x) \in {"Finished", "Settled"}
        PROVE  rd.winner = winnerSlot[race]
    <3>1. WonBy(race, winnerSlot[race])
      BY <1>1, <2>4, <2>6 DEF NativeInv, ResultsWon
    <3>2. PICK y \in RoundIds : /\ Known(y) /\ round[y].chainRaceId = race
                                /\ round[y].winner = winnerSlot[race]
      BY <3>1 DEF WonBy
    <3>3. Attached(y) BY <3>2, NativeNames DEF Attached
    <3>4. x = y BY <1>1, <2>1, <2>2, <3>2, <3>3 DEF OneRoundPerRace
    <3>5. QED BY <2>2, <3>2, <3>4
  <2>7. QED BY <2>2, <2>5, <2>6
<1>2. NativeInv => (OneRoundPerRace => BehindUnlessCancelled) BY <1>1
<1>3. QED BY <1>2, NativeInvariantHolds, PTL
=============================================================================
