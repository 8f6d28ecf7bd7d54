------------------------------- MODULE Harness -------------------------------
(***************************************************************************)
(* The robot harness, robot-harness/src/main.rs: pilot sessions, drive and *)
(* stop requests and the deadman, on the threads of a tokio runtime.       *)
(*                                                                         *)
(* The handlers share three locks (sessions, command and the serial        *)
(* writer) and hold one at a time, so a request is a task that takes one   *)
(* step per critical section, with the steps of other tasks in between:    *)
(*   "check"   look at command.estop (drive), or at the clock (deadman)    *)
(*   "write"   write a speed to the rover                                  *)
(*   "record"  write the outcome to the command state                      *)
(* A message of a drive socket is a drive request and the end of a socket  *)
(* is a request "close".  Left and right speeds are one signed number; the *)
(* camera, the sensors, and what is kept for telemetry only (the active    *)
(* session, stopped_by_deadman, soft_odometry_limited) are left out.       *)
(*                                                                         *)
(* LiveOnly, CapHigh, MayDriveEstopped and DeadmanKeepingSpeed are         *)
(* plausible wrong forms of the definitions below them.                    *)
(***************************************************************************)
EXTENDS Integers

CONSTANTS
  Tokens,       \* pilot tokens
  Workers,      \* bound: requests handled at a time
  Deadman,      \* the deadman's task
  Wanted,       \* the speeds pilots ask for
  Modes,        \* bound: the speed modes pilots are given
  Cap,          \* Cap[mode]: the highest speed of a speed mode
  Faults        \* what may go wrong: a subset of {"write"}

SpeedMode == {"low", "medium", "high"}

ASSUME HarnessAssumption ==
  /\ Deadman \notin Workers
  /\ Wanted \subseteq Int
  /\ Modes \subseteq SpeedMode
  /\ Cap \in [SpeedMode -> Nat]
  /\ Cap["low"] <= Cap["medium"] /\ Cap["medium"] <= Cap["high"]

VARIABLES
  allow_untokened_drive,   \* chosen at start-up
  sessions,   \* per token: NoSession or the pilot's session
  command,    \* the command state, shared under its lock
  lapsed,     \* more than deadman_ms have passed since last_cmd_at
  motor,      \* the speed last written to the rover
  task        \* what each worker and the deadman are doing

vars == <<allow_untokened_drive, sessions, command, lapsed, motor, task>>

NoSession == [mode |-> "low", live |-> FALSE, window |-> "after"]

(* live: not yet expires_at.  window: the clock against not_before and     *)
(* not_after, where a session without them stays "open".                   *)
Session == [mode : SpeedMode, live : BOOLEAN, window : {"before", "open", "after"}]

Speed == {s \in Int : -Cap["high"] <= s /\ s <= Cap["high"]}

CommandState == [speed : Speed, mode : SpeedMode, estop : BOOLEAN]

Op == {"drive", "estop", "motors_stop", "reset", "close", "deadman"}

Task == [op : Op, stage : {"check", "write", "record"}, speed : Speed, mode : SpeedMode]

Idle == [op |-> "deadman", stage |-> "idle", speed |-> 0, mode |-> "medium"]

Init ==
  /\ allow_untokened_drive \in BOOLEAN
  /\ sessions = [t \in Tokens |-> NoSession]
  /\ command = [speed |-> 0, mode |-> "medium", estop |-> FALSE]
  /\ lapsed = FALSE
  /\ motor = 0
  /\ task = [w \in Workers \cup {Deadman} |-> Idle]

At(w, stage) == task[w].stage = stage

Go(w, stage) == task' = [task EXCEPT ![w].stage = stage]
Done(w) == task' = [task EXCEPT ![w] = Idle]
-----------------------------------------------------------------------------
(* Sessions.                                                               *)

pilot_authorize(t, mode, window) ==
  /\ sessions' = [sessions EXCEPT ![t] = [mode |-> mode, live |-> TRUE, window |-> window]]
  /\ UNCHANGED <<allow_untokened_drive, command, lapsed, motor, task>>

pilot_speed_mode(t, mode) ==
  /\ sessions[t].live
  /\ sessions' = [sessions EXCEPT ![t].mode = mode]
  /\ UNCHANGED <<allow_untokened_drive, command, lapsed, motor, task>>

(* Time passes: a session expires, a round's window opens or ends.         *)
SessionTime(t) ==
  /\ sessions[t].live
  /\ sessions' \in {[sessions EXCEPT ![t] = NoSession],
                    [sessions EXCEPT ![t].window = IF @ = "before" THEN "open" ELSE "after"]}
  /\ UNCHANGED <<allow_untokened_drive, command, lapsed, motor, task>>

LiveOnly(t) == sessions[t].live
Valid(t) == sessions[t].live /\ sessions[t].window = "open"
-----------------------------------------------------------------------------
(* Requests arrive.                                                        *)

Clamp(speed, cap) == IF speed > cap THEN cap ELSE IF speed < -cap THEN -cap ELSE speed

Within(speed, cap) == -cap <= speed /\ speed <= cap

CapHigh(mode) == Cap["high"]
CapOf(mode) == Cap[mode]

Start(w, op, stage, speed, mode) ==
  /\ At(w, "idle")
  /\ task' = [task EXCEPT ![w] = [op |-> op, stage |-> stage, speed |-> speed, mode |-> mode]]
  /\ UNCHANGED <<allow_untokened_drive, sessions, command, lapsed, motor>>

(* validate_session, which also yields the mode the drive is clamped by.   *)
drive(w, t, wanted) ==
  /\ Valid(t)
  /\ Start(w, "drive", "check", Clamp(wanted, CapOf(sessions[t].mode)), sessions[t].mode)

drive_untokened(w, wanted) ==
  /\ allow_untokened_drive
  /\ Start(w, "drive", "check", Clamp(wanted, CapOf("medium")), "medium")

(* stop, estop, motors/stop, estop/reset and the end of a drive socket all *)
(* begin by stopping the rover.                                            *)
stop(w, op) == Start(w, op, "write", 0, "medium")
-----------------------------------------------------------------------------
(* The steps of a task.                                                    *)

MayDriveEstopped == TRUE
MayDrive == ~command.estop

(* apply_drive: the emergency stop refuses the command; the soft limit     *)
(* turns a forward command into a stop when the wheel odometer says so.    *)
CheckDrive(w) ==
  /\ At(w, "check")
  /\ task[w].op = "drive"
  /\ IF ~MayDrive THEN Done(w)
     ELSE \/ Go(w, "write")
          \/ /\ task[w].speed > 0
             /\ task' = [task EXCEPT ![w].speed = 0, ![w].stage = "write"]
  /\ UNCHANGED <<allow_untokened_drive, sessions, command, lapsed, motor>>

(* The deadman looks every 50 ms.                                          *)
CheckDeadman ==
  /\ At(Deadman, "idle")
  /\ lapsed
  /\ command.speed # 0
  /\ task' = [task EXCEPT ![Deadman].stage = "write"]
  /\ UNCHANGED <<allow_untokened_drive, sessions, command, lapsed, motor>>

Write(w) ==
  /\ At(w, "write")
  /\ motor' = task[w].speed
  /\ Go(w, "record")
  /\ UNCHANGED <<allow_untokened_drive, sessions, command, lapsed>>

(* The serial port fails before or while flushing.  The handler gives up,  *)
(* but the deadman and a closing socket only log the error and go on.      *)
WriteFails(w) ==
  /\ "write" \in Faults
  /\ At(w, "write")
  /\ motor' \in {motor, task[w].speed}
  /\ IF task[w].op \in {"deadman", "close"} THEN Go(w, "record") ELSE Done(w)
  /\ UNCHANGED <<allow_untokened_drive, sessions, command, lapsed>>

DeadmanKeepingSpeed == command
RecordedByDeadman == [command EXCEPT !.speed = 0]

Recorded(tk) ==
  CASE tk.op = "drive" -> [command EXCEPT !.speed = tk.speed, !.mode = tk.mode]
    [] tk.op = "estop" -> [command EXCEPT !.speed = 0, !.estop = TRUE]
    [] tk.op = "reset" -> [command EXCEPT !.speed = 0, !.estop = FALSE]
    [] tk.op \in {"motors_stop", "close"} -> [command EXCEPT !.speed = 0]
    [] tk.op = "deadman" -> RecordedByDeadman

Record(w) ==
  /\ At(w, "record")
  /\ command' = Recorded(task[w])
  /\ lapsed' = (lapsed /\ task[w].op # "drive")
  /\ Done(w)
  /\ UNCHANGED <<allow_untokened_drive, sessions, motor>>

(* deadman_ms pass without a recorded drive.                               *)
Lapse ==
  /\ ~lapsed
  /\ lapsed' = TRUE
  /\ UNCHANGED <<allow_untokened_drive, sessions, command, motor, task>>
-----------------------------------------------------------------------------
PilotRequest(w) ==
  \/ \E t \in Tokens, wanted \in Wanted : drive(w, t, wanted)
  \/ \E wanted \in Wanted : drive_untokened(w, wanted)

StopRequest(w) == \E op \in {"estop", "motors_stop", "reset", "close"} : stop(w, op)

TaskStep(w) == (w \in Workers /\ CheckDrive(w)) \/ Write(w) \/ WriteFails(w) \/ Record(w)

Next ==
  \/ \E t \in Tokens, mode \in Modes :
       \/ pilot_speed_mode(t, mode)
       \/ \E window \in {"before", "open"} : pilot_authorize(t, mode, window)
  \/ \E t \in Tokens : SessionTime(t)
  \/ \E w \in Workers : PilotRequest(w) \/ StopRequest(w)
  \/ \E w \in Workers \cup {Deadman} : TaskStep(w)
  \/ CheckDeadman
  \/ Lapse

(* Threads and the clock go on; nobody has to send a request.              *)
Fairness ==
  /\ \A w \in Workers \cup {Deadman} : WF_vars(TaskStep(w))
  /\ WF_vars(CheckDeadman)
  /\ WF_vars(Lapse)

Spec == Init /\ [][Next]_vars /\ Fairness
-----------------------------------------------------------------------------
(* Properties.                                                             *)

(* Every variable keeps its type, also under interleaved requests.         *)
TypeOK ==
  /\ allow_untokened_drive \in BOOLEAN
  /\ sessions \in [Tokens -> Session]
  /\ command \in CommandState
  /\ lapsed \in BOOLEAN
  /\ motor \in Speed
  /\ task \in [Workers \cup {Deadman} -> Task \cup {Idle}]

(* A command never exceeds the cap of the mode that is reported with it,   *)
(* although speed modes change between the validation of a drive and its   *)
(* recording (clamping in apply_drive).                                    *)
SpeedsCapped ==
  /\ Within(command.speed, Cap[command.mode])
  /\ \A w \in Workers : Within(task[w].speed, Cap[task[w].mode])

(* A drive that has passed its check and not yet finished. *)
InFlight == \E w \in Workers : task[w].op = "drive" /\ task[w].stage \in {"write", "record"}

(* Once the emergency stop is latched, no drive is in flight and the       *)
(* motors rest, they rest until the operator resets it, whatever requests  *)
(* arrive (the check at the head of apply_drive).                          *)
LatchedStopHolds ==
  [][command.estop /\ motor = 0 /\ ~InFlight => motor' = 0 /\ ~InFlight']_vars

Ended(t) == ~sessions[t].live \/ sessions[t].window # "open"
Driving == \E w \in Workers : task[w].op = "drive"

(* When every session has ended and the last drive is done, the motors can *)
(* only come to rest (validate_session, for REST and socket drives).       *)
EndedRoundHolds ==
  [][~allow_untokened_drive /\ (\A t \in Tokens : Ended(t)) /\ ~Driving =>
       motor' \in {motor, 0} /\ ~Driving']_vars

(* If drives cease, the recorded command becomes zero and stays so,        *)
(* whatever else is going on (spawn_deadman).                              *)
DeadmanClears == <>[](~Driving) => <>[](command.speed = 0)

Quiet == \A w \in Workers \cup {Deadman} : task[w] = Idle

(* The harness's README calls the emergency stop a latching hard stop: when*)
(* it is latched and nothing is going on, the motors are at rest.  It does *)
(* not hold: a drive past its check may write after the stop (estop_inner).*)
EstopStops == command.estop /\ Quiet => motor = 0

(* The harness's README says the deadman stops motors when drive commands  *)
(* go stale.  The deadman looks at the recorded command, so when nothing   *)
(* is going on the motors only move if the recorded command says so.  It   *)
(* does not hold: a drive may fall between the deadman's stop and record.  *)
MotorsWatched == Quiet /\ motor # 0 => command.speed # 0
=============================================================================
