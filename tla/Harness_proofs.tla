---------------------------- MODULE Harness_proofs ----------------------------
(* Theorems about Harness, for every number of pilots, of requests handled *)
(* at a time and of speeds, and every table of caps, and about the bridge  *)
(* that feeds it, for every number of tokens, channels and frames.         *)
EXTENDS Harness, HarnessBridge, TLAPS

Runners == Workers \cup {Deadman}

(* Only a drive moves the rover: every other task carries a zero speed, and*)
(* the deadman's task is never a drive.                                    *)
OnlyDrivesMove ==
  /\ \A w \in Runners : task[w].op # "drive" => task[w].speed = 0
  /\ task[Deadman].op = "deadman"

(* The invariant the proofs carry through every step.  Neither part is     *)
(* inductive alone: a speed is recorded within its cap only because no task*)
(* but a drive carries one, and motor and command keep their type only     *)
(* because the caps hold.                                                  *)
IInv == TypeOK /\ SpeedsCapped /\ OnlyDrivesMove

-----------------------------------------------------------------------------
(* The lemmas about caps.                                                  *)

(* Every cap is a natural number and none is above the highest mode's.     *)
LEMMA CapFacts ==
  ASSUME NEW mode \in SpeedMode
  PROVE  Cap[mode] \in Nat /\ Cap["high"] \in Nat /\ Cap[mode] <= Cap["high"]
  BY HarnessAssumption DEF SpeedMode

(* What a speed is clamped to lies within the cap of its mode, hence it is *)
(* a speed; so is zero.                                                    *)
LEMMA ClampFacts ==
  ASSUME NEW mode \in SpeedMode, NEW wanted \in Int
  PROVE  /\ Within(Clamp(wanted, CapOf(mode)), Cap[mode])
         /\ Clamp(wanted, CapOf(mode)) \in Speed
         /\ Within(0, Cap[mode])
         /\ 0 \in Speed
  BY CapFacts DEF Clamp, CapOf, Within, Speed

(* An idle runner's task is Idle: no other task has that stage.            *)
LEMMA IdleOnly ==
  ASSUME TypeOK, NEW w \in Runners, At(w, "idle")
  PROVE  task[w] = Idle
  BY DEF TypeOK, Runners, At, Task

(* Idle neither drives nor moves, and its mode is one of the three.        *)
LEMMA IdleFacts ==
  /\ Idle.op = "deadman" /\ Idle.stage = "idle" /\ Idle.speed = 0
  /\ Idle.mode = "medium" /\ Idle.mode \in SpeedMode
  BY DEF Idle, SpeedMode
-----------------------------------------------------------------------------
(* The inductive invariant.                                                *)

LEMMA InitIInv == Init => IInv
  <1> SUFFICES ASSUME Init PROVE IInv
    OBVIOUS
  <1>1. "medium" \in SpeedMode /\ "low" \in SpeedMode
    BY DEF SpeedMode
  <1>2. 0 \in Speed /\ Within(0, Cap["medium"])
    BY <1>1, ClampFacts
  <1>3. TypeOK
    BY <1>1, <1>2 DEF Init, TypeOK, Session, NoSession, CommandState
  <1>4. SpeedsCapped
    BY <1>2 DEF Init, SpeedsCapped, Idle
  <1>5. OnlyDrivesMove
    BY DEF Init, OnlyDrivesMove, Idle, Runners
  <1> QED BY <1>3, <1>4, <1>5 DEF IInv

(* A step that leaves the command, the motors and the tasks alone.         *)
LEMMA SessionsIInv ==
  ASSUME IInv, sessions' \in [Tokens -> Session], lapsed' \in BOOLEAN,
         UNCHANGED <<allow_untokened_drive, command, motor, task>>
  PROVE  IInv'
  BY DEF IInv, TypeOK, SpeedsCapped, OnlyDrivesMove, Within

LEMMA PilotStepIInv ==
  ASSUME IInv, NEW t \in Tokens, NEW mode \in Modes,
         \/ pilot_speed_mode(t, mode)
         \/ \E window \in {"before", "open"} : pilot_authorize(t, mode, window)
  PROVE  IInv'
  <1>1. mode \in SpeedMode /\ sessions \in [Tokens -> Session] /\ lapsed \in BOOLEAN
    BY HarnessAssumption DEF IInv, TypeOK
  <1>2. CASE pilot_speed_mode(t, mode)
    <2>1. sessions' \in [Tokens -> Session]
      BY <1>1, <1>2 DEF pilot_speed_mode, Session
    <2> QED BY <1>1, <1>2, <2>1, SessionsIInv DEF pilot_speed_mode
  <1>3. ASSUME NEW window \in {"before", "open"}, pilot_authorize(t, mode, window)
        PROVE  IInv'
    <2>1. [mode |-> mode, live |-> TRUE, window |-> window] \in Session
      BY <1>1 DEF Session
    <2>2. sessions' \in [Tokens -> Session]
      BY <1>1, <1>3, <2>1 DEF pilot_authorize
    <2> QED BY <1>1, <1>3, <2>2, SessionsIInv DEF pilot_authorize
  <1> QED BY <1>2, <1>3

LEMMA SessionTimeIInv ==
  ASSUME IInv, NEW t \in Tokens, SessionTime(t)
  PROVE  IInv'
  <1>1. sessions \in [Tokens -> Session] /\ lapsed \in BOOLEAN
    BY DEF IInv, TypeOK
  <1>2. CASE sessions' = [sessions EXCEPT ![t] = NoSession]
    <2>1. NoSession \in Session
      BY DEF NoSession, Session, SpeedMode
    <2> QED BY <1>1, <1>2, <2>1, SessionsIInv DEF SessionTime
  <1>3. CASE \E window \in {"open", "after"} : sessions' = [sessions EXCEPT ![t].window = window]
    <2>1. sessions' \in [Tokens -> Session]
      BY <1>1, <1>3 DEF Session
    <2> QED BY <1>1, <2>1, SessionsIInv DEF SessionTime
  <1> QED BY <1>2, <1>3 DEF SessionTime

(* One task is replaced by a task whose speed lies within the cap of its   *)
(* mode; the command and the motors stay.                                  *)
LEMMA TaskIInv ==
  ASSUME IInv, NEW w \in Runners, NEW tk \in Task \cup {Idle},
         task' = [task EXCEPT ![w] = tk],
         Within(tk.speed, Cap[tk.mode]),
         tk.op # "drive" => tk.speed = 0,
         w = Deadman => tk.op = "deadman",
         command' \in CommandState, Within(command'.speed, Cap[command'.mode]),
         lapsed' \in BOOLEAN, motor' \in Speed,
         UNCHANGED <<allow_untokened_drive, sessions>>
  PROVE  IInv'
  <1>1. task' \in [Runners -> Task \cup {Idle}]
        /\ \A x \in Runners : task'[x] = IF x = w THEN tk ELSE task[x]
    BY DEF IInv, TypeOK, Runners
  <1>2. TypeOK'
    BY <1>1 DEF IInv, TypeOK, Runners
  <1>3. SpeedsCapped'
    BY <1>1 DEF IInv, SpeedsCapped, Runners, Within
  <1>4. OnlyDrivesMove'
    BY <1>1 DEF IInv, OnlyDrivesMove, Runners
  <1> QED BY <1>2, <1>3, <1>4 DEF IInv

LEMMA RequestIInv ==
  ASSUME IInv, NEW w \in Workers, PilotRequest(w) \/ StopRequest(w)
  PROVE  IInv'
  <1>1. w \in Runners /\ w # Deadman /\ "medium" \in SpeedMode
    BY HarnessAssumption DEF Runners, SpeedMode
  <1>2. /\ command \in CommandState /\ Within(command.speed, Cap[command.mode])
        /\ lapsed \in BOOLEAN /\ motor \in Speed
    BY DEF IInv, TypeOK, SpeedsCapped
  <1>3. ASSUME NEW op \in Op, NEW stage \in {"check", "write", "record"},
               NEW speed \in Speed, NEW mode \in SpeedMode, Start(w, op, stage, speed, mode),
               Within(speed, Cap[mode]), op # "drive" => speed = 0
        PROVE  IInv'
    <2> DEFINE tk == [op |-> op, stage |-> stage, speed |-> speed, mode |-> mode]
    <2>1. tk \in Task /\ tk.speed = speed /\ tk.mode = mode /\ tk.op = op
      BY DEF Task
    <2>2. task' = [task EXCEPT ![w] = tk]
          /\ UNCHANGED <<allow_untokened_drive, sessions, command, lapsed, motor>>
      BY <1>3 DEF Start
    <2> HIDE DEF tk
    <2> QED BY <1>1, <1>2, <1>3, <2>1, <2>2, TaskIInv
  <1>4. ASSUME NEW t \in Tokens, NEW wanted \in Wanted, drive(w, t, wanted)
        PROVE  IInv'
    <2>1. sessions[t].mode \in SpeedMode /\ wanted \in Int
      BY HarnessAssumption DEF IInv, TypeOK, Session
    <2> QED BY <1>3, <1>4, <2>1, ClampFacts DEF drive, Op
  <1>5. ASSUME NEW wanted \in Wanted, drive_untokened(w, wanted)
        PROVE  IInv'
    <2>1. wanted \in Int
      BY HarnessAssumption
    <2> QED BY <1>1, <1>3, <1>5, <2>1, ClampFacts DEF drive_untokened, Op
  <1>6. ASSUME NEW op \in {"estop", "motors_stop", "reset", "close"}, stop(w, op)
        PROVE  IInv'
    BY <1>1, <1>3, <1>6, ClampFacts DEF stop, Op
  <1> QED BY <1>4, <1>5, <1>6 DEF PilotRequest, StopRequest

(* The task a runner has, and the two ways a step leaves it.               *)
LEMMA RunnerFacts ==
  ASSUME IInv, NEW w \in Runners
  PROVE  /\ task[w] \in Task \cup {Idle}
         /\ Within(task[w].speed, Cap[task[w].mode])
         /\ task[w].speed \in Speed /\ task[w].mode \in SpeedMode
         /\ task[w].op # "drive" => task[w].speed = 0
         /\ w = Deadman => task[w].op = "deadman"
  <1>1. task[w] \in Task \cup {Idle}
    BY DEF IInv, TypeOK, Runners
  <1>2. task[w].speed \in Speed /\ task[w].mode \in SpeedMode
    <2>1. 0 \in Speed
      BY ClampFacts DEF SpeedMode
    <2> QED BY <1>1, <2>1, IdleFacts DEF Task
  <1>3. /\ task[w].op # "drive" => task[w].speed = 0
        /\ w = Deadman => task[w].op = "deadman"
    BY DEF IInv, OnlyDrivesMove
  <1>4. Within(task[w].speed, Cap[task[w].mode])
    <2>1. CASE w \in Workers
      BY <2>1 DEF IInv, SpeedsCapped
    <2>2. CASE w = Deadman
      BY <1>2, <1>3, <2>2, ClampFacts
    <2> QED BY <2>1, <2>2 DEF Runners
  <1> QED BY <1>1, <1>2, <1>3, <1>4

LEMMA GoIInv ==
  ASSUME IInv, NEW w \in Runners, NEW stage \in {"check", "write", "record"},
         ~At(w, "idle") \/ w = Deadman, Go(w, stage), motor' \in Speed,
         UNCHANGED <<allow_untokened_drive, sessions, command, lapsed>>
  PROVE  IInv'
  <1> DEFINE tk == [task[w] EXCEPT !.stage = stage]
  <1>1. /\ task[w] \in Task \cup {Idle} /\ Within(task[w].speed, Cap[task[w].mode])
        /\ task[w].speed \in Speed /\ task[w].mode \in SpeedMode
        /\ task[w].op # "drive" => task[w].speed = 0
        /\ w = Deadman => task[w].op = "deadman"
    BY RunnerFacts
  <1>2. /\ tk \in Task /\ tk.speed = task[w].speed /\ tk.mode = task[w].mode /\ tk.op = task[w].op
    <2>1. CASE task[w] \in Task
      BY <2>1 DEF Task
    <2>2. CASE task[w] = Idle
      BY <1>1, <2>2 DEF Idle, Task, Op
    <2> QED BY <1>1, <2>1, <2>2
  <1>3. task' = [task EXCEPT ![w] = tk]
    BY DEF Go
  <1>4. /\ command \in CommandState /\ Within(command.speed, Cap[command.mode])
        /\ lapsed \in BOOLEAN
    BY DEF IInv, TypeOK, SpeedsCapped
  <1> HIDE DEF tk
  <1> QED BY <1>1, <1>2, <1>3, <1>4, TaskIInv

LEMMA DoneIInv ==
  ASSUME IInv, NEW w \in Runners, Done(w),
         command' \in CommandState, Within(command'.speed, Cap[command'.mode]),
         lapsed' \in BOOLEAN, motor' \in Speed,
         UNCHANGED <<allow_untokened_drive, sessions>>
  PROVE  IInv'
  <1>1. Within(Idle.speed, Cap[Idle.mode])
    BY IdleFacts, ClampFacts
  <1> QED BY <1>1, IdleFacts, TaskIInv DEF Done

LEMMA CheckIInv ==
  ASSUME IInv, \/ \E w \in Workers : CheckDrive(w)
               \/ CheckDeadman
  PROVE  IInv'
  <1>1. /\ command \in CommandState /\ Within(command.speed, Cap[command.mode])
        /\ lapsed \in BOOLEAN /\ motor \in Speed
    BY DEF IInv, TypeOK, SpeedsCapped
  <1>2. ASSUME NEW w \in Workers, CheckDrive(w)
        PROVE  IInv'
    <2>1. w \in Runners /\ w # Deadman
      BY HarnessAssumption DEF Runners
    <2>2. CASE Done(w)
      BY <1>1, <1>2, <2>1, <2>2, DoneIInv DEF CheckDrive
    <2>3. CASE Go(w, "write")
      BY <1>1, <1>2, <2>1, <2>3, GoIInv DEF CheckDrive, At
    <2>4. CASE task' = [task EXCEPT ![w].speed = 0, ![w].stage = "write"]
      <3> DEFINE tk == [task[w] EXCEPT !.speed = 0, !.stage = "write"]
      <3>1. task[w] \in Task \cup {Idle} /\ task[w].mode \in SpeedMode /\ task[w].stage = "check"
        BY <1>2, <2>1, RunnerFacts DEF CheckDrive, At
      <3>2. 0 \in Speed /\ Within(0, Cap[task[w].mode])
        BY <3>1, ClampFacts
      <3>3. tk \in Task /\ tk.speed = 0 /\ tk.mode = task[w].mode
        BY <3>1, <3>2, IdleFacts DEF Task
      <3>4. task' = [task EXCEPT ![w] = tk]
        BY <2>1, <2>4 DEF IInv, TypeOK, Runners
      <3> HIDE DEF tk
      <3> QED BY <1>1, <1>2, <2>1, <3>2, <3>3, <3>4, TaskIInv DEF CheckDrive
    <2> QED BY <1>2, <2>2, <2>3, <2>4 DEF CheckDrive
  <1>3. CASE CheckDeadman
    <2>1. Deadman \in Runners
      BY DEF Runners
    <2>2. Go(Deadman, "write")
      BY <1>3 DEF CheckDeadman, Go
    <2> QED BY <1>1, <1>3, <2>1, <2>2, GoIInv DEF CheckDeadman
  <1> QED BY <1>2, <1>3

LEMMA WriteIInv ==
  ASSUME IInv, NEW w \in Runners, Write(w) \/ WriteFails(w)
  PROVE  IInv'
  <1>1. /\ command \in CommandState /\ Within(command.speed, Cap[command.mode])
        /\ lapsed \in BOOLEAN /\ motor \in Speed /\ task[w].speed \in Speed
    BY RunnerFacts DEF IInv, TypeOK, SpeedsCapped
  <1>2. motor' \in Speed /\ ~At(w, "idle")
    BY <1>1 DEF Write, WriteFails, At
  <1>3. CASE Go(w, "record")
    BY <1>2, <1>3, GoIInv DEF Write, WriteFails
  <1>4. CASE Done(w)
    BY <1>1, <1>2, <1>4, DoneIInv DEF Write, WriteFails
  <1> QED BY <1>3, <1>4 DEF Write, WriteFails

LEMMA RecordIInv ==
  ASSUME IInv, NEW w \in Runners, Record(w)
  PROVE  IInv'
  <1> DEFINE tk == task[w]
  <1>1. /\ tk \in Task \cup {Idle} /\ Within(tk.speed, Cap[tk.mode])
        /\ tk.speed \in Speed /\ tk.mode \in SpeedMode
    BY RunnerFacts
  <1>2. tk \in Task
    BY <1>1, IdleFacts DEF Record, At
  <1>3. command \in CommandState /\ lapsed \in BOOLEAN /\ motor \in Speed
    BY DEF IInv, TypeOK
  <1>4. 0 \in Speed /\ Within(0, Cap[command.mode])
    BY <1>3, ClampFacts DEF CommandState
  <1>5. command' = Recorded(tk) /\ tk.op \in Op
    BY <1>2 DEF Record, Task
  <1>6. command' \in CommandState /\ Within(command'.speed, Cap[command'.mode])
    <2>1. CASE tk.op = "drive"
      <3>1. command' = [command EXCEPT !.speed = tk.speed, !.mode = tk.mode]
        BY <1>5, <2>1 DEF Recorded
      <3> QED BY <1>1, <1>3, <3>1 DEF CommandState
    <2>2. CASE tk.op # "drive"
      <3>1. \E estop \in BOOLEAN : command' = [command EXCEPT !.speed = 0, !.estop = estop]
        BY <1>3, <1>5, <2>2 DEF Recorded, RecordedByDeadman, Op, CommandState
      <3> QED BY <1>3, <1>4, <3>1 DEF CommandState
    <2> QED BY <2>1, <2>2
  <1>7. lapsed' \in BOOLEAN
    BY <1>3 DEF Record
  <1> HIDE DEF tk
  <1> QED BY <1>3, <1>6, <1>7, DoneIInv DEF Record

LEMMA NextIInv == IInv /\ [Next]_vars => IInv'
  <1> SUFFICES ASSUME IInv, [Next]_vars PROVE IInv'
    OBVIOUS
  <1>1. CASE \E t \in Tokens, mode \in Modes :
               \/ pilot_speed_mode(t, mode)
               \/ \E window \in {"before", "open"} : pilot_authorize(t, mode, window)
    BY <1>1, PilotStepIInv
  <1>2. CASE \E t \in Tokens : SessionTime(t)
    BY <1>2, SessionTimeIInv
  <1>3. CASE \E w \in Workers : PilotRequest(w) \/ StopRequest(w)
    BY <1>3, RequestIInv
  <1>4. CASE \E w \in Workers \cup {Deadman} : TaskStep(w)
    BY <1>4, CheckIInv, WriteIInv, RecordIInv DEF TaskStep, Runners
  <1>5. CASE CheckDeadman
    BY <1>5, CheckIInv
  <1>6. CASE Lapse \/ UNCHANGED vars
    BY <1>6, SessionsIInv DEF Lapse, vars, IInv, TypeOK
  <1> QED BY <1>1, <1>2, <1>3, <1>4, <1>5, <1>6 DEF Next
-----------------------------------------------------------------------------
(* The invariant, in every behaviour of the harness.                       *)
THEOREM InvariantHolds == Spec => []IInv
  BY InitIInv, NextIInv, PTL DEF Spec

(* Every variable keeps its type under any interleaving of requests: no    *)
(* speed above the highest cap is ever written or recorded.                *)
THEOREM TypeCorrect == Spec => []TypeOK
  <1>1. IInv => TypeOK
    BY DEF IInv
  <1> QED BY <1>1, InvariantHolds, PTL

(* The recorded command, and the command of every request under way, stays *)
(* within the cap of the mode it is reported with, although modes change   *)
(* between a drive's validation and its recording (apply_drive).           *)
THEOREM CommandsStayCapped == Spec => []SpeedsCapped
  <1>1. IInv => SpeedsCapped
    BY DEF IInv
  <1> QED BY <1>1, InvariantHolds, PTL
-----------------------------------------------------------------------------
(* The latched stop.                                                       *)

(* A step that replaces one task by one that is not a drive past its check *)
(* brings no drive past its check.                                         *)
LEMMA NoneInFlight ==
  ASSUME IInv, ~InFlight, NEW w \in Runners, NEW tk,
         task' = [task EXCEPT ![w] = tk],
         tk.op = "drive" => tk.stage \notin {"write", "record"}
  PROVE  ~InFlight'
  <1>1. \A x \in Runners : task'[x] = IF x = w THEN tk ELSE task[x]
    BY DEF IInv, TypeOK, Runners
  <1> QED BY <1>1 DEF InFlight, Runners

(* While no drive is past its check, a task that is is not a drive's and   *)
(* carries a zero speed.                                                   *)
LEMMA PastCheckRests ==
  ASSUME IInv, ~InFlight, NEW w \in Runners, At(w, "write") \/ At(w, "record")
  PROVE  task[w].op # "drive" /\ task[w].speed = 0
  BY RunnerFacts DEF InFlight, At, Runners

LEMMA LatchedStep ==
  ASSUME IInv, [Next]_vars, command.estop, motor = 0, ~InFlight
  PROVE  motor' = 0 /\ ~InFlight'
  <1>1. ASSUME UNCHANGED <<motor, task>>
        PROVE  motor' = 0 /\ ~InFlight'
    BY <1>1 DEF InFlight
  <1>2. ASSUME NEW w \in Workers, PilotRequest(w) \/ StopRequest(w)
        PROVE  motor' = 0 /\ ~InFlight'
    <2>1. \E tk : /\ task' = [task EXCEPT ![w] = tk]
                  /\ tk.op = "drive" => tk.stage = "check"
                  /\ motor' = motor
      BY <1>2 DEF PilotRequest, StopRequest, drive, drive_untokened, stop, Start
    <2> QED BY <2>1, NoneInFlight DEF Runners
  <1>3. ASSUME NEW w \in Workers, CheckDrive(w)
        PROVE  motor' = 0 /\ ~InFlight'
    BY <1>3, NoneInFlight, IdleFacts DEF CheckDrive, MayDrive, Done, Runners
  <1>4. ASSUME NEW w \in Runners, Write(w) \/ WriteFails(w) \/ Record(w)
        PROVE  motor' = 0 /\ ~InFlight'
    <2>1. task[w].op # "drive" /\ task[w].speed = 0
      BY <1>4, PastCheckRests DEF Write, WriteFails, Record
    <2>2. motor' = 0
      BY <1>4, <2>1 DEF Write, WriteFails, Record
    <2>3. CASE Go(w, "record")
      <3>1. task' = [task EXCEPT ![w] = [task[w] EXCEPT !.stage = "record"]]
        BY <2>3 DEF Go
      <3>2. [task[w] EXCEPT !.stage = "record"].op = task[w].op
        BY RunnerFacts DEF Task, Idle
      <3> QED BY <2>1, <2>2, <3>1, <3>2, NoneInFlight
    <2>4. CASE Done(w)
      BY <2>2, <2>4, NoneInFlight, IdleFacts DEF Done
    <2> QED BY <1>4, <2>3, <2>4 DEF Write, WriteFails, Record
  <1>5. CASE CheckDeadman
    <2>1. Deadman \in Runners /\ task[Deadman].op = "deadman"
      BY DEF Runners, IInv, OnlyDrivesMove
    <2>2. task' = [task EXCEPT ![Deadman] = [task[Deadman] EXCEPT !.stage = "write"]]
      BY <1>5 DEF CheckDeadman
    <2>3. [task[Deadman] EXCEPT !.stage = "write"].op = "deadman"
      BY <2>1, RunnerFacts DEF Task, Idle
    <2> QED BY <1>5, <2>1, <2>2, <2>3, NoneInFlight DEF CheckDeadman
  <1> QED BY <1>1, <1>2, <1>3, <1>4, <1>5
          DEF Next, vars, TaskStep, Runners, pilot_speed_mode, pilot_authorize, SessionTime, Lapse

(* Once the emergency stop is latched, no drive is past its check and the  *)
(* motors rest, no request makes them move, until the stop is reset.       *)
THEOREM LatchedStopKept == Spec => LatchedStopHolds
  <1>1. IInv /\ [Next]_vars =>
          [command.estop /\ motor = 0 /\ ~InFlight => motor' = 0 /\ ~InFlight']_vars
    BY LatchedStep
  <1> QED BY <1>1, InvariantHolds, PTL DEF Spec, LatchedStopHolds
-----------------------------------------------------------------------------
(* The end of a round.                                                     *)

LEMMA NoneDriving ==
  ASSUME IInv, ~Driving, NEW w \in Runners, NEW tk,
         task' = [task EXCEPT ![w] = tk], tk.op # "drive"
  PROVE  ~Driving'
  <1>1. \A x \in Runners : task'[x] = IF x = w THEN tk ELSE task[x]
    BY DEF IInv, TypeOK, Runners
  <1> QED BY <1>1 DEF Driving, Runners

LEMMA EndedStep ==
  ASSUME IInv, [Next]_vars, ~allow_untokened_drive, \A t \in Tokens : Ended(t), ~Driving
  PROVE  motor' \in {motor, 0} /\ ~Driving'
  <1>1. ASSUME UNCHANGED <<motor, task>>
        PROVE  motor' \in {motor, 0} /\ ~Driving'
    BY <1>1 DEF Driving
  <1>2. ASSUME NEW w \in Workers
        PROVE  ~PilotRequest(w) /\ ~CheckDrive(w)
    BY DEF PilotRequest, drive, drive_untokened, Valid, Ended, CheckDrive, Driving
  <1>3. ASSUME NEW w \in Workers, StopRequest(w)
        PROVE  motor' \in {motor, 0} /\ ~Driving'
    <2>1. PICK op \in {"estop", "motors_stop", "reset", "close"} : stop(w, op)
      BY <1>3 DEF StopRequest
    <2> DEFINE tk == [op |-> op, stage |-> "write", speed |-> 0, mode |-> "medium"]
    <2>2. task' = [task EXCEPT ![w] = tk] /\ motor' = motor
      BY <2>1 DEF stop, Start
    <2>3. w \in Runners /\ tk.op # "drive"
      BY DEF Runners
    <2> HIDE DEF tk
    <2>4. ~Driving'
      BY <2>2, <2>3, NoneDriving
    <2> QED BY <2>2, <2>4
  <1>4. ASSUME NEW w \in Runners, Write(w) \/ WriteFails(w) \/ Record(w)
        PROVE  motor' \in {motor, 0} /\ ~Driving'
    <2>1. task[w].op # "drive" /\ task[w].speed = 0
      BY RunnerFacts DEF Driving, Runners
    <2>2. motor' \in {motor, 0}
      BY <1>4, <2>1 DEF Write, WriteFails, Record
    <2>3. CASE Go(w, "record")
      <3>1. task' = [task EXCEPT ![w] = [task[w] EXCEPT !.stage = "record"]]
        BY <2>3 DEF Go
      <3>2. [task[w] EXCEPT !.stage = "record"].op = task[w].op
        BY RunnerFacts DEF Task, Idle
      <3> QED BY <2>1, <2>2, <3>1, <3>2, NoneDriving
    <2>4. CASE Done(w)
      BY <2>2, <2>4, NoneDriving, IdleFacts DEF Done
    <2> QED BY <1>4, <2>3, <2>4 DEF Write, WriteFails, Record
  <1>5. CASE CheckDeadman
    <2>1. Deadman \in Runners /\ task[Deadman].op = "deadman"
      BY DEF Runners, IInv, OnlyDrivesMove
    <2>2. task' = [task EXCEPT ![Deadman] = [task[Deadman] EXCEPT !.stage = "write"]]
      BY <1>5 DEF CheckDeadman
    <2>3. [task[Deadman] EXCEPT !.stage = "write"].op = "deadman"
      BY <2>1, RunnerFacts DEF Task, Idle
    <2> QED BY <1>5, <2>1, <2>2, <2>3, NoneDriving DEF CheckDeadman
  <1> QED BY <1>1, <1>2, <1>3, <1>4, <1>5
          DEF Next, vars, TaskStep, Runners, pilot_speed_mode, pilot_authorize, SessionTime, Lapse

(* When every session has ended and the last drive is done, the motors can *)
(* only come to rest, whatever goes on with the tasks still under way.     *)
THEOREM EndedRoundKept == Spec => EndedRoundHolds
  <1>1. IInv /\ [Next]_vars =>
          [~allow_untokened_drive /\ (\A t \in Tokens : Ended(t)) /\ ~Driving =>
             motor' \in {motor, 0} /\ ~Driving']_vars
    BY EndedStep
  <1> QED BY <1>1, InvariantHolds, PTL DEF Spec, EndedRoundHolds
-----------------------------------------------------------------------------
(* The bridge in front of the harness.                                     *)

Given(c) == c.mode \in granted[c.token]

(* What the bridge passes on: commands of a token with a mode that the     *)
(* harness was given for it.                                               *)
CommandsGiven ==
  /\ posting # Nothing => Given(posting)
  /\ latestRestDrive # Nothing => Given(latestRestDrive)
  /\ \A ch \in Channels :
       /\ target[ch] # Nothing => Given(target[ch].command)
       /\ captured[ch] # Nothing => Given(captured[ch].command)

BridgeTypes ==
  /\ authorized \in [PilotTokens -> SpeedModes \cup {Nothing}]
  /\ granted \in [PilotTokens -> SUBSET SpeedModes]
  /\ target \in [Channels -> Target \cup {Nothing}]
  /\ captured \in [Channels -> Captured \cup {Nothing}]
  /\ latestRestDrive \in Command \cup {Nothing}
  /\ posting \in Command \cup {Nothing}

(* The invariant the proof carries through every step: a frame is passed on*)
(* without a request only because the mode the bridge remembers for its    *)
(* token is one the harness was given.                                     *)
BridgeInv ==
  /\ BridgeTypes
  /\ \A t \in PilotTokens : authorized[t] # Nothing => authorized[t] \in granted[t]
  /\ CommandsGiven

(* A frame carries a command of a pilot. *)
LEMMA FrameFacts ==
  ASSUME NEW f \in Frames
  PROVE  /\ f.command \in Command /\ f.channel \in Channels
         /\ f.command.token \in PilotTokens /\ f.command.mode \in SpeedModes
         /\ f.command.mode # Nothing
  <1>1. f \in [channel : Channels, command : Command]
    BY BridgeAssumption DEF Command
  <1>2. f.command \in Command /\ f.channel \in Channels
    BY <1>1
  <1>3. f.command.token \in PilotTokens /\ f.command.mode \in SpeedModes
    BY <1>2 DEF Command
  <1> QED BY <1>2, <1>3, BridgeAssumption

(* What the harness was given it keeps. *)
LEMMA GrantGrows ==
  ASSUME BridgeTypes, NEW c \in Command, Grant(c)
  PROVE  /\ granted' \in [PilotTokens -> SUBSET SpeedModes]
         /\ \A t \in PilotTokens : granted[t] \subseteq granted'[t]
         /\ c.mode \in granted'[c.token]
  BY DEF BridgeTypes, Grant, Command

(* New targets whose commands were given. *)
LEMMA ReplaceKeeps ==
  ASSUME BridgeTypes, CommandsGiven, NEW news, DOMAIN news \subseteq Channels,
         \A ch \in DOMAIN news : news[ch] \in Command /\ news[ch].mode \in granted'[news[ch].token],
         \A t \in PilotTokens : granted[t] \subseteq granted'[t],
         Replace(news)
  PROVE  \A ch \in Channels :
           /\ target'[ch] \in Target \cup {Nothing} /\ captured'[ch] \in Captured \cup {Nothing}
           /\ target'[ch] # Nothing => Given(target[ch].command)'
           /\ captured'[ch] # Nothing => Given(captured[ch].command)'
  <1> SUFFICES ASSUME NEW ch \in Channels
               PROVE  /\ target'[ch] \in Target \cup {Nothing}
                      /\ captured'[ch] \in Captured \cup {Nothing}
                      /\ target'[ch] # Nothing => Given(target[ch].command)'
                      /\ captured'[ch] # Nothing => Given(captured[ch].command)'
    OBVIOUS
  <1>1. /\ target[ch] \in Target \cup {Nothing} /\ captured[ch] \in Captured \cup {Nothing}
        /\ target[ch] # Nothing => Given(target[ch].command)
        /\ captured[ch] # Nothing => Given(captured[ch].command)
    BY DEF BridgeTypes, CommandsGiven
  <1>2. /\ target'[ch] \in Target \cup {Nothing}
        /\ target'[ch] # Nothing => Given(target[ch].command)'
    <2>1. CASE ch \in DOMAIN news
      <3>1. target'[ch] = [command |-> news[ch], fresh |-> TRUE]
        BY <2>1 DEF Replace
      <3> QED BY <2>1, <3>1 DEF Target, Given
    <2>2. CASE ch \notin DOMAIN news
      <3>1. target'[ch] = target[ch]
        BY <2>2 DEF Replace
      <3> QED BY <1>1, <3>1 DEF Target, Given, Command
    <2> QED BY <2>1, <2>2
  <1>3. captured'[ch] = captured[ch] \/ /\ captured[ch] # Nothing
                                        /\ captured'[ch] = [captured[ch] EXCEPT !.current = FALSE]
    BY DEF Replace
  <1>4. captured[ch] # Nothing =>
          /\ captured'[ch] \in Captured
          /\ captured'[ch].command = captured[ch].command
          /\ captured[ch].command \in Command
    BY <1>1, <1>3 DEF Captured
  <1>5. /\ captured'[ch] \in Captured \cup {Nothing}
        /\ captured'[ch] # Nothing => Given(captured[ch].command)'
    BY <1>1, <1>3, <1>4 DEF Given, Command
  <1> QED BY <1>2, <1>5

(* The targets, what ticks captured, and the commands for REST, next.      *)
PassesOn ==
  /\ target' \in [Channels -> Target \cup {Nothing}]
  /\ captured' \in [Channels -> Captured \cup {Nothing}]
  /\ latestRestDrive' \in Command \cup {Nothing} /\ posting' \in Command \cup {Nothing}
  /\ CommandsGiven'

LEMMA StillPasses ==
  ASSUME BridgeTypes, CommandsGiven, UNCHANGED <<target, captured, latestRestDrive, posting>>,
         \A t \in PilotTokens : granted[t] \subseteq granted'[t]
  PROVE  PassesOn
  <1>1. \A c \in Command : Given(c) => c.mode \in granted'[c.token]
    BY DEF Given, Command
  <1>2. /\ posting # Nothing => posting \in Command /\ Given(posting)
        /\ latestRestDrive # Nothing => latestRestDrive \in Command /\ Given(latestRestDrive)
    BY DEF BridgeTypes, CommandsGiven
  <1>3. \A ch \in Channels :
          /\ target[ch] # Nothing => target[ch].command \in Command /\ Given(target[ch].command)
          /\ captured[ch] # Nothing => captured[ch].command \in Command /\ Given(captured[ch].command)
    BY DEF BridgeTypes, CommandsGiven, Target, Captured
  <1>4. CommandsGiven'
    BY <1>1, <1>2, <1>3 DEF CommandsGiven, Given
  <1> QED BY <1>4 DEF PassesOn, BridgeTypes

LEMMA ReplacePasses ==
  ASSUME BridgeTypes, CommandsGiven, NEW news, DOMAIN news \subseteq Channels,
         \A ch \in DOMAIN news : news[ch] \in Command /\ news[ch].mode \in granted'[news[ch].token],
         \A t \in PilotTokens : granted[t] \subseteq granted'[t],
         Replace(news), UNCHANGED <<latestRestDrive, posting>>
  PROVE  PassesOn
  <1>1. \A ch \in Channels :
          /\ target'[ch] \in Target \cup {Nothing} /\ captured'[ch] \in Captured \cup {Nothing}
          /\ target'[ch] # Nothing => Given(target[ch].command)'
          /\ captured'[ch] # Nothing => Given(captured[ch].command)'
    BY ReplaceKeeps
  <1>2. /\ target' = [ch \in Channels |-> target'[ch]]
        /\ captured' = [ch \in Channels |-> captured'[ch]]
    BY DEF Replace
  <1>3. target' \in [Channels -> Target \cup {Nothing}] /\ captured' \in [Channels -> Captured \cup {Nothing}]
    BY <1>1, <1>2
  <1>4. /\ posting' # Nothing => Given(posting)'
        /\ latestRestDrive' # Nothing => Given(latestRestDrive)'
    BY DEF BridgeTypes, CommandsGiven, Given, Command
  <1>5. CommandsGiven'
    BY <1>1, <1>4 DEF CommandsGiven
  <1> QED BY <1>3, <1>5 DEF PassesOn, BridgeTypes

(* An accepted frame was given, with its token. *)
LEMMA AcceptPasses ==
  ASSUME BridgeTypes, CommandsGiven, NEW f \in Frames, Accept(f),
         \A t \in PilotTokens : granted[t] \subseteq granted'[t],
         f.command.mode \in granted'[f.command.token]
  PROVE  PassesOn
  <1>1. f.command \in Command /\ f.channel \in Channels
    BY FrameFacts
  <1>2. CASE OverRest(f.channel) /\ queueRestDrive(f.command) /\ UNCHANGED wsVars
    <2>1. \A c \in Command : Given(c) => c.mode \in granted'[c.token]
      BY DEF Given, Command
    <2>2. /\ target' = target /\ captured' = captured
          /\ posting' \in {posting, f.command} /\ latestRestDrive' \in {latestRestDrive, f.command}
      BY <1>2 DEF queueRestDrive, wsVars
    <2>3. /\ posting' # Nothing => Given(posting)'
          /\ latestRestDrive' # Nothing => Given(latestRestDrive)'
      BY <2>1, <2>2, <1>1 DEF BridgeTypes, CommandsGiven, Given
    <2>4. \A ch \in Channels :
            /\ target[ch] # Nothing => target[ch].command \in Command /\ Given(target[ch].command)
            /\ captured[ch] # Nothing =>
                 captured[ch].command \in Command /\ Given(captured[ch].command)
      BY DEF BridgeTypes, CommandsGiven, Target, Captured
    <2>5. CommandsGiven'
      BY <2>1, <2>2, <2>3, <2>4 DEF CommandsGiven, Given
    <2> QED BY <1>1, <2>2, <2>5 DEF PassesOn, BridgeTypes
  <1>3. CASE /\ ~OverRest(f.channel) /\ Replace([ch \in {f.channel} |-> f.command])
             /\ UNCHANGED <<socket, restVars>>
    <2> DEFINE news == [ch \in {f.channel} |-> f.command]
    <2>1. /\ DOMAIN news \subseteq Channels
          /\ \A ch \in DOMAIN news : news[ch] \in Command /\ news[ch].mode \in granted'[news[ch].token]
      BY <1>1
    <2>2. Replace(news) /\ UNCHANGED <<latestRestDrive, posting>>
      BY <1>3 DEF restVars
    <2> HIDE DEF news
    <2> QED BY <2>1, <2>2, ReplacePasses
  <1> QED BY <1>2, <1>3 DEF Accept

LEMMA ReceiveKeeps ==
  ASSUME BridgeInv, NEW f \in Frames, Receive(f)
  PROVE  BridgeInv'
  <1>1. granted' = granted /\ authorized' = authorized
    BY DEF Receive, Ask
  <1>2. PassesOn
    <2>1. CASE authorized[f.command.token] = f.command.mode /\ Accept(f)
      <3>1. f.command.mode \in granted'[f.command.token]
        BY <1>1, <2>1, FrameFacts DEF BridgeInv
      <3> QED BY <1>1, <2>1, <3>1, AcceptPasses DEF BridgeInv
    <2>2. CASE UNCHANGED <<wsVars, restVars>>
      BY <1>1, <2>2, StillPasses DEF BridgeInv, wsVars, restVars
    <2> QED BY <2>1, <2>2 DEF Receive
  <1> QED BY <1>1, <1>2 DEF BridgeInv, BridgeTypes, PassesOn

LEMMA AnswerKeeps ==
  ASSUME BridgeInv, NEW f \in Frames, RequestEnds(f)
  PROVE  BridgeInv'
  <1> DEFINE c == f.command
  <1>1. c \in Command /\ c.token \in PilotTokens /\ c.mode \in SpeedModes
    BY FrameFacts
  <1>2. BridgeTypes /\ CommandsGiven
    BY DEF BridgeInv
  <1>3. /\ granted' \in [PilotTokens -> SUBSET SpeedModes]
        /\ \A t \in PilotTokens : granted[t] \subseteq granted'[t]
    <2>1. CASE Grant(c)
      BY <1>1, <1>2, <2>1, GrantGrows
    <2>2. CASE UNCHANGED granted
      BY <1>2, <2>2 DEF BridgeTypes
    <2> QED BY <2>1, <2>2 DEF RequestEnds, RequestSucceeds, RequestFails
  <1>4. CASE RequestSucceeds(f)
    <2>1. Grant(c) /\ Accept(f) /\ authorized' = [authorized EXCEPT ![c.token] = c.mode]
      BY <1>4 DEF RequestSucceeds
    <2>2. c.mode \in granted'[c.token]
      BY <1>1, <1>2, <2>1, GrantGrows
    <2>3. PassesOn
      BY <1>2, <1>3, <2>1, <2>2, AcceptPasses
    <2> HIDE DEF c
    <2>4. authorized' \in [PilotTokens -> SpeedModes \cup {Nothing}]
      BY <1>1, <1>2, <2>1 DEF BridgeTypes
    <2>5. \A t \in PilotTokens : authorized'[t] # Nothing => authorized'[t] \in granted'[t]
      BY <1>1, <1>2, <1>3, <2>1, <2>2 DEF BridgeInv, BridgeTypes
    <2> QED BY <1>3, <2>3, <2>4, <2>5 DEF BridgeInv, BridgeTypes, PassesOn
  <1>5. CASE RequestFails(f)
    <2>1. authorized' = authorized /\ UNCHANGED <<target, captured, latestRestDrive, posting>>
      BY <1>5 DEF RequestFails, wsVars, restVars
    <2>2. PassesOn
      BY <1>2, <1>3, <2>1, StillPasses
    <2>3. \A t \in PilotTokens : authorized'[t] # Nothing => authorized'[t] \in granted'[t]
      BY <1>3, <2>1 DEF BridgeInv
    <2> QED BY <1>2, <1>3, <2>1, <2>2, <2>3 DEF BridgeInv, BridgeTypes, PassesOn
  <1> QED BY <1>4, <1>5 DEF RequestEnds

LEMMA LinkClosesKeeps ==
  ASSUME BridgeInv, LinkCloses
  PROVE  BridgeInv'
  <1> DEFINE news == [ch \in {d \in Channels : target[d] # Nothing} |-> Zeroed(target[ch].command)]
  <1>1. authorized' = authorized /\ granted' = granted /\ UNCHANGED <<latestRestDrive, posting>>
    BY DEF LinkCloses, restVars
  <1>2. ASSUME NEW ch \in DOMAIN news
        PROVE  news[ch] \in Command /\ news[ch].mode \in granted'[news[ch].token]
    <2>1. target[ch] \in Target /\ Given(target[ch].command) /\ news[ch] = Zeroed(target[ch].command)
      BY <1>2 DEF BridgeInv, BridgeTypes, CommandsGiven
    <2>2. /\ news[ch] \in Command /\ news[ch].mode = target[ch].command.mode
          /\ news[ch].token = target[ch].command.token
      BY <2>1 DEF Target, Command, Zeroed
    <2> QED BY <1>1, <2>1, <2>2 DEF Given
  <1>3. DOMAIN news \subseteq Channels /\ Replace(news)
    BY DEF LinkCloses
  <1> HIDE DEF news
  <1>4. BridgeTypes /\ CommandsGiven /\ \A t \in PilotTokens : granted[t] \subseteq granted'[t]
    BY <1>1 DEF BridgeInv
  <1>5. PassesOn
    BY <1>1, <1>2, <1>3, <1>4, ReplacePasses
  <1> QED BY <1>1, <1>5 DEF BridgeInv, BridgeTypes, PassesOn

(* A timer's tick captures, and a socket sends, only targets, and what was *)
(* captured of them.                                                       *)
LEMMA SocketKeeps ==
  ASSUME BridgeInv, NEW ch \in Channels, Flush(ch) \/ Opens(ch) \/ Closes(ch) \/ GoesStale(ch)
  PROVE  BridgeInv'
  <1>1. authorized' = authorized /\ granted' = granted /\ UNCHANGED <<latestRestDrive, posting>>
    BY DEF Flush, Opens, Closes, GoesStale, restVars
  <1>2. /\ target \in [Channels -> Target \cup {Nothing}]
        /\ captured \in [Channels -> Captured \cup {Nothing}]
    BY DEF BridgeInv, BridgeTypes
  <1>3. /\ \A d \in Channels \ {ch} : target'[d] = target[d] /\ captured'[d] = captured[d]
        /\ target' \in [Channels -> {target'[d] : d \in Channels}]
        /\ captured' \in [Channels -> {captured'[d] : d \in Channels}]
    BY <1>2 DEF Flush, Opens, Closes, GoesStale, Send
  <1>4. \/ target'[ch] \in {Nothing, target[ch]}
        \/ target[ch] # Nothing /\ target'[ch] = [target[ch] EXCEPT !.fresh = FALSE]
    BY <1>2 DEF Flush, Opens, Closes, GoesStale, Send
  <1>5. \/ captured'[ch] \in {Nothing, captured[ch]}
        \/ /\ target[ch] # Nothing
           /\ captured'[ch] =
                [command |-> ToSend(ch), stale |-> ~target[ch].fresh, current |-> TRUE]
    BY <1>2 DEF Flush, Opens, Closes, GoesStale
  <1>6. target[ch] # Nothing =>
          /\ target[ch] \in Target /\ target[ch].command \in Command /\ Given(target[ch].command)
    BY <1>2 DEF BridgeInv, CommandsGiven, Target
  <1>7. target[ch] # Nothing =>
          ToSend(ch) \in Command /\ Given(ToSend(ch))
    BY <1>6 DEF ToSend, Zeroed, Command, Given
  <1>8. /\ target'[ch] \in Target \cup {Nothing}
        /\ target'[ch] # Nothing => Given(target[ch].command)'
    BY <1>1, <1>2, <1>4, <1>6 DEF Target, Given
  <1>9. /\ captured'[ch] \in Captured \cup {Nothing}
        /\ captured'[ch] # Nothing => Given(captured[ch].command)'
    <2>1. CASE captured'[ch] \in {Nothing, captured[ch]}
      BY <1>1, <1>2, <2>1 DEF BridgeInv, CommandsGiven, Given
    <2>2. CASE /\ target[ch] # Nothing
               /\ captured'[ch] =
                    [command |-> ToSend(ch), stale |-> ~target[ch].fresh, current |-> TRUE]
      <3>1. captured'[ch] \in Captured
        BY <1>6, <1>7, <2>2 DEF Captured, Target
      <3> QED BY <1>1, <1>7, <2>2, <3>1 DEF Given
    <2> QED BY <1>5, <2>1, <2>2
  <1>10. \A d \in Channels :
           /\ target'[d] # Nothing => Given(target[d].command)'
           /\ captured'[d] # Nothing => Given(captured[d].command)'
    BY <1>1, <1>3, <1>8, <1>9 DEF BridgeInv, CommandsGiven, Given
  <1>11. /\ target' \in [Channels -> Target \cup {Nothing}]
         /\ captured' \in [Channels -> Captured \cup {Nothing}]
    BY <1>2, <1>3, <1>8, <1>9
  <1>12. CommandsGiven'
    BY <1>1, <1>10 DEF BridgeInv, CommandsGiven, Given
  <1> QED BY <1>1, <1>11, <1>12 DEF BridgeInv, BridgeTypes

LEMMA BridgeNextInv == BridgeInv /\ [BridgeNext]_bridgeVars => BridgeInv'
  <1> SUFFICES ASSUME BridgeInv, [BridgeNext]_bridgeVars PROVE BridgeInv'
    OBVIOUS
  <1>1. CASE LinkOpens \/ UNCHANGED bridgeVars
    BY <1>1 DEF LinkOpens, bridgeVars, wsVars, restVars, BridgeInv, BridgeTypes, CommandsGiven, Given
  <1>2. CASE PostEnds
    BY <1>2 DEF PostEnds, wsVars, BridgeInv, BridgeTypes, CommandsGiven, Given
  <1> QED BY <1>1, <1>2, ReceiveKeeps, AnswerKeeps, LinkClosesKeeps, SocketKeeps
          DEF BridgeNext, FrameArrives

LEMMA BridgeInitInv == BridgeInit => BridgeInv
  BY DEF BridgeInit, BridgeInv, BridgeTypes, CommandsGiven

(* The invariant of the bridge, whatever frames, requests and sockets do.  *)
THEOREM BridgeInvariantHolds == BridgeSpec => []BridgeInv
  BY BridgeInitInv, BridgeNextInv, PTL DEF BridgeSpec

(* What is sent, or may still be, carries a token the harness was given    *)
(* with that mode: for any number of pilots, frames and requests under way *)
(* that end in any order (ensureHarnessToken).                             *)
THEOREM CommandsAreGranted == BridgeSpec => []CommandsGranted
  <1>1. BridgeInv => CommandsGranted
    BY DEF BridgeInv, CommandsGiven, CommandsGranted, Given
  <1> QED BY <1>1, BridgeInvariantHolds, PTL
=============================================================================
