------------------------------ MODULE RaceRoom ------------------------------
(***************************************************************************)
(* The sidecar's race room: the rounds of rounds.ts, their copy on disk,   *)
(* the HTTP handlers of index.ts that move a round through the escrow, and *)
(* the escrow itself (RaceLedger), which only the sidecar's facilitator    *)
(* key can drive.                                                          *)
(*                                                                         *)
(* Node runs one piece of a handler at a time, from one await to the next. *)
(* A handler that changes a round without awaiting is one action.  One     *)
(* that awaits the chain is a call: it is made from a snapshot of the      *)
(* round, its transaction is sent and takes effect some time later, the    *)
(* handler then resumes and marks the round as it is by then.  Anything    *)
(* may happen in between.  A call is a record of                           *)
(*   op       what it does: a transaction, or "capture-*" while the finish *)
(*            camera is being read                                         *)
(*   phase    "reading" nextRaceId, "sent", or "done", the answer is there *)
(*   waiting  whether a handler still awaits it                            *)
(* and what the snapshot gave it.                                          *)
(***************************************************************************)
EXTENDS Integers, FiniteSets

CONSTANTS
  RoundIds,           \* the rounds that may be created
  NoRound,            \* a round not created yet
  Wallets, NoWallet, NoRace, NoWinner,   \* as in Rounds
  Fees,               \* what a fee-paid request may report, or {}
  CallIds, Idle,      \* bound: calls at a time; a free place
  MaxRaces,           \* bound: races that can be opened
  Faults              \* what may go wrong: a subset of {"crash", "timeout"}

ASSUME NamesAssumption ==
  /\ NoWallet \notin Wallets
  /\ MaxRaces \in Nat \ {0}
  /\ NoRace \notin 0..(MaxRaces - 1)
  /\ NoWinner \notin 0..1

VARIABLES
  round,        \* rounds in memory
  disk,         \* rounds as last persisted
  authorizing,  \* rounds whose lockRound awaits the robots
  calls,        \* the calls in progress
  raceStatus, entrant, winnerSlot, nextRaceId   \* the escrow

roomVars == <<round, disk, authorizing>>
chainVars == <<raceStatus, entrant, winnerSlot, nextRaceId>>
vars == <<round, disk, authorizing, calls, raceStatus, entrant, winnerSlot, nextRaceId>>

RaceId == 0..(MaxRaces - 1)

INSTANCE Rounds WITH Races <- RaceId

Chain == INSTANCE RaceLedger WITH
           Drivers <- Wallets, NoDriver <- NoWallet, status <- raceStatus

Call == [op : {"open", "join", "lock", "start", "finish", "settle", "cancel",
               "capture-choose", "capture-settle"},
         phase : {"reading", "sent", "done"}, waiting : BOOLEAN, round : RoundIds,
         race : RaceId \cup {NoRace}, slot : Slot, wallet : Wallets \cup {NoWallet},
         winner : Slot \cup {NoWinner}]

ASSUME FreshAssumption == NoRound \notin Round /\ Idle \notin Call

ASSUME FeesAssumption == Fees \subseteq FeePayment

Init ==
  /\ round = [x \in RoundIds |-> NoRound]
  /\ disk = round
  /\ authorizing = {}
  /\ calls = [c \in CallIds |-> Idle]
  /\ Chain!Init

Known(x) == round[x] # NoRound

(* persistSnapshot: the round is changed in memory and written to disk.    *)
Save(x, rd) ==
  /\ round' = [round EXCEPT ![x] = rd]
  /\ disk' = [disk EXCEPT ![x] = rd]
-----------------------------------------------------------------------------
(* Handlers that do not await.                                             *)

Create(x, wallet) ==
  /\ ~Known(x)
  /\ Save(x, createRound(wallet))
  /\ UNCHANGED <<authorizing, calls, chainVars>>

(* A handler that changes round x to rd. *)
Update(x, rd) == Save(x, rd) /\ UNCHANGED <<authorizing, calls, chainVars>>

Join(x, rd) ==
  \/ \E wallet \in Wallets : CanAcceptRound(rd, wallet) /\ Update(x, acceptRound(rd, wallet))
  \/ \E s \in Slot, wallet \in Wallets :
       CanClaimSlot(rd, s, wallet) /\ Update(x, claimSlot(rd, s, wallet))
  \/ \E s \in Slot, fee \in Fees : Joinable(rd) /\ Update(x, markFeePaid(rd, s, fee))
  \/ \E s \in Slot : Joinable(rd) /\ Update(x, authorizeStake(rd, s))

Run(x, rd) ==
  \/ CanLockRound(rd) /\ Update(x, WithStatus(rd, "locked"))
  \/ rd.status = "locked" /\ Update(x, WithStatus(rd, "countdown"))
  \/ rd.status = "countdown" /\ Update(x, WithStatus(rd, "racing"))
  \/ rd.status = "racing" /\ \E w \in Slot : Update(x, finishRound(rd, w))
  \/ CanCancelRound(rd) /\ Update(x, WithStatus(rd, "canceled"))

(* A call to chain/open for a round that has a race returns that race.     *)
Reopen(x, rd) == rd.chainRaceId # NoRace /\ Update(x, attachChainRace(rd, rd.chainRaceId))

LocalStep ==
  \E x \in RoundIds :
    /\ Known(x)
    /\ Join(x, round[x]) \/ Run(x, round[x]) \/ Reopen(x, round[x])
-----------------------------------------------------------------------------
(* lockRound changes the round, then awaits both robots, then persists it. *)

BeginLock(x) ==
  /\ Known(x)
  /\ CanLockRound(round[x])
  /\ round' = [round EXCEPT ![x].status = "locked"]
  /\ authorizing' = authorizing \cup {x}
  /\ UNCHANGED <<disk, calls, chainVars>>

EndLock(x) ==
  /\ x \in authorizing
  /\ authorizing' = authorizing \ {x}
  /\ disk' \in {disk, [disk EXCEPT ![x] = round[x]]}
  /\ UNCHANGED <<round, calls, chainVars>>
-----------------------------------------------------------------------------
(* Handlers that await: the calls a request for round x may begin.         *)

NewCall(op, x, race) ==
  [op |-> op, phase |-> "sent", waiting |-> TRUE, round |-> x, race |-> race,
   slot |-> Challenger, wallet |-> NoWallet, winner |-> NoWinner]

Place(c, call) == calls' = [calls EXCEPT ![c] = call]

(* What settling a round sends next: finishRace, unless that is done.      *)
SettleCall(x, rd) ==
  IF rd.chainStatus = "started"
  THEN [NewCall("finish", x, rd.chainRaceId) EXCEPT !.winner = rd.winner]
  ELSE NewCall("settle", x, rd.chainRaceId)

OpenRequests(x, rd) ==
  IF rd.chainRaceId = NoRace
  THEN {[NewCall("open", x, NoRace) EXCEPT !.phase = "reading"]} ELSE {}

JoinRequests(x, rd) ==
  {[NewCall("join", x, rd.chainRaceId) EXCEPT !.slot = s, !.wallet = rd.drivers[s].wallet] :
     s \in {t \in Slot : rd.drivers[t].wallet # NoWallet}}

(* chain/settle does not look at the local status.                         *)
SettleRequests(x, rd) ==
  IF rd.chainStatus = "started" /\ rd.winner = NoWinner THEN {} ELSE {SettleCall(x, rd)}

RaceRequests(x, rd) ==
  IF rd.chainRaceId = NoRace THEN {}
  ELSE {NewCall(op, x, rd.chainRaceId) : op \in {"lock", "start", "cancel"}}
         \cup JoinRequests(x, rd) \cup SettleRequests(x, rd)

Capture(op, x, winner) == [NewCall(op, x, NoRace) EXCEPT !.phase = "done", !.winner = winner]

(* settle-winner and choose-winner: a round that is ready to settle is     *)
(* finished and settled, any other only gets its winner.                   *)
OperatorRequests(x, rd) ==
  {Capture("capture-choose", x, w) : w \in {v \in Slot : ~CanSettle(rd, v)}}
    \cup {IF rd.status = "racing" THEN Capture("capture-settle", x, w) ELSE SettleCall(x, rd) :
            w \in {v \in Slot : CanSettle(rd, v) /\ rd.status # "settled"}}

Request(c, x) ==
  /\ Known(x)
  /\ calls[c] = Idle
  /\ \E call \in OpenRequests(x, round[x]) \cup RaceRequests(x, round[x])
                  \cup OperatorRequests(x, round[x]) : Place(c, call)
  /\ UNCHANGED <<roomVars, chainVars>>

ReadNextRaceId(c) ==
  /\ calls[c] # Idle
  /\ calls[c].phase = "reading"
  /\ nextRaceId < MaxRaces
  /\ Place(c, [calls[c] EXCEPT !.phase = "sent", !.race = nextRaceId])
  /\ UNCHANGED <<roomVars, chainVars>>
-----------------------------------------------------------------------------
(* The transaction.                                                        *)

Sent(c) == calls[c] # Idle /\ calls[c].phase = "sent"

Transaction(call) ==
  \/ call.op = "open" /\ Chain!OpenRace
  \/ call.op = "join" /\ Chain!Join(call.race, call.slot, call.wallet)
  \/ call.op = "lock" /\ Chain!Lock(call.race)
  \/ call.op = "start" /\ Chain!Start(call.race)
  \/ call.op = "finish" /\ Chain!Finish(call.race, call.winner)
  \/ call.op = "settle" /\ Chain!Settle(call.race)
  \/ call.op = "cancel" /\ Chain!Cancel(call.race)

Mine(c) ==
  /\ Sent(c)
  /\ Transaction(calls[c])
  /\ Place(c, IF calls[c].waiting THEN [calls[c] EXCEPT !.phase = "done"] ELSE Idle)
  /\ UNCHANGED roomVars

(* It reverts, or the RPC fails, and the handler throws.                   *)
Reject(c) ==
  /\ calls[c] # Idle
  /\ calls[c].phase # "done"
  /\ Place(c, Idle)
  /\ UNCHANGED <<roomVars, chainVars>>

(* The wait for the receipt gives up, and the handler throws, while the    *)
(* transaction may still be mined.                                         *)
Timeout(c) ==
  /\ "timeout" \in Faults
  /\ Sent(c)
  /\ Place(c, [calls[c] EXCEPT !.waiting = FALSE])
  /\ UNCHANGED <<roomVars, chainVars>>

(* The sidecar restarts from the rounds on disk; what was sent stays sent. *)
Crash ==
  /\ "crash" \in Faults
  /\ round' = disk
  /\ authorizing' = {}
  /\ calls' = [c \in CallIds |-> IF Sent(c) THEN [calls[c] EXCEPT !.waiting = FALSE] ELSE Idle]
  /\ UNCHANGED <<disk, chainVars>>
-----------------------------------------------------------------------------
(* The handler resumes, with the round as it is by now.                    *)

Marks == [lock |-> "locked", start |-> "started", finish |-> "finished",
          settle |-> "settled", cancel |-> "canceled"]

(* The function the handler calls next does not throw.                     *)
Accepts(call, rd) ==
  CASE call.op = "open" -> CanAttachChainRace(rd, call.race)
    [] call.op = "join" -> TRUE
    [] call.op = "capture-settle" -> rd.status = "racing"
    [] call.op = "capture-choose" -> CanChooseWinner(rd, call.winner)
    [] OTHER -> CanMarkChain(rd, Marks[call.op])

Marked(call, rd) ==
  CASE call.op = "open" -> attachChainRace(rd, call.race)
    [] call.op = "join" -> markChainJoined(rd, call.slot)
    [] call.op = "capture-settle" -> finishRound(rd, call.winner)
    [] call.op = "capture-choose" -> chooseWinner(rd, call.winner)
    [] OTHER -> markChain(rd, Marks[call.op])

(* After the mark, settling goes on from finishRace to settleRace, and     *)
(* from a captured finish to either.                                       *)
GoesOn(call, rd) ==
  \/ call.op = "finish"
  \/ call.op = "capture-settle" /\ rd.chainStatus \in {"started", "finished"}
  \/ call.op = "capture-choose" /\ CanSettle(rd, call.winner) /\ rd.status = "finished"

Resume(c) ==
  LET call == calls[c]
      x == call.round
      marked == Marked(call, round[x])
  IN /\ call # Idle
     /\ call.phase = "done"
     /\ IF Accepts(call, round[x])
        THEN /\ Save(x, marked)
             /\ Place(c, IF GoesOn(call, marked) THEN SettleCall(x, marked) ELSE Idle)
        ELSE /\ Place(c, Idle)
             /\ UNCHANGED <<round, disk>>
     /\ UNCHANGED <<authorizing, chainVars>>
-----------------------------------------------------------------------------
CallStep(c) ==
  \/ \E x \in RoundIds : Request(c, x)
  \/ ReadNextRaceId(c)
  \/ Mine(c)
  \/ Reject(c)
  \/ Timeout(c)
  \/ Resume(c)

Next ==
  \/ \E x \in RoundIds, wallet \in Wallets \cup {NoWallet} : Create(x, wallet)
  \/ LocalStep
  \/ \E x \in RoundIds : BeginLock(x) \/ EndLock(x)
  \/ \E c \in CallIds : CallStep(c)
  \/ Crash

Spec == Init /\ [][Next]_vars
-----------------------------------------------------------------------------
(* Properties.                                                             *)

(* Every variable keeps its type; in particular the optional fields of a   *)
(* round are always set, and the rounds on disk are the rounds in memory.  *)
TypeOK ==
  /\ round \in [RoundIds -> Round \cup {NoRound}]
  /\ disk \in [RoundIds -> Round \cup {NoRound}]
  /\ \A x \in RoundIds : disk[x] = NoRound <=> round[x] = NoRound
  /\ authorizing \subseteq {x \in RoundIds : Known(x)}
  /\ calls \in [CallIds -> Call \cup {Idle}]
  /\ nextRaceId \in 0..MaxRaces
  /\ raceStatus \in [RaceId -> {"None", "Created", "Joined", "Locked", "Started",
                               "Finished", "Settled", "Canceled"}]
  /\ entrant \in [RaceId -> [Slot -> Wallets \cup {NoWallet}]]
  /\ winnerSlot \in [RaceId -> Slot]

Attached(x) == Known(x) /\ round[x].chainRaceId # NoRace

RaceOf(x) == raceStatus[round[x].chainRaceId]

(* The statuses a race may have when a round says so of it. *)
AtLeast(chainStatus) ==
  CASE chainStatus = "opened" -> {"Created", "Joined", "Locked", "Started", "Finished", "Settled", "Canceled"}
    [] chainStatus = "joined" -> {"Joined", "Locked", "Started", "Finished", "Settled", "Canceled"}
    [] chainStatus = "locked" -> {"Locked", "Started", "Finished", "Settled", "Canceled"}
    [] chainStatus = "started" -> {"Started", "Finished", "Settled", "Canceled"}
    [] chainStatus = "finished" -> {"Finished", "Settled"}
    [] chainStatus = "settled" -> {"Settled"}
    [] chainStatus = "canceled" -> {"Canceled"}

(* The sidecar never believes more than the chain has done: through late   *)
(* answers, failures, crashes and repeated requests a round's chainStatus  *)
(* lags behind the status of its race, and a round is settled only when    *)
(* its race is (the mark functions run after the transaction is mined).    *)
LocalBehindChain ==
  \A x \in RoundIds : Known(x) =>
    IF Attached(x)
    THEN /\ RaceOf(x) \in AtLeast(round[x].chainStatus)
         /\ round[x].status = "settled" => RaceOf(x) = "Settled"
    ELSE round[x].chainStatus = "not-opened"

(* No stake is lost sight of: a race somebody has entered is the race of a *)
(* round on disk, which therefore can still be settled or cancelled        *)
(* (attachChainRace never replaces a race).                                *)
StakesKnown ==
  \A r \in RaceId : (\E s \in Slot : entrant[r][s] # NoWallet) =>
    \E x \in RoundIds : disk[x] # NoRound /\ disk[x].chainRaceId = r

(* A driver the sidecar has down as joined on chain is the entrant of that *)
(* slot of the race, although wallets are claimed while joins are on the   *)
(* way (claimSlot against chain/join).                                     *)
JoinsAgree ==
  \A x \in RoundIds, s \in Slot : Known(x) /\ round[x].drivers[s].chainJoined =>
    Attached(x) /\ entrant[round[x].chainRaceId][s] = round[x].drivers[s].wallet

(* The winner a race was finished with is the winner of its round, and     *)
(* is on disk (finishRound and chooseWinner against the finish call).      *)
ResultAgrees ==
  \A x \in RoundIds : Attached(x) /\ RaceOf(x) \in {"Finished", "Settled"} =>
    /\ disk[x].winner = winnerSlot[round[x].chainRaceId]
    /\ disk[x].status \in {"finished", "settled"}

(* A winner, once chosen, stays, and a settled or cancelled round stays so,*)
(* even if the sidecar crashes (guards of rounds.ts, persistSnapshot).     *)
OutcomeStands ==
  [][\A x \in RoundIds : Known(x) =>
       /\ round[x].winner # NoWinner => round'[x].winner = round[x].winner
       /\ round[x].status \in {"settled", "canceled"} => round'[x].status = round[x].status]_vars

(* A round that has a race is locked, and its robots are handed out, only  *)
(* when that race has been locked on chain with the stakes of the round's  *)
(* own two drivers, although wallets are claimed while joins are on the    *)
(* way and answers come late or after a restart (lockRound reads nothing   *)
(* but chainStatus).  Whether the race still stands is LockedRaceStands.   *)
LockedWithStakes ==
  [][\A x \in RoundIds :
       Attached(x) /\ round[x].status = "ready" /\ round'[x].status = "locked" =>
         /\ RaceOf(x) \in AtLeast("locked")
         /\ \A s \in Slot : /\ round[x].drivers[s].wallet # NoWallet
                            /\ entrant[round[x].chainRaceId][s] = round[x].drivers[s].wallet]_vars

(* The race is not cancelled by then.  It does not hold: lockRound lets a  *)
(* round through whose race has been cancelled and refunded as long as the *)
(* cancellation is not marked, for good if its answer has been lost.       *)
LockedRaceStands ==
  [][\A x \in RoundIds :
       Attached(x) /\ round[x].status = "ready" /\ round'[x].status = "locked" =>
         RaceOf(x) # "Canceled"]_vars

(* The operator's settle-winner route is documented as idempotent: when it *)
(* is ready to settle and nothing is on the way, the chain accepts the     *)
(* transaction it would send next.  It does not hold once the receipt of   *)
(* finishRace was lost.                                                    *)
SettleCanBeRetried ==
  \A x \in RoundIds :
    /\ Known(x)
    /\ round[x].status = "finished"
    /\ CanSettle(round[x], round[x].winner)
    /\ \A c \in CallIds : calls[c] = Idle
    => RaceOf(x) = IF round[x].chainStatus = "started" THEN "Started" ELSE "Finished"

(* chain/open is documented to open a race for the round: no two rounds    *)
(* have the same race.  It does not hold of two rounds opened at once.     *)
OneRoundPerRace ==
  \A x, y \in RoundIds : Attached(x) /\ Attached(y) /\ x # y =>
    round[x].chainRaceId # round[y].chainRaceId
=============================================================================
