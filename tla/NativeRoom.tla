----------------------------- MODULE NativeRoom -----------------------------
(***************************************************************************)
(* The Clanker500 routes of index.ts with clanker500-chain.ts: rounds      *)
(* staked in native coin.  The drivers send their own joins, which the     *)
(* sidecar reads back (confirm-join); every other transaction is sent with *)
(* the sidecar's facilitator key to the escrow (RaceLedger).               *)
(*                                                                         *)
(* As in RaceRoom a handler that awaits the chain is a call with the       *)
(* snapshot it was made from.  Its phases:                                 *)
(*   "reading" nextRaceId, or the receipt of a driver's join               *)
(*   "asked"   the transaction is being estimated                          *)
(*   "sent"    it is sent, and the handler awaits its receipt              *)
(*   "done"    the answer is there                                         *)
(* Estimating fails when the transaction would revert as things stand.  It *)
(* may still revert when it is mined, after those sent before it (nonces   *)
(* keep them in order), and wait() does not tell the difference.           *)
(*                                                                         *)
(* ReadsAnySlot and LocksOffChain are plausible wrong forms of the         *)
(* definitions below them.                                                 *)
(***************************************************************************)
EXTENDS Integers, Sequences

CONSTANTS
  RoundIds,           \* the rounds that may be created
  NoRound,            \* a round not created yet
  Wallets, NoWallet, NoRace, NoWinner,   \* as in Rounds
  CallIds, Idle,      \* bound: calls at a time; a free place
  MaxRaces,           \* bound: races that can be opened
  MaxPending          \* bound: transactions sent and not mined

ASSUME NativeAssumption ==
  /\ NoWallet \notin Wallets
  /\ MaxRaces \in Nat \ {0}
  /\ MaxPending \in Nat
  /\ NoRace \notin 0..(MaxRaces - 1)
  /\ NoWinner \notin 0..1
  /\ Idle \notin CallIds

VARIABLES
  round,    \* rounds, in memory and on disk
  calls,    \* the calls in progress
  unmined,  \* the facilitator's transactions, in the order of their nonces
  raceStatus, entrant, winnerSlot, nextRaceId   \* the escrow

chainVars == <<raceStatus, entrant, winnerSlot, nextRaceId>>
nativeVars == <<round, calls, unmined, raceStatus, entrant, winnerSlot, nextRaceId>>

RaceId == 0..(MaxRaces - 1)

INSTANCE Rounds WITH Races <- RaceId

Chain == INSTANCE RaceLedger WITH
           Drivers <- Wallets, NoDriver <- NoWallet, status <- raceStatus

TransactionOp == {"open", "lock", "start", "finish", "settle", "cancel"}

Call == [op : TransactionOp \cup {"confirm"},
         phase : {"reading", "asked", "sent", "done"}, round : RoundIds,
         race : RaceId \cup {NoRace}, slot : Slot, wallet : Wallets \cup {NoWallet},
         winner : Slot \cup {NoWinner}]

Sent == [op : TransactionOp, race : RaceId \cup {NoRace}, winner : Slot \cup {NoWinner},
         by : CallIds \cup {Idle}]

RaceStatus == {"None", "Created", "Joined", "Locked", "Started", "Finished", "Settled",
               "Canceled"}

ASSUME FreshAssumption == NoRound \notin Round /\ Idle \notin Call

NativeInit ==
  /\ round = [x \in RoundIds |-> NoRound]
  /\ calls = [c \in CallIds |-> Idle]
  /\ unmined = <<>>
  /\ Chain!Init

Known(x) == round[x] # NoRound

Save(x, rd) == round' = [round EXCEPT ![x] = rd]
Place(c, call) == calls' = [calls EXCEPT ![c] = call]
-----------------------------------------------------------------------------
(* Handlers that do not await.                                             *)

Update(x, rd) == Save(x, rd) /\ UNCHANGED <<calls, unmined, chainVars>>

(* nextClankerSlot: the wallet's own slot, or else the first free one.     *)
ClaimNextSlot(x, rd, wallet) ==
  \E s \in Slot :
    /\ \/ rd.drivers[s].wallet = wallet
       \/ /\ \A t \in Slot : rd.drivers[t].wallet # wallet
          /\ rd.drivers[s].wallet = NoWallet
          /\ \A t \in Slot : t < s => rd.drivers[t].wallet # NoWallet
    /\ CanClaimSlot(rd, s, wallet)
    /\ Update(x, claimSlot(rd, s, wallet))

LocksOffChain(rd) == rd.status = "ready"

(* The lock and start routes, where they send nothing: lock goes on with   *)
(* lockRoundLocal, start with startRace.                                   *)
LocksLocally(rd) == rd.chainStatus # "joined" /\ CanLockRound(rd)

StartsLocally(rd) == rd.status = "countdown" /\ rd.chainStatus # "locked"

(* Cancelling here is the general route, which leaves the race alone.      *)
LocalStep(x, rd) ==
  \/ \E wallet \in Wallets : ClaimNextSlot(x, rd, wallet)
  \/ LocksLocally(rd) /\ Update(x, WithStatus(rd, "locked"))
  \/ rd.status = "locked" /\ Update(x, WithStatus(rd, "countdown"))
  \/ StartsLocally(rd) /\ Update(x, WithStatus(rd, "racing"))
  \/ \E w \in Slot : rd.status = "racing" /\ Update(x, finishRound(rd, w))
  \/ \E w \in Slot : CanChooseWinner(rd, w) /\ Update(x, chooseWinner(rd, w))
  \/ CanCancelRound(rd) /\ Update(x, WithStatus(rd, "canceled"))
-----------------------------------------------------------------------------
(* The calls a request for a round may begin.                              *)

NewCall(op, x, race) ==
  [op |-> op, phase |-> "asked", round |-> x, race |-> race,
   slot |-> Challenger, wallet |-> NoWallet, winner |-> NoWinner]

Opening(x) == [NewCall("open", x, NoRace) EXCEPT !.phase = "reading"]

Confirming(x, rd, s, w) ==
  [NewCall("confirm", x, rd.chainRaceId) EXCEPT !.phase = "reading", !.slot = s, !.wallet = w]

(* settle: finishRace first, unless that is done. *)
SettleCall(x, rd) ==
  IF rd.chainStatus = "started"
  THEN [NewCall("finish", x, rd.chainRaceId) EXCEPT !.winner = rd.winner]
  ELSE NewCall("settle", x, rd.chainRaceId)

Request(c, x) ==
  LET rd == round[x]
      Sends(op) == Place(c, NewCall(op, x, rd.chainRaceId))
  IN /\ Known(x)
     /\ calls[c] = Idle
     /\ \/ rd.chainRaceId = NoRace /\ Place(c, Opening(x))
        \/ /\ rd.chainRaceId # NoRace
           /\ \/ \E s \in Slot, w \in Wallets : Place(c, Confirming(x, rd, s, w))
              \/ rd.status \in {"ready", "locked"} /\ rd.chainStatus = "joined" /\ Sends("lock")
              \/ rd.status = "countdown" /\ rd.chainStatus = "locked" /\ Sends("start")
              \/ /\ rd.status \in {"finished", "settled"}
                 /\ rd.chainStatus \in {"started", "finished", "settled"}
                 /\ Place(c, SettleCall(x, rd))
              \/ rd.chainStatus \notin {"canceled", "settled"} /\ Sends("cancel")
     /\ UNCHANGED <<round, unmined, chainVars>>

(* A new round has two free slots, and may be opened by the same request.  *)
Create(x) ==
  /\ ~Known(x)
  /\ Save(x, createRound(NoWallet))
  /\ \/ UNCHANGED calls
     \/ \E c \in CallIds : calls[c] = Idle /\ Place(c, Opening(x))
  /\ UNCHANGED <<unmined, chainVars>>
-----------------------------------------------------------------------------
(* The chain.                                                              *)

ReadNextRaceId(c) ==
  /\ calls[c] # Idle /\ calls[c].phase = "reading" /\ calls[c].op = "open"
  /\ nextRaceId < MaxRaces
  /\ Place(c, [calls[c] EXCEPT !.phase = "asked", !.race = nextRaceId])
  /\ UNCHANGED <<round, unmined, chainVars>>

ReadsAnySlot(call) == \E s \in Slot : entrant[call.race][s] = call.wallet

(* verifyJoinTransaction: the wallet entered the race in this slot. *)
JoinFound(call) == entrant[call.race][call.slot] = call.wallet

ReadJoin(c) ==
  /\ calls[c] # Idle /\ calls[c].phase = "reading" /\ calls[c].op = "confirm"
  /\ JoinFound(calls[c])
  /\ Place(c, [calls[c] EXCEPT !.phase = "done", !.wallet = NoWallet])
  /\ UNCHANGED <<round, unmined, chainVars>>

(* The transaction would succeed as things stand. *)
WouldSucceed(tx) ==
  CASE tx.op = "open" -> nextRaceId < MaxRaces
    [] tx.op = "lock" -> raceStatus[tx.race] = "Joined"
    [] tx.op = "start" -> raceStatus[tx.race] = "Locked"
    [] tx.op = "finish" -> raceStatus[tx.race] = "Started"
    [] tx.op = "settle" -> raceStatus[tx.race] = "Finished"
    [] tx.op = "cancel" -> raceStatus[tx.race] \notin {"None", "Finished", "Settled", "Canceled"}

SendTransaction(c) ==
  /\ calls[c] # Idle /\ calls[c].phase = "asked"
  /\ Len(unmined) < MaxPending
  /\ WouldSucceed(calls[c])
  /\ unmined' = Append(unmined, [op |-> calls[c].op, race |-> calls[c].race,
                                 winner |-> calls[c].winner, by |-> c])
  /\ Place(c, [calls[c] EXCEPT !.phase = "sent"])
  /\ UNCHANGED <<round, chainVars>>

Transaction(tx) ==
  \/ tx.op = "open" /\ Chain!OpenRace
  \/ tx.op = "lock" /\ Chain!Lock(tx.race)
  \/ tx.op = "start" /\ Chain!Start(tx.race)
  \/ tx.op = "finish" /\ Chain!Finish(tx.race, tx.winner)
  \/ tx.op = "settle" /\ Chain!Settle(tx.race)
  \/ tx.op = "cancel" /\ Chain!Cancel(tx.race)

(* The next transaction is mined, perhaps as one that reverts; a handler   *)
(* that still waits goes on either way.                                    *)
Mine ==
  LET tx == Head(unmined)
  IN /\ unmined # <<>>
     /\ \/ Transaction(tx)
        \/ ~WouldSucceed(tx) /\ UNCHANGED chainVars
     /\ unmined' = Tail(unmined)
     /\ calls' = [c \in CallIds |->
                    IF c = tx.by THEN [calls[c] EXCEPT !.phase = "done"] ELSE calls[c]]
     /\ UNCHANGED round

(* A handler gives up before it has sent anything, because the estimate or *)
(* a read failed or the driver's transaction is not what it should be.     *)
Reject(c) ==
  /\ calls[c] # Idle /\ calls[c].phase \in {"reading", "asked"}
  /\ Place(c, Idle)
  /\ UNCHANGED <<round, unmined, chainVars>>

(* A wait gives up, or the sidecar stops, with the transaction unmined.    *)
GiveUp(c) ==
  /\ calls[c] # Idle /\ calls[c].phase \in {"sent", "done"}
  /\ Place(c, Idle)
  /\ unmined' = [i \in DOMAIN unmined |->
                   IF unmined[i].by = c THEN [unmined[i] EXCEPT !.by = Idle] ELSE unmined[i]]
  /\ UNCHANGED <<round, chainVars>>

(* Anybody may enter a race; drivers learn of it from its round. *)
DriverJoins ==
  /\ \E x \in RoundIds, s \in Slot, w \in Wallets :
       Known(x) /\ round[x].chainRaceId # NoRace /\ Chain!Join(round[x].chainRaceId, s, w)
  /\ UNCHANGED <<round, calls, unmined>>
-----------------------------------------------------------------------------
(* The handler resumes, with the round as it is by now.                    *)

markNativeChainJoined(rd, s) ==
  LET drivers == [rd.drivers EXCEPT ![s] =
                    [@ EXCEPT !.chainJoined = TRUE, !.stakeAuthorized = TRUE,
                              !.feePaid = TRUE, !.feePayment = "other"]]
  IN updateReady([rd EXCEPT !.drivers = drivers, !.chainStatus = StatusAfterJoin(drivers)])

Marks == [lock |-> "locked", start |-> "started", finish |-> "finished",
          settle |-> "settled", cancel |-> "canceled"]

Accepts(call, rd) ==
  CASE call.op = "open" -> CanAttachChainRace(rd, call.race)
    [] call.op = "confirm" -> Joinable(rd)
    [] OTHER -> CanMarkChain(rd, Marks[call.op])

(* lock and start go on to the local step where the round still allows it. *)
Marked(call, rd) ==
  LET marked == IF call.op \in DOMAIN Marks THEN markChain(rd, Marks[call.op]) ELSE rd
  IN CASE call.op = "open" -> attachChainRace(rd, call.race)
       [] call.op = "confirm" -> markNativeChainJoined(rd, call.slot)
       [] call.op = "lock" /\ rd.status = "ready" -> WithStatus(marked, "locked")
       [] call.op = "start" /\ rd.status = "countdown" -> WithStatus(marked, "racing")
       [] OTHER -> marked

Resume(c) ==
  LET call == calls[c]
      x == call.round
      marked == Marked(call, round[x])
  IN /\ call # Idle /\ call.phase = "done"
     /\ IF Accepts(call, round[x])
        THEN Save(x, marked) /\ Place(c, IF call.op = "finish" THEN SettleCall(x, marked) ELSE Idle)
        ELSE Place(c, Idle) /\ UNCHANGED round
     /\ UNCHANGED <<unmined, chainVars>>
-----------------------------------------------------------------------------
CallStep(c) ==
  \/ \E x \in RoundIds : Request(c, x)
  \/ ReadNextRaceId(c) \/ ReadJoin(c)
  \/ SendTransaction(c) \/ Reject(c) \/ GiveUp(c)
  \/ Resume(c)

NativeNext ==
  \/ \E x \in RoundIds : Create(x)
  \/ \E x \in RoundIds : Known(x) /\ LocalStep(x, round[x])
  \/ \E c \in CallIds : CallStep(c)
  \/ Mine
  \/ DriverJoins

NativeSpec == NativeInit /\ [][NativeNext]_nativeVars
-----------------------------------------------------------------------------
(* Properties.                                                             *)

(* Every variable keeps its type. *)
NativeTypeOK ==
  /\ round \in [RoundIds -> Round \cup {NoRound}]
  /\ calls \in [CallIds -> Call \cup {Idle}]
  /\ unmined \in Seq(Sent) /\ Len(unmined) <= MaxPending
  /\ raceStatus \in [RaceId -> RaceStatus]
  /\ entrant \in [RaceId -> [Slot -> Wallets \cup {NoWallet}]]
  /\ winnerSlot \in [RaceId -> Slot]
  /\ nextRaceId \in 0..MaxRaces

Attached(x) == Known(x) /\ round[x].chainRaceId # NoRace

RaceOf(x) == raceStatus[round[x].chainRaceId]

Order == <<"Created", "Joined", "Locked", "Started", "Finished", "Settled">>

Said == [opened |-> 1, joined |-> 2, locked |-> 3, started |-> 4, finished |-> 5, settled |-> 6]

(* Although receipts are not looked at (wait), a round never says more of  *)
(* its race than is true, unless one of the two has been cancelled; and a  *)
(* race that has a result has that of its round (the settle route).        *)
BehindUnlessCancelled ==
  \A x \in RoundIds : Attached(x) =>
    \/ round[x].chainStatus = "canceled"
    \/ RaceOf(x) = "Canceled"
    \/ /\ \E i \in Said[round[x].chainStatus]..6 : RaceOf(x) = Order[i]
       /\ RaceOf(x) \in {"Finished", "Settled"} =>
            round[x].winner = winnerSlot[round[x].chainRaceId]

(* A driver the sidecar has down as joined has a stake in that slot of the *)
(* round's race, whichever requests to confirm and to open were under way  *)
(* at the time (confirm-join, attachChainRace).                            *)
ConfirmedIsStaked ==
  \A x \in RoundIds, s \in Slot : Known(x) /\ round[x].drivers[s].chainJoined =>
    Attached(x) /\ entrant[round[x].chainRaceId][s] # NoWallet

(* A round that has been locked and not cancelled has both stakes locked   *)
(* on chain, even if a late answer to opening the race has reset its       *)
(* chainStatus (lockRoundLocal, attachChainRace), or the race is cancelled.*)
LockedRoundsAreStaked ==
  \A x \in RoundIds : Known(x) /\ round[x].status \in {"locked", "countdown", "racing"} =>
    /\ Attached(x)
    /\ RaceOf(x) \notin {"None", "Created", "Joined"}
    /\ \A s \in Slot : entrant[round[x].chainRaceId][s] # NoWallet
=============================================================================
