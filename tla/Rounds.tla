------------------------------- MODULE Rounds -------------------------------
(***************************************************************************)
(* The state machine of one race round, sidecar/src/rounds.ts.             *)
(*                                                                         *)
(* A round is a record; each exported function of rounds.ts is an operator *)
(* from round to round that keeps the function's name, and CanX is the     *)
(* conjunction of the conditions under which X does not throw.  Saving the *)
(* round to disk is the caller's (RaceRoom).  Slots are 0, the challenger, *)
(* and 1, the opponent, as slotToIndex maps them.  Display names, robots,  *)
(* lanes, calibration, timestamps, proofs and transaction hashes are left  *)
(* out, and a driver who is missing is one whose wallet is NoWallet.       *)
(*                                                                         *)
(* CanClaimSlotOverwriting, chooseWinnerReopening, CanAttachAnyRace,       *)
(* StatusAfterAnyJoin and CanCancelUnsettled are plausible wrong forms of  *)
(* the definitions below them, for checking that the properties notice.    *)
(***************************************************************************)
EXTENDS Naturals

CONSTANTS
  Wallets,   \* driver wallets
  NoWallet,  \* no wallet claimed
  Races,     \* chain race ids
  NoRace,    \* round.chainRaceId unset
  NoWinner   \* round.winner unset

Challenger == 0
Opponent == 1
Slot == {Challenger, Opponent}

RoundStatus == {"challenge", "accepted", "ready", "locked", "countdown", "racing",
                "finished", "settled", "canceled"}
ChainStatus == {"not-opened", "opened", "joined", "locked", "started", "finished",
                "settled", "canceled"}

(* feePayment: none recorded, an x402 receipt that is paid or is not, or   *)
(* any other source.                                                       *)
FeePayment == {"none", "x402", "x402-unpaid", "other"}

Driver == [wallet : Wallets \cup {NoWallet}, feePaid : BOOLEAN, feePayment : FeePayment,
           stakeAuthorized : BOOLEAN, chainJoined : BOOLEAN]

Round == [status : RoundStatus, chainStatus : ChainStatus, chainRaceId : Races \cup {NoRace},
          winner : Slot \cup {NoWinner}, drivers : [Slot -> Driver]]

NewDriver(wallet) ==
  [wallet |-> wallet, feePaid |-> FALSE, feePayment |-> "none",
   stakeAuthorized |-> FALSE, chainJoined |-> FALSE]

(* Without a wallet the round is at once "accepted", with both slots free. *)
createRound(wallet) ==
  [status |-> IF wallet = NoWallet THEN "accepted" ELSE "challenge",
   chainStatus |-> "not-opened",
   chainRaceId |-> NoRace,
   winner |-> NoWinner,
   drivers |-> [s \in Slot |-> NewDriver(IF s = Challenger THEN wallet ELSE NoWallet)]]

CanAcceptRound(rd, wallet) ==
  /\ rd.status = "challenge"
  /\ wallet # rd.drivers[Challenger].wallet

acceptRound(rd, wallet) ==
  [rd EXCEPT !.status = "accepted", !.drivers[Opponent] = NewDriver(wallet)]

CanClaimSlotOverwriting(rd, s, wallet) ==
  /\ rd.status \in {"challenge", "accepted", "ready"}
  /\ ~rd.drivers[s].chainJoined
  /\ rd.drivers[1 - s].wallet # wallet

CanClaimSlot(rd, s, wallet) ==
  /\ rd.status \in {"challenge", "accepted", "ready"}
  /\ ~rd.drivers[s].chainJoined
  /\ rd.drivers[s].wallet \in {NoWallet, wallet}
  /\ rd.drivers[1 - s].wallet # wallet

claimSlot(rd, s, wallet) ==
  [rd EXCEPT !.drivers[s].wallet = wallet,
             !.status = IF @ = "challenge" /\ rd.drivers[1 - s].wallet # NoWallet
                        THEN "accepted" ELSE @]

Joinable(rd) == rd.status \in {"accepted", "ready"}

(* A round becomes ready when both drivers have paid and authorized. *)
updateReady(rd) ==
  IF Joinable(rd) /\ \A s \in Slot : rd.drivers[s].feePaid /\ rd.drivers[s].stakeAuthorized
  THEN [rd EXCEPT !.status = "ready"] ELSE rd

(* feePaid is set whatever the status of the payment. *)
markFeePaid(rd, s, payment) ==
  updateReady([rd EXCEPT !.drivers[s].feePaid = TRUE, !.drivers[s].feePayment = payment])

authorizeStake(rd, s) == updateReady([rd EXCEPT !.drivers[s].stakeAuthorized = TRUE])

CanLockRound(rd) ==
  /\ rd.status = "ready"
  /\ rd.chainRaceId # NoRace => rd.chainStatus = "locked"

WithStatus(rd, status) == [rd EXCEPT !.status = status]

finishRound(rd, winner) == [rd EXCEPT !.status = "finished", !.winner = winner]

WinnerOpen(rd, winner) == rd.winner \in {NoWinner, winner}

(* A settled or finished round accepts only its own winner again. *)
CanChooseWinner(rd, winner) ==
  /\ WinnerOpen(rd, winner)
  /\ rd.status \notin {"challenge", "canceled"}

chooseWinnerReopening(rd, winner) ==
  IF rd.status = "finished" THEN rd
  ELSE [rd EXCEPT !.status = "finished", !.winner = winner]

chooseWinner(rd, winner) ==
  IF rd.status \in {"finished", "settled"} THEN rd
  ELSE [rd EXCEPT !.status = "finished", !.winner = winner]

CanAttachAnyRace(rd, race) == TRUE

CanAttachChainRace(rd, race) == rd.chainRaceId \in {NoRace, race}

attachChainRace(rd, race) == [rd EXCEPT !.chainRaceId = race, !.chainStatus = "opened"]

StatusAfterAnyJoin(drivers) == "joined"

StatusAfterJoin(drivers) ==
  IF \A s \in Slot : drivers[s].chainJoined THEN "joined" ELSE "opened"

(* An x402 receipt decides whether the fee is paid, otherwise the join     *)
(* itself paid it.  There is no test of the round's status.                *)
markChainJoined(rd, s) ==
  LET was == rd.drivers[s]
      x402 == was.feePayment \in {"x402", "x402-unpaid"}
      driver == [was EXCEPT !.chainJoined = TRUE,
                            !.stakeAuthorized = TRUE,
                            !.feePaid = x402 => was.feePayment = "x402",
                            !.feePayment = IF x402 THEN @ ELSE "other"]
      drivers == [rd.drivers EXCEPT ![s] = driver]
  IN updateReady([rd EXCEPT !.drivers = drivers, !.chainStatus = StatusAfterJoin(drivers)])

(* markChainLocked, markChainStarted and markChainFinished each require    *)
(* the chain status just before; markChainSettled reads the local status.  *)
CanMarkChain(rd, chainStatus) ==
  CASE chainStatus = "locked" -> rd.chainStatus = "joined"
    [] chainStatus = "started" -> rd.chainStatus = "locked"
    [] chainStatus = "finished" -> rd.chainStatus = "started"
    [] chainStatus = "settled" -> rd.status \in {"finished", "settled"}
    [] OTHER -> TRUE

markChain(rd, chainStatus) ==
  [rd EXCEPT !.chainStatus = chainStatus,
             !.status = IF chainStatus \in {"settled", "canceled"} THEN chainStatus ELSE @]

CanCancelUnsettled(rd) == rd.status \notin {"settled", "canceled"}

CanCancelRound(rd) == rd.status \notin {"finished", "settled", "canceled"}

(* operatorSettlementPreflight, in index.ts: no blocker for this winner.   *)
CanSettle(rd, winner) ==
  /\ \A s \in Slot :
       LET d == rd.drivers[s]
       IN d.wallet # NoWallet /\ d.feePaid /\ d.feePayment = "x402"
            /\ d.stakeAuthorized /\ d.chainJoined
  /\ WinnerOpen(rd, winner)
  /\ rd.chainRaceId # NoRace
  /\ rd.status \in {"racing", "finished", "settled"}
  /\ rd.chainStatus \in {"started", "finished", "settled"}
=============================================================================
