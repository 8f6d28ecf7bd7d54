----------------------------- MODULE RaceEscrow -----------------------------
(***************************************************************************)
(* The ERC-20 two-driver race escrow, chain/contracts/RaceEscrow.sol.      *)
(*                                                                         *)
(* One action per external function.  A transaction is atomic, so each     *)
(* action is a whole call; a call that reverts changes nothing and is no   *)
(* step.  The fields of the contract's `races` mapping are one function    *)
(* per field, indexed by race id; the two slots (0 the challenger, 1 the   *)
(* opponent) index `entrant` and `joined`.  Timestamps, localRoundId and   *)
(* the proof hash are left out: no guard reads them.                       *)
(*                                                                         *)
(* Off-chain the drivers sign entry authorizations (EIP-712, over their    *)
(* current nonce) and give the escrow an allowance by ERC20 approve or by  *)
(* a signed permit.  The facilitator submits them.  The token is modelled  *)
(* from how the escrow uses it.                                            *)
(*                                                                         *)
(* NonceKept, SlotOpenToAnyone, StatusAfterAnyJoin, FeesOverwritten,       *)
(* WinnerAtMost2, PayoutWithFees, CancelableFinished and CancelableSettled *)
(* are plausible wrong forms of the definitions below them, for checking   *)
(* that the properties notice.                                             *)
(***************************************************************************)
EXTENDS Integers, FiniteSets, FiniteSetsExt

CONSTANTS
  Drivers,      \* accounts that may stake
  NoDriver,     \* address(0)
  Treasuries,   \* accounts the operator may name as treasury
  Escrow,       \* the contract's own account
  Keys,         \* addresses that may call the contract
  Operator,     \* the immutable operator key
  Stakes,       \* stake amounts that may be asked for
  Fees,         \* fee amounts that may be asked for
  Funds,        \* what each driver owns at first
  Grants,       \* bound: the amounts a driver may approve or permit
  MaxRaces,     \* bound: races that can be opened
  MaxSigned,    \* bound: entry authorizations that can be signed
  MaxTime       \* bound: ticks of the clock, hence latest deadline

ASSUME AccountsAssumption ==
  /\ NoDriver \notin Drivers
  /\ Drivers \cap Treasuries = {}
  /\ Escrow \notin Drivers \cup Treasuries
  /\ Treasuries # {} /\ IsFiniteSet(Treasuries)
  /\ Operator \in Keys

ASSUME AmountsAssumption ==
  /\ Stakes \subseteq Nat
  /\ Fees \subseteq Nat
  /\ Funds \in Nat
  /\ Grants \subseteq Nat
  /\ MaxRaces \in Nat \ {0}
  /\ MaxSigned \in Nat
  /\ MaxTime \in Nat

VARIABLES
  status, entrant, joined, stakeAmount, feeAmount, feesCollected, winnerSlot,
  nextRaceId, totalFeesCollected, nonces, treasury, facilitator,
  balances, allowance, permits,    \* the token: allowance is the escrow's
  signed,                          \* every entry authorization ever signed
  now                              \* block.timestamp

raceVars == <<status, entrant, joined, stakeAmount, feeAmount, feesCollected, winnerSlot>>
roleVars == <<treasury, facilitator>>
tokenVars == <<balances, allowance, permits>>
offChainVars == <<signed, now>>
vars == <<status, entrant, joined, stakeAmount, feeAmount, feesCollected, winnerSlot,
          nextRaceId, totalFeesCollected, nonces, treasury, facilitator,
          balances, allowance, permits, signed, now>>

Slot == 0..1
RaceId == 0..(MaxRaces - 1)
Status == {"None", "Created", "Joined", "Locked", "Started", "Finished", "Settled", "Canceled"}
Account == Drivers \cup Treasuries \cup {Escrow}

(* A driver's signature over RACE_ENTRY_TYPEHASH. *)
Entry == [race: RaceId, driver: Drivers, slot: Slot, stakeAmount: Stakes,
          feeAmount: Fees, nonce: Nat, deadline: 0..MaxTime]

Init ==
  /\ status = [r \in RaceId |-> "None"]
  /\ entrant = [r \in RaceId |-> [s \in Slot |-> NoDriver]]
  /\ joined = [r \in RaceId |-> [s \in Slot |-> FALSE]]
  /\ stakeAmount = [r \in RaceId |-> 0]
  /\ feeAmount = [r \in RaceId |-> 0]
  /\ feesCollected = [r \in RaceId |-> 0]
  /\ winnerSlot = [r \in RaceId |-> 0]
  /\ nextRaceId = 0
  /\ totalFeesCollected = 0
  /\ nonces = [d \in Drivers |-> 0]
  /\ treasury \in Treasuries
  /\ facilitator \in Keys
  /\ balances = [a \in Account |-> IF a \in Drivers THEN Funds ELSE 0]
  /\ allowance = [d \in Drivers |-> 0]
  /\ permits = [d \in Drivers |-> {}]
  /\ signed = {}
  /\ now = 0
-----------------------------------------------------------------------------
(* The token, and what drivers do off chain.                               *)

Transferred(bal, from, to, amount) ==
  [bal EXCEPT ![from] = @ - amount, ![to] = @ + amount]

Approve(d, amount) ==
  /\ allowance' = [allowance EXCEPT ![d] = amount]
  /\ UNCHANGED <<raceVars, nextRaceId, totalFeesCollected, nonces, roleVars, balances,
                 permits, offChainVars>>

SignPermit(d, amount) ==
  /\ permits' = [permits EXCEPT ![d] = @ \cup {amount}]
  /\ UNCHANGED <<raceVars, nextRaceId, totalFeesCollected, nonces, roleVars, balances,
                 allowance, offChainVars>>

(* The client reads nonces[driver] and signs over it. *)
SignEntry(entry) ==
  /\ Cardinality(signed) < MaxSigned
  /\ entry.nonce = nonces[entry.driver]
  /\ signed' = signed \cup {entry}
  /\ UNCHANGED <<raceVars, nextRaceId, totalFeesCollected, nonces, roleVars, tokenVars, now>>

Tick ==
  /\ now < MaxTime
  /\ now' = now + 1
  /\ UNCHANGED <<raceVars, nextRaceId, totalFeesCollected, nonces, roleVars, tokenVars, signed>>
-----------------------------------------------------------------------------
(* The contract.                                                           *)

OpenRace(sender, stake, fee) ==
  /\ sender = facilitator
  /\ stake > 0
  /\ nextRaceId < MaxRaces
  /\ nextRaceId' = nextRaceId + 1
  /\ status' = [status EXCEPT ![nextRaceId] = "Created"]
  /\ stakeAmount' = [stakeAmount EXCEPT ![nextRaceId] = stake]
  /\ feeAmount' = [feeAmount EXCEPT ![nextRaceId] = fee]
  /\ UNCHANGED <<entrant, joined, feesCollected, winnerSlot, totalFeesCollected, nonces,
                 roleVars, tokenVars, offChainVars>>

(* The signature recovers to the driver over the race's own amounts and    *)
(* over the driver's current nonce.                                        *)
EntryAuthorized(entry) ==
  /\ entry \in signed
  /\ now <= entry.deadline
  /\ entry.stakeAmount = stakeAmount[entry.race]
  /\ entry.feeAmount = feeAmount[entry.race]
  /\ entry.nonce = nonces[entry.driver]

NonceKept(d) == nonces
NonceUsed(d) == [nonces EXCEPT ![d] = @ + 1]

SlotOpenToAnyone(r, s, d) == s = 1 => d # entrant[r][0]

(* Slot 1 rejects the driver already in slot 0; slot 0 has no such test.   *)
SlotOpenTo(r, s, d) ==
  /\ ~joined[r][s]
  /\ s = 1 => d # entrant[r][0]

StatusAfterAnyJoin(r, s) == "Joined"
StatusAfterJoin(r, s) == IF joined[r][1 - s] THEN "Joined" ELSE status[r]

FeesOverwritten(r, fee) == [feesCollected EXCEPT ![r] = fee]
FeesAdded(r, fee) == [feesCollected EXCEPT ![r] = @ + fee]

(* _joinWithAuthorization, with `granted` the allowance when it runs.  Both *)
(* transferFrom calls must succeed.                                         *)
JoinEntry(sender, entry, granted) ==
  LET r == entry.race
      s == entry.slot
      d == entry.driver
      cost == entry.stakeAmount + entry.feeAmount
  IN /\ sender = facilitator
     /\ status[r] \in {"Created", "Joined"}
     /\ EntryAuthorized(entry)
     /\ SlotOpenTo(r, s, d)
     /\ granted >= cost
     /\ balances[d] >= cost
     /\ nonces' = NonceUsed(d)
     /\ entrant' = [entrant EXCEPT ![r][s] = d]
     /\ joined' = [joined EXCEPT ![r][s] = TRUE]
     /\ balances' = Transferred(Transferred(balances, d, Escrow, entry.stakeAmount),
                                d, treasury, entry.feeAmount)
     /\ allowance' = [allowance EXCEPT ![d] = granted - cost]
     /\ feesCollected' = FeesAdded(r, entry.feeAmount)
     /\ totalFeesCollected' = totalFeesCollected + entry.feeAmount
     /\ status' = [status EXCEPT ![r] = StatusAfterJoin(r, s)]
     /\ UNCHANGED <<stakeAmount, feeAmount, winnerSlot, nextRaceId, roleVars, offChainVars>>

JoinWithAuthorization(sender, entry) ==
  /\ JoinEntry(sender, entry, allowance[entry.driver])
  /\ UNCHANGED permits

(* The permit replaces the allowance and uses up the driver's token nonce, *)
(* so every other outstanding permit dies with it.                         *)
JoinWithAuthorizationAndPermit(sender, entry) ==
  LET cost == entry.stakeAmount + entry.feeAmount
  IN /\ cost \in permits[entry.driver]
     /\ JoinEntry(sender, entry, cost)
     /\ permits' = [permits EXCEPT ![entry.driver] = {}]

LockRace(sender, r) ==
  /\ sender = facilitator
  /\ status[r] = "Joined"
  /\ \A s \in Slot : joined[r][s]
  /\ status' = [status EXCEPT ![r] = "Locked"]
  /\ UNCHANGED <<entrant, joined, stakeAmount, feeAmount, feesCollected, winnerSlot, nextRaceId,
                 totalFeesCollected, nonces, roleVars, tokenVars, offChainVars>>

StartRace(sender, r) ==
  /\ sender = facilitator
  /\ status[r] = "Locked"
  /\ status' = [status EXCEPT ![r] = "Started"]
  /\ UNCHANGED <<entrant, joined, stakeAmount, feeAmount, feesCollected, winnerSlot, nextRaceId,
                 totalFeesCollected, nonces, roleVars, tokenVars, offChainVars>>

WinnerAtMost2(winner) == winner <= 2
WinnerSlotValid(winner) == winner <= 1

FinishRace(sender, r, winner) ==
  /\ sender = facilitator
  /\ status[r] = "Started"
  /\ WinnerSlotValid(winner)
  /\ status' = [status EXCEPT ![r] = "Finished"]
  /\ winnerSlot' = [winnerSlot EXCEPT ![r] = winner]
  /\ UNCHANGED <<entrant, joined, stakeAmount, feeAmount, feesCollected, nextRaceId,
                 totalFeesCollected, nonces, roleVars, tokenVars, offChainVars>>

PayoutWithFees(r) == 2 * (stakeAmount[r] + feeAmount[r])
Payout(r) == 2 * stakeAmount[r]

SettleRace(sender, r) ==
  LET winner == entrant[r][winnerSlot[r]]
      payout == Payout(r)
  IN /\ sender = facilitator
     /\ status[r] = "Finished"
     /\ balances[Escrow] >= payout
     /\ status' = [status EXCEPT ![r] = "Settled"]
     /\ balances' = Transferred(balances, Escrow, winner, payout)
     /\ UNCHANGED <<entrant, joined, stakeAmount, feeAmount, feesCollected, winnerSlot, nextRaceId,
                    totalFeesCollected, nonces, roleVars, allowance, permits, offChainVars>>

(* What cancelRace sends back to the driver in slot s. *)
RefundDue(r, s) == IF joined[r][s] THEN stakeAmount[r] ELSE 0

Refunded(bal, r, s) ==
  IF joined[r][s] THEN Transferred(bal, Escrow, entrant[r][s], RefundDue(r, s)) ELSE bal

CancelableFinished(r) == status[r] \notin {"None", "Settled", "Canceled"}
CancelableSettled(r) == status[r] \notin {"None", "Finished", "Canceled"}
Cancelable(r) == status[r] \notin {"None", "Finished", "Settled", "Canceled"}

CancelRace(sender, r) ==
  /\ sender = facilitator
  /\ Cancelable(r)
  /\ balances[Escrow] >= RefundDue(r, 0) + RefundDue(r, 1)
  /\ status' = [status EXCEPT ![r] = "Canceled"]
  /\ balances' = Refunded(Refunded(balances, r, 0), r, 1)
  /\ UNCHANGED <<entrant, joined, stakeAmount, feeAmount, feesCollected, winnerSlot, nextRaceId,
                 totalFeesCollected, nonces, roleVars, allowance, permits, offChainVars>>

SetFacilitator(sender, key) ==
  /\ sender = Operator
  /\ facilitator' = key
  /\ UNCHANGED <<raceVars, nextRaceId, totalFeesCollected, nonces, treasury, tokenVars, offChainVars>>

SetTreasury(sender, account) ==
  /\ sender = Operator
  /\ treasury' = account
  /\ UNCHANGED <<raceVars, nextRaceId, totalFeesCollected, nonces, facilitator, tokenVars, offChainVars>>
-----------------------------------------------------------------------------
DriverStep ==
  \/ \E d \in Drivers, amount \in Grants : Approve(d, amount)
  \/ \E d \in Drivers, amount \in Grants : SignPermit(d, amount)
  \/ \E r \in RaceId, d \in Drivers, s \in Slot, stake \in Stakes, fee \in Fees, t \in 0..MaxTime :
       SignEntry([race |-> r, driver |-> d, slot |-> s, stakeAmount |-> stake,
                  feeAmount |-> fee, nonce |-> nonces[d], deadline |-> t])

ContractCall(sender) ==
  \/ \E stake \in Stakes \cup {0}, fee \in Fees : OpenRace(sender, stake, fee)
  \/ \E entry \in signed : JoinWithAuthorization(sender, entry)
  \/ \E entry \in signed : JoinWithAuthorizationAndPermit(sender, entry)
  \/ \E r \in RaceId : LockRace(sender, r)
  \/ \E r \in RaceId : StartRace(sender, r)
  \/ \E r \in RaceId, winner \in 0..2 : FinishRace(sender, r, winner)
  \/ \E r \in RaceId : SettleRace(sender, r)
  \/ \E r \in RaceId : CancelRace(sender, r)
  \/ \E key \in Keys : SetFacilitator(sender, key)
  \/ \E account \in Treasuries : SetTreasury(sender, account)

Next ==
  \/ Tick
  \/ DriverStep
  \/ \E sender \in Keys : ContractCall(sender)

Spec == Init /\ [][Next]_vars
-----------------------------------------------------------------------------
(* Properties.                                                             *)

(* Every variable of the contract, the token and the off-chain signers     *)
(* keeps its type; in particular no balance is ever negative.              *)
TypeOK ==
  /\ status \in [RaceId -> Status]
  /\ entrant \in [RaceId -> [Slot -> Drivers \cup {NoDriver}]]
  /\ joined \in [RaceId -> [Slot -> BOOLEAN]]
  /\ stakeAmount \in [RaceId -> Nat]
  /\ feeAmount \in [RaceId -> Nat]
  /\ feesCollected \in [RaceId -> Nat]
  /\ winnerSlot \in [RaceId -> Slot]
  /\ nextRaceId \in 0..MaxRaces
  /\ totalFeesCollected \in Nat
  /\ nonces \in [Drivers -> Nat]
  /\ treasury \in Treasuries
  /\ facilitator \in Keys
  /\ balances \in [Account -> Nat]
  /\ allowance \in [Drivers -> Nat]
  /\ permits \in [Drivers -> SUBSET Nat]
  /\ signed \subseteq Entry
  /\ now \in 0..MaxTime

Closed(r) == status[r] \in {"None", "Settled", "Canceled"}

(* What the contract still holds for slot s of race r. *)
Held(r, s) == IF Closed(r) THEN 0 ELSE RefundDue(r, s)
Owed(r) == Held(r, 0) + Held(r, 1)

(* The escrow owns exactly the stakes of its unfinished races: a payout or *)
(* a refund of one race is never made with the stakes of another, and no   *)
(* stake is left behind when a race closes (settleRace and cancelRace move *)
(* money out, _joinWithAuthorization moves it in).                         *)
Solvency == balances[Escrow] = MapThenSumSet(Owed, RaceId)

(* The per-race fee counter, the contract's total and the money that has   *)
(* reached the treasuries agree, through treasury changes and cancels.     *)
FeesAccounted ==
  /\ \A r \in RaceId :
       feesCollected[r] = feeAmount[r] * Cardinality({s \in Slot : joined[r][s]})
  /\ totalFeesCollected = MapThenSumSet(LAMBDA r : feesCollected[r], RaceId)
  /\ totalFeesCollected = MapThenSumSet(LAMBDA a : balances[a], Treasuries)

(* Each nonce a driver has used up stands for one entry of that driver, at *)
(* the amounts it signed for: a second signature over the same nonce can   *)
(* never be used, nor one signature twice (nonces in _joinWithAuthorization). *)
EntriesConsented ==
  \A d \in Drivers :
    LET entries == {e \in RaceId \X Slot : joined[e[1]][e[2]] /\ entrant[e[1]][e[2]] = d}
    IN /\ Cardinality(entries) = nonces[d]
       /\ \A e \in entries : \E a \in signed :
            /\ a.driver = d
            /\ <<a.race, a.slot>> = e
            /\ a.stakeAmount = stakeAmount[a.race]
            /\ a.feeAmount = feeAmount[a.race]
            /\ a.nonce < nonces[d]
       /\ \A n \in 0..(nonces[d] - 1) : \E a \in signed :
            a.driver = d /\ a.nonce = n /\ <<a.race, a.slot>> \in entries

(* A race is past Created exactly when both slots are taken, so no race is *)
(* locked, run or paid with a stake missing; a slot has a driver exactly   *)
(* when it is joined (status updates of the join, lockRace's guard).       *)
StakedBeforeRun ==
  \A r \in RaceId :
    /\ \A s \in Slot : joined[r][s] <=> entrant[r][s] \in Drivers
    /\ status[r] \in {"Joined", "Locked", "Started", "Finished", "Settled"}
         => \A s \in Slot : joined[r][s]
    /\ status[r] = "Created" => \E s \in Slot : ~joined[r][s]
    /\ status[r] = "None" => \A s \in Slot : ~joined[r][s]
    /\ status[r] = "None" <=> r >= nextRaceId
    /\ status[r] # "None" => stakeAmount[r] > 0

(* From the moment the race is locked its entrants and amounts are fixed,  *)
(* and once a result is recorded it can only be settled: it is neither     *)
(* overwritten nor cancelled (guards of join, finishRace and cancelRace).  *)
ResultStands ==
  [][\A r \in RaceId :
       /\ status[r] \in {"Locked", "Started", "Finished", "Settled", "Canceled"} =>
            entrant'[r] = entrant[r] /\ stakeAmount'[r] = stakeAmount[r]
       /\ status[r] \in {"Finished", "Settled"} =>
            status'[r] \in {"Finished", "Settled"} /\ winnerSlot'[r] = winnerSlot[r]]_vars

(* Money moves race by race: a step changes what is owed to at most one    *)
(* race and moves the escrow's balance by the same amount.  This is the    *)
(* inductive core of Solvency, in a form that needs no sum.                *)
LedgerStep ==
  \E r \in RaceId :
    /\ \A q \in RaceId \ {r} : Owed(q)' = Owed(q)
    /\ balances'[Escrow] - balances[Escrow] = Owed(r)' - Owed(r)

MoneyMovesByRace == [][LedgerStep]_vars

(* The contract keeps the promise of StakePool: stakes enter once per slot *)
(* and leave once, to one entrant of a full race or back to their owners.  *)
Outcome(r) == CASE status[r] = "Settled" -> "paid"
                [] status[r] = "Canceled" -> "refunded"
                [] OTHER -> "open"

Pool == INSTANCE StakePool WITH
          Races <- RaceId,
          Amounts <- Stakes \cup Fees,
          pool <- [r \in RaceId |-> [s \in Slot |-> Held(r, s)]],
          outcome <- [r \in RaceId |-> Outcome(r)],
          purse <- [d \in Drivers |-> balances[d]],
          vault <- balances[Escrow]

ImplementsStakePool == Pool!Spec

(* To whoever sees only statuses, entrants and winners the contract is the *)
(* RaceLedger the sidecar is built on.                                     *)
Ledger == INSTANCE RaceLedger

ImplementsRaceLedger == Ledger!Spec
=============================================================================
