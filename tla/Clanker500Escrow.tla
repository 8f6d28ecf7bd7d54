-------------------------- MODULE Clanker500Escrow --------------------------
(***************************************************************************)
(* The native-coin race escrow, chain/contracts/Clanker500Escrow.sol.  A   *)
(* driver joins by calling the contract and sending the stake; there are   *)
(* no fees and no signatures.  One action per external function, a call    *)
(* that reverts being no step.                                             *)
(*                                                                         *)
(* A payout is a call to the driver's account, which may refuse it: then   *)
(* the whole transaction reverts.  joinRace, settleRace and cancelRace are *)
(* nonReentrant, so an account that is being paid cannot come back to the  *)
(* ones that move money, and each action is atomic.                        *)
(*                                                                         *)
(* OnlyOpponentCompared, StatusAfterAnyJoin and SinglePayout are plausible *)
(* wrong forms of the definitions below them.                              *)
(***************************************************************************)
EXTENDS Integers

CONSTANTS
  Drivers,     \* accounts that may stake
  NoDriver,    \* address(0)
  Escrow,      \* the contract's own account
  Keys,        \* addresses that may be facilitator or operator
  Stakes,      \* stake amounts that may be asked for
  Funds,       \* what each driver owns at first
  MaxRaces     \* bound: races that can be opened

ASSUME NativeAssumption ==
  /\ NoDriver \notin Drivers
  /\ Escrow \notin Drivers
  /\ Stakes \subseteq Nat
  /\ Funds \in Nat
  /\ MaxRaces \in Nat \ {0}

VARIABLES
  status, entrant, joined, stakeWei, winnerSlot, nextRaceId,
  operator, facilitator,
  balances,    \* native coin of the drivers and the escrow
  refusing     \* drivers whose account does not accept payments at the moment

raceVars == <<status, entrant, joined, stakeWei, winnerSlot, nextRaceId>>
roleVars == <<operator, facilitator>>
vars == <<status, entrant, joined, stakeWei, winnerSlot, nextRaceId,
          operator, facilitator, balances, refusing>>

Slot == 0..1
RaceId == 0..(MaxRaces - 1)
Status == {"None", "Created", "Joined", "Locked", "Started", "Finished", "Settled", "Canceled"}
Account == Drivers \cup {Escrow}

Init ==
  /\ status = [r \in RaceId |-> "None"]
  /\ entrant = [r \in RaceId |-> [s \in Slot |-> NoDriver]]
  /\ joined = [r \in RaceId |-> [s \in Slot |-> FALSE]]
  /\ stakeWei = [r \in RaceId |-> 0]
  /\ winnerSlot = [r \in RaceId |-> 0]
  /\ nextRaceId = 0
  /\ operator \in Keys
  /\ facilitator \in Keys
  /\ balances = [a \in Account |-> IF a = Escrow THEN 0 ELSE Funds]
  /\ refusing = {}

openRace(sender, stake) ==
  /\ sender = facilitator
  /\ stake > 0
  /\ nextRaceId < MaxRaces
  /\ nextRaceId' = nextRaceId + 1
  /\ status' = [status EXCEPT ![nextRaceId] = "Created"]
  /\ stakeWei' = [stakeWei EXCEPT ![nextRaceId] = stake]
  /\ UNCHANGED <<entrant, joined, winnerSlot, roleVars, balances, refusing>>

OnlyOpponentCompared(r, s, d) ==
  /\ ~joined[r][s]
  /\ s = 1 => entrant[r][0] # d

(* Both slots reject the driver of the other one. *)
SlotOpenTo(r, s, d) ==
  /\ ~joined[r][s]
  /\ entrant[r][1 - s] # d

StatusAfterAnyJoin(r, s) == "Joined"
StatusAfterJoin(r, s) == IF joined[r][1 - s] THEN "Joined" ELSE status[r]

Paid(bal, from, to, amount) == [bal EXCEPT ![from] = @ - amount, ![to] = @ + amount]

joinRace(d, r, s, value) ==
  /\ status[r] \in {"Created", "Joined"}
  /\ value = stakeWei[r]
  /\ value <= balances[d]
  /\ SlotOpenTo(r, s, d)
  /\ entrant' = [entrant EXCEPT ![r][s] = d]
  /\ joined' = [joined EXCEPT ![r][s] = TRUE]
  /\ status' = [status EXCEPT ![r] = StatusAfterJoin(r, s)]
  /\ balances' = Paid(balances, d, Escrow, value)
  /\ UNCHANGED <<stakeWei, winnerSlot, nextRaceId, roleVars, refusing>>

lockRace(sender, r) ==
  /\ sender = facilitator
  /\ status[r] = "Joined"
  /\ \A s \in Slot : joined[r][s]
  /\ status' = [status EXCEPT ![r] = "Locked"]
  /\ UNCHANGED <<entrant, joined, stakeWei, winnerSlot, nextRaceId, roleVars, balances, refusing>>

startRace(sender, r) ==
  /\ sender = facilitator
  /\ status[r] = "Locked"
  /\ status' = [status EXCEPT ![r] = "Started"]
  /\ UNCHANGED <<entrant, joined, stakeWei, winnerSlot, nextRaceId, roleVars, balances, refusing>>

WinnerSlotValid(winner) == winner <= 1

finishRace(sender, r, winner) ==
  /\ sender = facilitator
  /\ status[r] = "Started"
  /\ WinnerSlotValid(winner)
  /\ status' = [status EXCEPT ![r] = "Finished"]
  /\ winnerSlot' = [winnerSlot EXCEPT ![r] = winner]
  /\ UNCHANGED <<entrant, joined, stakeWei, nextRaceId, roleVars, balances, refusing>>

SinglePayout(r) == stakeWei[r]
Payout(r) == stakeWei[r] * 2

settleRace(sender, r) ==
  LET winner == entrant[r][winnerSlot[r]]
  IN /\ sender = facilitator
     /\ status[r] = "Finished"
     /\ winner \notin refusing
     /\ Payout(r) <= balances[Escrow]
     /\ status' = [status EXCEPT ![r] = "Settled"]
     /\ balances' = Paid(balances, Escrow, winner, Payout(r))
     /\ UNCHANGED <<entrant, joined, stakeWei, winnerSlot, nextRaceId, roleVars, refusing>>

RefundDue(r, s) == IF joined[r][s] THEN stakeWei[r] ELSE 0

Refunded(bal, r, s) ==
  IF joined[r][s] THEN Paid(bal, Escrow, entrant[r][s], RefundDue(r, s)) ELSE bal

Cancelable(r) == status[r] \notin {"None", "Finished", "Settled", "Canceled"}

(* One driver who refuses the refund keeps the other from getting theirs.  *)
cancelRace(sender, r) ==
  /\ sender = facilitator
  /\ Cancelable(r)
  /\ \A s \in Slot : joined[r][s] => entrant[r][s] \notin refusing
  /\ RefundDue(r, 0) + RefundDue(r, 1) <= balances[Escrow]
  /\ status' = [status EXCEPT ![r] = "Canceled"]
  /\ balances' = Refunded(Refunded(balances, r, 0), r, 1)
  /\ UNCHANGED <<entrant, joined, stakeWei, winnerSlot, nextRaceId, roleVars, refusing>>

setFacilitator(sender, key) ==
  /\ sender = operator
  /\ facilitator' = key
  /\ UNCHANGED <<raceVars, operator, balances, refusing>>

setOperator(sender, key) ==
  /\ sender = operator
  /\ operator' = key
  /\ UNCHANGED <<raceVars, facilitator, balances, refusing>>

(* A driver's account begins or ceases to accept payments. *)
Refuse(d) ==
  /\ refusing' = IF d \in refusing THEN refusing \ {d} ELSE refusing \cup {d}
  /\ UNCHANGED <<raceVars, roleVars, balances>>

Next ==
  \/ \E d \in Drivers, r \in RaceId, s \in Slot, value \in Stakes : joinRace(d, r, s, value)
  \/ \E d \in Drivers : Refuse(d)
  \/ \E sender \in Keys :
       \/ \E stake \in Stakes \cup {0} : openRace(sender, stake)
       \/ \E r \in RaceId :
            \/ lockRace(sender, r)
            \/ startRace(sender, r)
            \/ \E winner \in 0..2 : finishRace(sender, r, winner)
            \/ settleRace(sender, r)
            \/ cancelRace(sender, r)
       \/ \E key \in Keys : setFacilitator(sender, key) \/ setOperator(sender, key)

Spec == Init /\ [][Next]_vars
-----------------------------------------------------------------------------
(* Properties.                                                             *)

(* Every variable keeps its type; no balance is ever negative. *)
TypeOK ==
  /\ status \in [RaceId -> Status]
  /\ entrant \in [RaceId -> [Slot -> Drivers \cup {NoDriver}]]
  /\ joined \in [RaceId -> [Slot -> BOOLEAN]]
  /\ stakeWei \in [RaceId -> Nat]
  /\ winnerSlot \in [RaceId -> Slot]
  /\ nextRaceId \in 0..MaxRaces
  /\ operator \in Keys
  /\ facilitator \in Keys
  /\ balances \in [Account -> Nat]
  /\ refusing \subseteq Drivers

Held(r, s) == IF status[r] \in {"None", "Settled", "Canceled"} THEN 0 ELSE RefundDue(r, s)

(* Two slots, two drivers, in whichever order they join (SameDriver).      *)
TwoDrivers ==
  \A r \in RaceId : (\A s \in Slot : joined[r][s]) => entrant[r][0] # entrant[r][1]

(* The contract keeps the promise of StakePool. *)
Pool == INSTANCE StakePool WITH
          Races <- RaceId,
          Amounts <- Stakes \cup {0},
          pool <- [r \in RaceId |-> [s \in Slot |-> Held(r, s)]],
          outcome <- [r \in RaceId |-> CASE status[r] = "Settled" -> "paid"
                                         [] status[r] = "Canceled" -> "refunded"
                                         [] OTHER -> "open"],
          purse <- [d \in Drivers |-> balances[d]],
          vault <- balances[Escrow]

ImplementsStakePool == Pool!Spec

(* Its statuses, entrants and winners are those of RaceLedger. *)
Ledger == INSTANCE RaceLedger

ImplementsRaceLedger == Ledger!Spec
=============================================================================
