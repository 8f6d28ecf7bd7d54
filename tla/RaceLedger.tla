----------------------------- MODULE RaceLedger -----------------------------
(***************************************************************************)
(* A race escrow as its facilitator sees it: the status of each race, who  *)
(* has entered it and who won.  Money, signatures, fees and roles are left *)
(* out; StakePool says what becomes of the money.  RaceEscrow implements   *)
(* this module, and RaceRoom, the sidecar, is built on it.                 *)
(***************************************************************************)
EXTENDS Integers

CONSTANTS
  Drivers,   \* accounts that may enter a race
  NoDriver,  \* the empty slot, not a driver
  MaxRaces   \* bound: races that can be opened

VARIABLES status, entrant, winnerSlot, nextRaceId

ledgerVars == <<status, entrant, winnerSlot, nextRaceId>>

Slot == 0..1
RaceId == 0..(MaxRaces - 1)

Init ==
  /\ status = [r \in RaceId |-> "None"]
  /\ entrant = [r \in RaceId |-> [s \in Slot |-> NoDriver]]
  /\ winnerSlot = [r \in RaceId |-> 0]
  /\ nextRaceId = 0

OpenRace ==
  /\ nextRaceId < MaxRaces
  /\ nextRaceId' = nextRaceId + 1
  /\ status' = [status EXCEPT ![nextRaceId] = "Created"]
  /\ UNCHANGED <<entrant, winnerSlot>>

(* The second entry makes the race Joined. *)
Join(r, s, d) ==
  /\ status[r] \in {"Created", "Joined"}
  /\ entrant[r][s] = NoDriver
  /\ s = 1 => d # entrant[r][0]
  /\ entrant' = [entrant EXCEPT ![r][s] = d]
  /\ status' = [status EXCEPT ![r] = IF entrant[r][1 - s] # NoDriver THEN "Joined" ELSE @]
  /\ UNCHANGED <<winnerSlot, nextRaceId>>

Advance(r, from, to) ==
  /\ status[r] = from
  /\ status' = [status EXCEPT ![r] = to]
  /\ UNCHANGED <<entrant, nextRaceId>>

Lock(r) == Advance(r, "Joined", "Locked") /\ UNCHANGED winnerSlot

Start(r) == Advance(r, "Locked", "Started") /\ UNCHANGED winnerSlot

Finish(r, winner) ==
  /\ Advance(r, "Started", "Finished")
  /\ winnerSlot' = [winnerSlot EXCEPT ![r] = winner]

Settle(r) == Advance(r, "Finished", "Settled") /\ UNCHANGED winnerSlot

Cancel(r) ==
  /\ status[r] \notin {"None", "Finished", "Settled", "Canceled"}
  /\ Advance(r, status[r], "Canceled")
  /\ UNCHANGED winnerSlot

Next ==
  \/ OpenRace
  \/ \E r \in RaceId :
       \/ \E s \in Slot, d \in Drivers : Join(r, s, d)
       \/ Lock(r) \/ Start(r) \/ Settle(r) \/ Cancel(r)
       \/ \E winner \in Slot : Finish(r, winner)

Spec == Init /\ [][Next]_ledgerVars
=============================================================================
