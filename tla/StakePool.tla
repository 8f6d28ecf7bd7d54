----------------------------- MODULE StakePool -----------------------------
(***************************************************************************)
(* What a race escrow promises, whichever contract keeps it (RaceEscrow on *)
(* an ERC-20 token, Clanker500Escrow on native coin).  Every race has a    *)
(* pool with one compartment per slot.  A stake enters a compartment once; *)
(* the two stakes leave together, either all to one of the two entrants or *)
(* each back to its own entrant; after that the race is closed for good.   *)
(* Nothing else ever moves money in or out of the vault, and an entrant's  *)
(* purse changes in no other way.                                          *)
(*                                                                         *)
(* The module abstracts from who calls, from signatures, allowances and    *)
(* from every status between "open" and "closed".                          *)
(***************************************************************************)
EXTENDS Integers

CONSTANTS
  Drivers,   \* accounts that may stake
  NoDriver,  \* the empty slot, not a driver
  Races,     \* race identifiers
  Amounts    \* the amounts a stake or a fee may have

VARIABLES
  pool,      \* pool[r][s]: what the vault holds for slot s of race r
  entrant,   \* entrant[r][s]: who staked in slot s of race r
  outcome,   \* outcome[r]: "open", "paid" or "refunded"
  purse,     \* purse[d]: what driver d owns outside the vault
  vault      \* what the escrow owns

poolVars == <<pool, entrant, outcome, purse, vault>>

Slot == 0..1

Init ==
  /\ pool = [r \in Races |-> [s \in Slot |-> 0]]
  /\ entrant = [r \in Races |-> [s \in Slot |-> NoDriver]]
  /\ outcome = [r \in Races |-> "open"]
  /\ purse \in [Drivers -> Nat]
  /\ vault = 0

(* A driver enters an empty compartment; a second entrant stakes what the  *)
(* first one did.  A fee may leave the purse, but never reaches the vault. *)
Enter(r, s, d, stake, fee) ==
  /\ outcome[r] = "open"
  /\ entrant[r][s] = NoDriver
  /\ stake > 0
  /\ pool[r][1 - s] \in {0, stake}
  /\ stake + fee <= purse[d]
  /\ pool' = [pool EXCEPT ![r][s] = stake]
  /\ entrant' = [entrant EXCEPT ![r][s] = d]
  /\ purse' = [purse EXCEPT ![d] = @ - (stake + fee)]
  /\ vault' = vault + stake
  /\ UNCHANGED outcome

Emptied(r) == [pool EXCEPT ![r] = [s \in Slot |-> 0]]

(* Both stakes go to one entrant of a full race. *)
PayWinner(r, s) ==
  /\ outcome[r] = "open"
  /\ \A t \in Slot : pool[r][t] > 0
  /\ outcome' = [outcome EXCEPT ![r] = "paid"]
  /\ purse' = [purse EXCEPT ![entrant[r][s]] = @ + pool[r][0] + pool[r][1]]
  /\ vault' = vault - (pool[r][0] + pool[r][1])
  /\ pool' = Emptied(r)
  /\ UNCHANGED entrant

(* Every stake of the race goes back to the driver who put it in. *)
Refund(r) ==
  /\ outcome[r] = "open"
  /\ outcome' = [outcome EXCEPT ![r] = "refunded"]
  /\ purse' = [d \in Drivers |->
                 purse[d] + (IF entrant[r][0] = d THEN pool[r][0] ELSE 0)
                          + (IF entrant[r][1] = d THEN pool[r][1] ELSE 0)]
  /\ vault' = vault - (pool[r][0] + pool[r][1])
  /\ pool' = Emptied(r)
  /\ UNCHANGED entrant

Next ==
  \E r \in Races :
    \/ \E s \in Slot, d \in Drivers, stake \in Amounts, fee \in Amounts : Enter(r, s, d, stake, fee)
    \/ \E s \in Slot : PayWinner(r, s)
    \/ Refund(r)

Spec == Init /\ [][Next]_poolVars
=============================================================================
