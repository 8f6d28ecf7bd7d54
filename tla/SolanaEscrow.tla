---------------------------- MODULE SolanaEscrow ----------------------------
(***************************************************************************)
(* The race escrow of the Solana program, solana/programs/clanker5000      *)
(* (instructions initialize to set_facilitator).  One action per           *)
(* instruction; an instruction that returns an error is no step, and the   *)
(* runtime undoes it as a whole.  The account constraints of the           *)
(* instruction's struct are guards like the others.                        *)
(*                                                                         *)
(* Money lies in SPL token accounts.  Each race has a vault of its own.    *)
(* The caller chooses which account of a driver pays or is paid; the       *)
(* program compares the owner only.  A race's fields for challenger and    *)
(* opponent are the slots 0 and 1.                                         *)
(*                                                                         *)
(* Left out: timestamps, proof hash, local round id, rent.                 *)
(*                                                                         *)
(* AnyAccount, RefundAnyway and CancelableFinished are plausible wrong     *)
(* forms of the definitions below them.                                    *)
(***************************************************************************)
EXTENDS Integers, FiniteSets, FiniteSetsExt

CONSTANTS
  Drivers,        \* wallets that may join
  NoDriver,       \* the default public key
  TokenAccounts,  \* the drivers' token accounts
  Owner,          \* Owner[a]: the driver who owns account a
  Facilitators,   \* keys that may be facilitator
  Stake,          \* stake_amount of every race
  Fee,            \* fee_amount of every race
  Funds,          \* what each token account holds at first
  MaxRaces        \* bound: races that can be opened

ASSUME SolanaAssumption ==
  /\ NoDriver \notin Drivers
  /\ Owner \in [TokenAccounts -> Drivers] /\ IsFiniteSet(TokenAccounts)
  /\ Stake \in Nat \ {0} /\ Fee \in Nat /\ Funds \in Nat
  /\ MaxRaces \in Nat \ {0}

VARIABLES
  status, entrant, joined, winner_slot, fees_collected,   \* the race accounts
  next_race_id, total_fees_collected, facilitator,        \* the config account
  token,       \* balances of the drivers' token accounts
  vault,       \* balances of the races' vaults
  treasury     \* balance of the treasury's token account

escrowVars == <<status, entrant, joined, winner_slot, fees_collected, next_race_id,
                total_fees_collected, facilitator, token, vault, treasury>>

Slot == 0..1
RaceId == 0..(MaxRaces - 1)

(* After initialize. *)
EscrowInit ==
  /\ status = [r \in RaceId |-> "None"]
  /\ entrant = [r \in RaceId |-> [s \in Slot |-> NoDriver]]
  /\ joined = [r \in RaceId |-> [s \in Slot |-> FALSE]]
  /\ winner_slot = [r \in RaceId |-> 0]
  /\ fees_collected = [r \in RaceId |-> 0]
  /\ next_race_id = 0
  /\ total_fees_collected = 0
  /\ facilitator \in Facilitators
  /\ token = [a \in TokenAccounts |-> Funds]
  /\ vault = [r \in RaceId |-> 0]
  /\ treasury = 0

open_race(signer, race_id) ==
  /\ signer = facilitator
  /\ race_id = next_race_id /\ race_id \in RaceId
  /\ status' = [status EXCEPT ![race_id] = "Created"]
  /\ next_race_id' = race_id + 1
  /\ UNCHANGED <<entrant, joined, winner_slot, fees_collected, total_fees_collected,
                 facilitator, token, vault, treasury>>

(* Only slot 1 is compared with the other slot. *)
SlotOpenTo(r, s, driver) == ~joined[r][s] /\ (s = 1 => driver # entrant[r][0])

join_race(driver, from, r, s) ==
  /\ Owner[from] = driver
  /\ status[r] \in {"Created", "Joined"}
  /\ SlotOpenTo(r, s, driver)
  /\ Stake + Fee <= token[from]
  /\ entrant' = [entrant EXCEPT ![r][s] = driver]
  /\ joined' = [joined EXCEPT ![r][s] = TRUE]
  /\ status' = [status EXCEPT ![r] = IF joined[r][1 - s] THEN "Joined" ELSE @]
  /\ token' = [token EXCEPT ![from] = @ - (Stake + Fee)]
  /\ vault' = [vault EXCEPT ![r] = @ + Stake]
  /\ treasury' = treasury + Fee
  /\ fees_collected' = [fees_collected EXCEPT ![r] = @ + Fee]
  /\ total_fees_collected' = total_fees_collected + Fee
  /\ UNCHANGED <<winner_slot, next_race_id, facilitator>>

Advanced(signer, r, from, to) ==
  /\ signer = facilitator
  /\ status[r] = from
  /\ status' = [status EXCEPT ![r] = to]
  /\ UNCHANGED <<entrant, joined, fees_collected, next_race_id, total_fees_collected, facilitator, treasury>>

lock_race(signer, r) ==
  /\ \A s \in Slot : joined[r][s]
  /\ Advanced(signer, r, "Joined", "Locked")
  /\ UNCHANGED <<winner_slot, token, vault>>

start_race(signer, r) ==
  Advanced(signer, r, "Locked", "Started") /\ UNCHANGED <<winner_slot, token, vault>>

finish_race(signer, r, winner) ==
  /\ winner <= 1
  /\ Advanced(signer, r, "Started", "Finished")
  /\ winner_slot' = [winner_slot EXCEPT ![r] = winner]
  /\ UNCHANGED <<token, vault>>

AnyAccount(account, driver) == TRUE
OwnedBy(account, driver) == Owner[account] = driver

settle_race(signer, r, to) ==
  /\ OwnedBy(to, entrant[r][winner_slot[r]])
  /\ 2 * Stake <= vault[r]
  /\ Advanced(signer, r, "Finished", "Settled")
  /\ token' = [token EXCEPT ![to] = @ + 2 * Stake]
  /\ vault' = [vault EXCEPT ![r] = @ - 2 * Stake]
  /\ UNCHANGED winner_slot

RefundAnyway(r, s) == Stake
RefundDue(r, s) == IF joined[r][s] THEN Stake ELSE 0

CancelableFinished == {"Created", "Joined", "Locked", "Started", "Finished"}
Cancelable == {"Created", "Joined", "Locked", "Started"}

(* The account of a slot nobody joined is not looked at.  One driver may   *)
(* hold both slots and may be paid back into two accounts or into one.     *)
cancel_race(signer, r, to) ==
  /\ status[r] \in Cancelable
  /\ \A s \in Slot : joined[r][s] => OwnedBy(to[s], entrant[r][s])
  /\ Advanced(signer, r, status[r], "Canceled")
  /\ token' = [a \in TokenAccounts |->
                 token[a] + MapThenSumSet(LAMBDA s : RefundDue(r, s), {s \in Slot : to[s] = a})]
  /\ vault' = [vault EXCEPT ![r] = @ - (RefundDue(r, 0) + RefundDue(r, 1))]
  /\ UNCHANGED winner_slot

(* By the authority, who is fixed. *)
set_facilitator(key) ==
  /\ facilitator' = key
  /\ UNCHANGED <<status, entrant, joined, winner_slot, fees_collected, next_race_id,
                 total_fees_collected, token, vault, treasury>>

EscrowNext ==
  \/ \E signer \in Facilitators, r \in RaceId :
       \/ open_race(signer, r)
       \/ lock_race(signer, r)
       \/ start_race(signer, r)
       \/ \E winner \in 0..2 : finish_race(signer, r, winner)
       \/ \E to \in TokenAccounts : settle_race(signer, r, to)
       \/ \E to \in [Slot -> TokenAccounts] : cancel_race(signer, r, to)
  \/ \E driver \in Drivers, from \in TokenAccounts, r \in RaceId, s \in Slot : join_race(driver, from, r, s)
  \/ \E key \in Facilitators : set_facilitator(key)
-----------------------------------------------------------------------------
(* Properties.                                                             *)

Held(r, s) == IF status[r] \in {"None", "Settled", "Canceled"} THEN 0 ELSE RefundDue(r, s)

(* Every race's vault holds exactly the open stakes of that race, and the  *)
(* treasury's account exactly the fees the program counts, by race and in  *)
(* total, whichever accounts the callers passed.                           *)
VaultsExact ==
  /\ \A r \in RaceId : vault[r] = Held(r, 0) + Held(r, 1)
  /\ treasury = total_fees_collected
  /\ total_fees_collected = MapThenSumSet(LAMBDA r : fees_collected[r], RaceId)

(* The escrow keeps the promise of StakePool; a driver's purse is all of   *)
(* the driver's token accounts.                                            *)
Pool == INSTANCE StakePool WITH
          Races <- RaceId,
          Amounts <- {Stake, Fee},
          pool <- [r \in RaceId |-> [s \in Slot |-> Held(r, s)]],
          outcome <- [r \in RaceId |-> CASE status[r] = "Settled" -> "paid"
                                         [] status[r] = "Canceled" -> "refunded"
                                         [] OTHER -> "open"],
          purse <- [d \in Drivers |->
                      MapThenSumSet(LAMBDA a : token[a], {a \in TokenAccounts : Owner[a] = d})],
          vault <- MapThenSumSet(LAMBDA r : vault[r], RaceId)

ImplementsStakePool == Pool!Spec

(* Its statuses, entrants and winners are those of RaceLedger. *)
Ledger == INSTANCE RaceLedger WITH winnerSlot <- winner_slot, nextRaceId <- next_race_id

ImplementsRaceLedger == Ledger!Spec
=============================================================================
