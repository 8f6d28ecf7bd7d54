--------------------------- MODULE SolanaProgram ---------------------------
(***************************************************************************)
(* The Solana program as a whole: the race escrow and the betting market   *)
(* beside each other.  They share the program's code but no account:       *)
(* drivers' and bettors' token accounts are taken to be different ones.    *)
(***************************************************************************)
EXTENDS SolanaEscrow, SolanaMarket

vars == <<status, entrant, joined, winner_slot, fees_collected, next_race_id,
          total_fees_collected, facilitator, token, vault, treasury,
          market, judge, winner, pools, total_pool, bet, nullifier, wallet, betVault>>

Init == EscrowInit /\ MarketInit

Next ==
  \/ EscrowNext /\ UNCHANGED marketVars
  \/ MarketNext /\ UNCHANGED escrowVars

Spec == Init /\ [][Next]_vars
=============================================================================
