---------------------------- MODULE SolanaMarket ----------------------------
(***************************************************************************)
(* The parimutuel market of the Solana program (instructions open_market   *)
(* to set_judge of solana/programs/clanker5000).  Each market has a vault  *)
(* of its own.  A bet and a used nullifier are accounts that can be        *)
(* created once: placing the bet again fails at `init`.                    *)
(*                                                                         *)
(* An instruction that returns an error is no step.  Arithmetic is checked *)
(* and in u128 where it multiplies, so it does not overflow for a token    *)
(* whose supply fits in u64.                                               *)
(*                                                                         *)
(* PayoutRoundedUp and ClaimedLater are plausible wrong forms of the       *)
(* definitions below them.                                                 *)
(***************************************************************************)
EXTENDS Integers, FiniteSets, FiniteSetsExt

CONSTANTS
  Bettors,      \* wallets that may bet, each with one token account
  Judges,       \* keys that may open a market and be its judge
  Nullifiers,   \* World ID nullifiers
  Purse,        \* what each bettor owns at first
  NumRacers,    \* num_racers of every market that is opened
  Markets       \* market ids

ASSUME MarketAssumption ==
  /\ Purse \in Nat /\ NumRacers \in 1..8
  /\ IsFiniteSet(Bettors) /\ IsFiniteSet(Markets)

VARIABLES
  market,     \* market[k]: "None", "Open" or "Settled"
  judge, winner, pools, total_pool,
  bet,        \* bet[k][b]: the bet account, amount 0 while it does not exist
  nullifier,  \* nullifier[k]: the nullifier accounts that exist
  wallet,     \* balances of the bettors' token accounts
  betVault    \* balances of the markets' vaults

marketVars == <<market, judge, winner, pools, total_pool, bet, nullifier, wallet, betVault>>

Racer == 0..(NumRacers - 1)
NoBet == [racer |-> 0, amount |-> 0, claimed |-> FALSE]

MarketInit ==
  /\ market = [k \in Markets |-> "None"]
  /\ judge \in [Markets -> Judges]
  /\ winner = [k \in Markets |-> 0]
  /\ pools = [k \in Markets |-> [c \in Racer |-> 0]]
  /\ total_pool = [k \in Markets |-> 0]
  /\ bet = [k \in Markets |-> [b \in Bettors |-> NoBet]]
  /\ nullifier = [k \in Markets |-> {}]
  /\ wallet = [b \in Bettors |-> Purse]
  /\ betVault = [k \in Markets |-> 0]

open_market(signer, k) ==
  /\ market[k] = "None"
  /\ market' = [market EXCEPT ![k] = "Open"]
  /\ judge' = [judge EXCEPT ![k] = signer]
  /\ UNCHANGED <<winner, pools, total_pool, bet, nullifier, wallet, betVault>>

place_bet(b, k, racer, amount, human) ==
  /\ market[k] = "Open"
  /\ racer < NumRacers
  /\ 0 < amount /\ amount <= wallet[b]
  /\ bet[k][b] = NoBet
  /\ human \notin nullifier[k]
  /\ bet' = [bet EXCEPT ![k][b] = [racer |-> racer, amount |-> amount, claimed |-> FALSE]]
  /\ nullifier' = [nullifier EXCEPT ![k] = @ \cup {human}]
  /\ wallet' = [wallet EXCEPT ![b] = @ - amount]
  /\ betVault' = [betVault EXCEPT ![k] = @ + amount]
  /\ pools' = [pools EXCEPT ![k][racer] = @ + amount]
  /\ total_pool' = [total_pool EXCEPT ![k] = @ + amount]
  /\ UNCHANGED <<market, judge, winner>>

settle_market(signer, k, verdict) ==
  /\ signer = judge[k]
  /\ market[k] = "Open"
  /\ verdict < NumRacers
  /\ market' = [market EXCEPT ![k] = "Settled"]
  /\ winner' = [winner EXCEPT ![k] = verdict]
  /\ UNCHANGED <<judge, pools, total_pool, bet, nullifier, wallet, betVault>>

PayoutRoundedUp(k, b) ==
  (bet[k][b].amount * total_pool[k] + pools[k][winner[k]] - 1) \div pools[k][winner[k]]
(* A claimer has backed the winner, so its pool is not empty. *)
Payout(k, b) == (bet[k][b].amount * total_pool[k]) \div pools[k][winner[k]]

ClaimedLater(k, b) == bet
MarkedClaimed(k, b) == [bet EXCEPT ![k][b].claimed = TRUE]

claim(b, k) ==
  /\ market[k] = "Settled"
  /\ bet[k][b].amount > 0 /\ ~bet[k][b].claimed
  /\ bet[k][b].racer = winner[k]
  /\ Payout(k, b) <= betVault[k]
  /\ bet' = MarkedClaimed(k, b)
  /\ wallet' = [wallet EXCEPT ![b] = @ + Payout(k, b)]
  /\ betVault' = [betVault EXCEPT ![k] = @ - Payout(k, b)]
  /\ UNCHANGED <<market, judge, winner, pools, total_pool, nullifier>>

(* By the market's operator, who is fixed. *)
set_judge(k, key) ==
  /\ market[k] # "None"
  /\ judge' = [judge EXCEPT ![k] = key]
  /\ UNCHANGED <<market, winner, pools, total_pool, bet, nullifier, wallet, betVault>>

MarketNext ==
  \E k \in Markets :
    \/ \E signer \in Judges :
         \/ open_market(signer, k)
         \/ set_judge(k, signer)
         \/ \E verdict \in 0..NumRacers : settle_market(signer, k, verdict)
    \/ \E b \in Bettors :
         \/ \E racer \in 0..NumRacers, amount \in 0..Purse, human \in Nullifiers :
              place_bet(b, k, racer, amount, human)
         \/ claim(b, k)
-----------------------------------------------------------------------------
(* Properties.                                                             *)

Owed(k) ==
  IF market[k] = "Settled"
  THEN MapThenSumSet(LAMBDA b : IF bet[k][b].racer = winner[k] THEN Payout(k, b) ELSE 0,
                     {b \in Bettors : bet[k][b].amount > 0 /\ ~bet[k][b].claimed})
  ELSE total_pool[k]

(* Every market can pay all claims still to come from its own vault, in    *)
(* whatever order they come, and unless nobody backed the winner, rounding *)
(* leaves less than one unit behind per backer of the winner.              *)
VaultCoversClaims ==
  \A k \in Markets :
    /\ betVault[k] >= Owed(k)
    /\ market[k] = "Settled" /\ pools[k][winner[k]] > 0 =>
         betVault[k] - Owed(k) <
           Cardinality({b \in Bettors : bet[k][b].amount > 0 /\ bet[k][b].racer = winner[k]})

(* The market keeps the promise of BetPool. *)
Bets == INSTANCE BetPool WITH
          Races <- Markets,
          Racers <- Racer,
          Verdicts <- Racer,
          Amounts <- 1..Purse,
          NoVerdict <- -1,
          wager <- [k \in Markets |-> [b \in Bettors |->
                      [racer |-> bet[k][b].racer, stake |-> bet[k][b].amount]]],
          verdict <- [k \in Markets |-> IF market[k] = "Settled" THEN winner[k] ELSE -1],
          collected <- [k \in Markets |-> {b \in Bettors : bet[k][b].claimed}],
          purse <- wallet,
          vault <- MapThenSumSet(LAMBDA k : betVault[k], Markets)

ImplementsBetPool == Bets!Spec
=============================================================================
