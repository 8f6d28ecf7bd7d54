----------------------------- MODULE RaceMarket -----------------------------
(***************************************************************************)
(* The parimutuel betting contract, contracts/RaceMarket.sol: one action   *)
(* per external function, a call that reverts being no step.  Each guard   *)
(* is an operator of its own (Can...), because the sidecar also sends      *)
(* transactions that revert (BettingRoom).                                 *)
(*                                                                         *)
(* The USDC token is an external contract: transferFrom needs the sender's *)
(* balance; that the sender has approved the market is left out.           *)
(*                                                                         *)
(* CanBetLate and PayoutRoundedUp are plausible wrong forms of the         *)
(* definitions below them.                                                 *)
(***************************************************************************)
EXTENDS Integers, FiniteSetsExt

CONSTANTS
  Bettors,     \* accounts that may bet
  Market,      \* the contract's own account
  Keys,        \* addresses that may be judge
  Nullifiers,  \* World ID nullifiers
  Funds,       \* what each bettor owns at first
  MaxBet,      \* bound: the largest bet
  RacerCount,  \* numRacers of every race that is opened
  MaxRaces     \* bound: races that can be opened

ASSUME MarketAssumption ==
  /\ Market \notin Bettors /\ IsFiniteSet(Bettors)
  /\ Funds \in Nat /\ MaxBet \in Nat
  /\ RacerCount \in 1..255
  /\ MaxRaces \in Nat \ {0}

VARIABLES
  status,         \* "None"; "Open" when r.open; "Settled" when r.settled
  winner, numRacers, pool, totalPool, pick, stake, usedNullifier, nextRaceId,
  judge,
  usdc,           \* token balances of the bettors and the market
  wager           \* history: what each bettor staked, also after a claim

marketVars == <<status, winner, numRacers, pool, totalPool, pick, stake, usedNullifier,
                nextRaceId, judge, usdc, wager>>

RaceId == 0..(MaxRaces - 1)
Racer == 0..(RacerCount - 1)
Verdict == 0..RacerCount          \* uint8; one value beyond the racers stands for all
Account == Bettors \cup {Market}

MarketInit ==
  /\ status = [r \in RaceId |-> "None"]
  /\ winner = [r \in RaceId |-> 0]
  /\ numRacers = [r \in RaceId |-> 0]
  /\ pool = [r \in RaceId |-> [c \in Racer |-> 0]]
  /\ totalPool = [r \in RaceId |-> 0]
  /\ pick = [r \in RaceId |-> [b \in Bettors |-> 0]]
  /\ stake = [r \in RaceId |-> [b \in Bettors |-> 0]]
  /\ usedNullifier = [r \in RaceId |-> {}]
  /\ nextRaceId = 0
  /\ judge \in Keys
  /\ usdc = [a \in Account |-> IF a = Market THEN 0 ELSE Funds]
  /\ wager = [r \in RaceId |-> [b \in Bettors |-> [racer |-> 0, stake |-> 0]]]

CanOpen(sender) == sender = judge /\ nextRaceId < MaxRaces

openRace(sender) ==
  /\ CanOpen(sender)
  /\ nextRaceId' = nextRaceId + 1
  /\ status' = [status EXCEPT ![nextRaceId] = "Open"]
  /\ numRacers' = [numRacers EXCEPT ![nextRaceId] = RacerCount]
  /\ UNCHANGED <<winner, pool, totalPool, pick, stake, usedNullifier, judge, usdc, wager>>

CanBetLate(b, r, racer, amount, nullifier) ==
  /\ status[r] # "None"
  /\ racer < numRacers[r]
  /\ stake[r][b] = 0
  /\ nullifier \notin usedNullifier[r]
  /\ amount <= usdc[b]
CanBet(b, r, racer, amount, nullifier) ==
  /\ status[r] = "Open"
  /\ racer < numRacers[r]
  /\ stake[r][b] = 0
  /\ nullifier \notin usedNullifier[r]
  /\ amount <= usdc[b]

(* An amount of 0 uses up the nullifier but leaves the bettor without a    *)
(* stake, free to bet again.                                               *)
bet(b, r, racer, amount, nullifier) ==
  /\ CanBet(b, r, racer, amount, nullifier)
  /\ usedNullifier' = [usedNullifier EXCEPT ![r] = @ \cup {nullifier}]
  /\ usdc' = [usdc EXCEPT ![b] = @ - amount, ![Market] = @ + amount]
  /\ pick' = [pick EXCEPT ![r][b] = racer]
  /\ stake' = [stake EXCEPT ![r][b] = amount]
  /\ pool' = [pool EXCEPT ![r][racer] = @ + amount]
  /\ totalPool' = [totalPool EXCEPT ![r] = @ + amount]
  /\ wager' = IF amount = 0 THEN wager
              ELSE [wager EXCEPT ![r][b] = [racer |-> racer, stake |-> amount]]
  /\ UNCHANGED <<status, winner, numRacers, nextRaceId, judge>>

(* The winner is not compared with numRacers. *)
CanSettle(sender, r) == sender = judge /\ status[r] = "Open"

settle(sender, r, verdict) ==
  /\ CanSettle(sender, r)
  /\ status' = [status EXCEPT ![r] = "Settled"]
  /\ winner' = [winner EXCEPT ![r] = verdict]
  /\ UNCHANGED <<numRacers, pool, totalPool, pick, stake, usedNullifier, nextRaceId, judge, usdc, wager>>

PayoutRoundedUp(r, b) ==
  LET winPool == pool[r][winner[r]]
  IN IF winPool = 0 THEN 0 ELSE (stake[r][b] * totalPool[r] + winPool - 1) \div winPool
Payout(r, b) ==
  LET winPool == pool[r][winner[r]]
  IN IF winPool = 0 THEN 0 ELSE (stake[r][b] * totalPool[r]) \div winPool

StakeCleared(r, b) == [stake EXCEPT ![r][b] = 0]

claim(b, r) ==
  /\ status[r] = "Settled"
  /\ pick[r][b] = winner[r]
  /\ stake[r][b] > 0
  /\ Payout(r, b) <= usdc[Market]
  /\ stake' = StakeCleared(r, b)
  /\ usdc' = [usdc EXCEPT ![Market] = @ - Payout(r, b), ![b] = @ + Payout(r, b)]
  /\ UNCHANGED <<status, winner, numRacers, pool, totalPool, pick, usedNullifier, nextRaceId, judge, wager>>

(* By the operator, who is fixed. *)
setJudge(key) ==
  /\ judge' = key
  /\ UNCHANGED <<status, winner, numRacers, pool, totalPool, pick, stake, usedNullifier, nextRaceId, usdc, wager>>

MarketNext ==
  \/ \E sender \in Keys :
       \/ openRace(sender)
       \/ \E r \in RaceId, verdict \in Verdict : settle(sender, r, verdict)
  \/ \E b \in Bettors, r \in RaceId :
       \/ \E racer \in Verdict, amount \in 0..MaxBet, nullifier \in Nullifiers :
            bet(b, r, racer, amount, nullifier)
       \/ claim(b, r)
  \/ \E key \in Keys : setJudge(key)

MarketSpec == MarketInit /\ [][MarketNext]_marketVars
-----------------------------------------------------------------------------
(* Properties.                                                             *)

(* What the market still owes for a race: the whole pot while bets are     *)
(* open; after settlement, the payout of every backer of the winner who    *)
(* has not claimed.                                                        *)
Owed(r) ==
  IF status[r] = "Settled"
  THEN MapThenSumSet(LAMBDA b : IF pick[r][b] = winner[r] THEN Payout(r, b) ELSE 0,
                     {b \in Bettors : stake[r][b] > 0})
  ELSE totalPool[r]

(* Every claim can be paid, in whatever order claims, bets and settlements *)
(* of all races come: the shared balance covers what is owed, although     *)
(* payouts are rounded, a bettor may bet again after a bet of 0, and the   *)
(* winner may be one nobody backed (claim's transfer never reverts).       *)
ClaimsCovered == usdc[Market] >= MapThenSumSet(Owed, RaceId)

(* The contract keeps the promise of BetPool: its pools are the sums of    *)
(* the wagers, and claim pays the share of the pot, once.                  *)
Bets == INSTANCE BetPool WITH
          Races <- RaceId,
          Racers <- Racer,
          Verdicts <- Verdict,
          Amounts <- 1..MaxBet,
          NoVerdict <- -1,
          verdict <- [r \in RaceId |-> IF status[r] = "Settled" THEN winner[r] ELSE -1],
          collected <- [r \in RaceId |-> {b \in Bettors : wager[r][b].stake > 0 /\ stake[r][b] = 0}],
          purse <- [b \in Bettors |-> usdc[b]],
          vault <- usdc[Market]

ImplementsBetPool == Bets!Spec
=============================================================================
