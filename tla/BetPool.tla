------------------------------ MODULE BetPool ------------------------------
(***************************************************************************)
(* What a parimutuel race market promises, whichever program keeps it: the *)
(* contract RaceMarket or the market of the Solana program.  A bettor      *)
(* backs one racer of a race once; a verdict is given once; after it, each *)
(* backer of the winner collects, once, the share of the whole pot that    *)
(* the wager has in the winner's backing, rounded down.  Nothing else      *)
(* moves money, and no race is paid from another race's pot.               *)
(*                                                                         *)
(* Left out: who calls, World ID nullifiers, and what is kept to compute   *)
(* the sums.                                                               *)
(***************************************************************************)
EXTENDS Integers, FiniteSetsExt

CONSTANTS
  Bettors,    \* accounts that may bet
  Races,      \* race identifiers
  Racers,     \* what a bet may back
  Verdicts,   \* what a judge may name the winner, racer or not
  Amounts,    \* the amounts of a wager
  NoVerdict   \* the race is not settled yet

VARIABLES
  wager,      \* wager[r][b]: the racer b backs in race r and with how much
  verdict,    \* verdict[r]: the winner named, or NoVerdict
  collected,  \* collected[r]: the backers who have been paid
  purse,      \* purse[b]: what b owns outside the market
  vault       \* what the market owns

betVars == <<wager, verdict, collected, purse, vault>>

NoWager == [racer |-> 0, stake |-> 0]

Pot(r) == MapThenSumSet(LAMBDA b : wager[r][b].stake, Bettors)

Backing(r, c) ==
  MapThenSumSet(LAMBDA b : IF wager[r][b].racer = c THEN wager[r][b].stake ELSE 0, Bettors)

Share(r, b) == (wager[r][b].stake * Pot(r)) \div Backing(r, verdict[r])

Init ==
  /\ wager = [r \in Races |-> [b \in Bettors |-> NoWager]]
  /\ verdict = [r \in Races |-> NoVerdict]
  /\ collected = [r \in Races |-> {}]
  /\ purse \in [Bettors -> Nat]
  /\ vault = 0

Back(r, b, c, amount) ==
  /\ verdict[r] = NoVerdict
  /\ wager[r][b] = NoWager
  /\ 0 < amount /\ amount <= purse[b]
  /\ wager' = [wager EXCEPT ![r][b] = [racer |-> c, stake |-> amount]]
  /\ purse' = [purse EXCEPT ![b] = @ - amount]
  /\ vault' = vault + amount
  /\ UNCHANGED <<verdict, collected>>

Decide(r, c) ==
  /\ verdict[r] = NoVerdict
  /\ verdict' = [verdict EXCEPT ![r] = c]
  /\ UNCHANGED <<wager, collected, purse, vault>>

Collect(r, b) ==
  /\ verdict[r] = wager[r][b].racer
  /\ wager[r][b].stake > 0
  /\ b \notin collected[r]
  /\ collected' = [collected EXCEPT ![r] = @ \cup {b}]
  /\ purse' = [purse EXCEPT ![b] = @ + Share(r, b)]
  /\ vault' = vault - Share(r, b)
  /\ UNCHANGED <<wager, verdict>>

Next ==
  \E r \in Races :
    \/ \E b \in Bettors, c \in Racers, amount \in Amounts : Back(r, b, c, amount)
    \/ \E c \in Verdicts : Decide(r, c)
    \/ \E b \in Bettors : Collect(r, b)

Spec == Init /\ [][Next]_betVars
=============================================================================
