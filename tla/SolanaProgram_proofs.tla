-------------------------- MODULE SolanaProgram_proofs --------------------------
(* Theorems about the Solana program, its market and its race escrow, for  *)
(* every value of their constants.                                         *)
EXTENDS SolanaProgram, SumLemmas, TLAPS

(* The market: what each bettor staked, and what each staked on racer c.   *)
StakesOf(w) == [b \in Bettors |-> w[b].amount]
BackingOf(w, c) == [b \in Bettors |-> IF w[b].racer = c THEN w[b].amount ELSE 0]

(* What each bettor may still claim from a settled market.                 *)
Unclaimed(k, b) == bet[k][b].amount > 0 /\ ~bet[k][b].claimed /\ bet[k][b].racer = winner[k]
Due(k) == [b \in Bettors |-> IF Unclaimed(k, b) THEN Payout(k, b) ELSE 0]

Backers(k) == {b \in Bettors : bet[k][b].amount > 0 /\ bet[k][b].racer = winner[k]}

Bet == [racer : Racer, amount : Nat, claimed : BOOLEAN]

MarketType ==
  /\ market \in [Markets -> {"None", "Open", "Settled"}]
  /\ winner \in [Markets -> Racer]
  /\ pools \in [Markets -> [Racer -> Nat]]
  /\ total_pool \in [Markets -> Nat]
  /\ bet \in [Markets -> [Bettors -> Bet]]
  /\ wallet \in [Bettors -> Nat]
  /\ betVault \in [Markets -> Nat]

(* A bet account is empty until the bet is placed, and only a backer of    *)
(* the winner of a settled market has claimed.                             *)
BetsRecorded ==
  \A k \in Markets, b \in Bettors :
    /\ bet[k][b].amount = 0 => bet[k][b] = NoBet
    /\ bet[k][b].claimed => market[k] = "Settled" /\ bet[k][b].racer = winner[k]

(* The pools the program keeps are the sums of the bets.                   *)
PoolsAreSums ==
  \A k \in Markets :
    /\ total_pool[k] = SumOver(StakesOf(bet[k]), Bettors)
    /\ \A c \in Racer : pools[k][c] = SumOver(BackingOf(bet[k], c), Bettors)

(* The vault holds the pot while bets are open.  Afterwards it covers what *)
(* is due, and rounding leaves less than one unit per backer.              *)
Covers(k) ==
  IF market[k] = "Settled"
  THEN /\ betVault[k] >= SumOver(Due(k), Bettors)
       /\ pools[k][winner[k]] > 0 =>
            betVault[k] - SumOver(Due(k), Bettors) < Cardinality(Backers(k))
  ELSE betVault[k] = total_pool[k]

(* Payouts are covered only because pools are the sums of the bets.        *)
MarketInv ==
  /\ MarketType /\ BetsRecorded /\ PoolsAreSums
  /\ \A k \in Markets : Covers(k)
-----------------------------------------------------------------------------
(* The folds of the market in the form SumLemmas knows.                    *)

LEMMA BettorsFinite == IsFiniteSet(Bettors)
  BY MarketAssumption

LEMMA MarketsFinite == IsFiniteSet(Markets)
  BY MarketAssumption

LEMMA DueIsSum ==
  ASSUME NEW k \in Markets, NEW S \in SUBSET Bettors,
         \A b \in S : bet[k][b].amount > 0 /\ ~bet[k][b].claimed
  PROVE  MapThenSumSet(LAMBDA b : IF bet[k][b].racer = winner[k] THEN Payout(k, b) ELSE 0, S)
           = SumOver(Due(k), S)
  <1> DEFINE e(b) == IF bet[k][b].racer = winner[k] THEN Payout(k, b) ELSE 0
             P(f) == f = [s \in SUBSET S |->
                            IF s = {} THEN 0 ELSE e(Pick(s)) + f[s \ {Pick(s)}]]
             own == CHOOSE f : P(f)
  <1>1. MapThenSumSet(LAMBDA b : IF bet[k][b].racer = winner[k] THEN Payout(k, b) ELSE 0, S) = own[S]
    BY Zenon DEF MapThenSumSet, MapThenFoldSet, Pick
  <1>2. \A s \in SUBSET S : s # {} => e(Pick(s)) = Due(k)[Pick(s)]
    BY PickIn DEF Due, Unclaimed
  <1> HIDE DEF e
  <1>3. \A f : P(f) <=> IsFold(f, Due(k), S)
    <2> SUFFICES ASSUME NEW f
                 PROVE  [s \in SUBSET S |-> IF s = {} THEN 0 ELSE e(Pick(s)) + f[s \ {Pick(s)}]]
                      = [s \in SUBSET S |-> IF s = {} THEN 0 ELSE Due(k)[Pick(s)] + f[s \ {Pick(s)}]]
      BY DEF IsFold
    <2> HIDE DEF P, own
    <2> QED BY <1>2
  <1>4. IsFiniteSet(S)
    BY BettorsFinite, FS_Subset
  <1>5. \E f : P(f)
    BY <1>3, <1>4, FoldExists
  <1>6. P(own)
    BY <1>5, Zenon
  <1> HIDE DEF P, own
  <1>7. IsFold(own, Due(k), S)
    BY <1>3, <1>6
  <1> QED BY <1>1, <1>4, <1>7, SumIsFold

(* Whoever has backed a racer is one of those whose bets its pool sums up. *)
LEMMA PoolBacked ==
  ASSUME MarketType, PoolsAreSums, NEW k \in Markets, NEW b \in Bettors
  PROVE  pools[k][bet[k][b].racer] >= bet[k][b].amount
  <1> DEFINE c == bet[k][b].racer
             g == BackingOf(bet[k], c)
  <1>1. \A x \in Bettors : g[x] \in Nat
    BY DEF MarketType, BackingOf, Bet
  <1>2. c \in Racer /\ g[b] = bet[k][b].amount
    BY DEF MarketType, BackingOf, Bet
  <1>3. pools[k][c] = SumOver(g, Bettors)
    BY <1>2 DEF PoolsAreSums
  <1> HIDE DEF g, c
  <1>4. SumOver(g, Bettors) >= g[b]
    BY <1>1, BettorsFinite, SumAtLeast
  <1> QED BY <1>2, <1>3, <1>4 DEF c

(* What a bettor is due is a natural number. *)
LEMMA DueType ==
  ASSUME MarketType, PoolsAreSums, NEW k \in Markets
  PROVE  \A b \in Bettors : Due(k)[b] \in Nat
  <1> SUFFICES ASSUME NEW b \in Bettors PROVE Due(k)[b] \in Nat
    OBVIOUS
  <1>1. CASE Unclaimed(k, b)
    <2> DEFINE w == pools[k][winner[k]]
               a == bet[k][b].amount * total_pool[k]
    <2>1. w \in Nat /\ a \in Nat /\ bet[k][b].amount \in Nat
      BY DEF MarketType, Bet
    <2>2. w > 0
      BY <1>1, <2>1, PoolBacked DEF Unclaimed
    <2>3. Due(k)[b] = a \div w
      BY <1>1 DEF Due, Payout
    <2> HIDE DEF w, a
    <2> QED BY <2>1, <2>2, <2>3
  <1>2. CASE ~Unclaimed(k, b)
    BY <1>2 DEF Due
  <1> QED BY <1>1, <1>2

LEMMA OwedIsSum ==
  ASSUME MarketType, PoolsAreSums, NEW k \in Markets
  PROVE  Owed(k) = IF market[k] = "Settled" THEN SumOver(Due(k), Bettors) ELSE total_pool[k]
  <1> DEFINE S == {b \in Bettors : bet[k][b].amount > 0 /\ ~bet[k][b].claimed}
  <1>1. MapThenSumSet(LAMBDA b : IF bet[k][b].racer = winner[k] THEN Payout(k, b) ELSE 0, S)
          = SumOver(Due(k), S)
    BY DueIsSum
  <1>2. SumOver(Due(k), S) = SumOver(Due(k), Bettors)
    <2>1. \A b \in Bettors \ S : Due(k)[b] = 0
      BY DEF Due, Unclaimed
    <2>2. \A b \in Bettors : Due(k)[b] \in Nat
      BY DueType
    <2> HIDE DEF S
    <2>3. S \in SUBSET Bettors
      BY DEF S
    <2> QED BY <2>1, <2>2, <2>3, SumSubset, BettorsFinite
  <1>3. Owed(k) = IF market[k] = "Settled" THEN SumOver(Due(k), S) ELSE total_pool[k]
    BY <1>1 DEF Owed
  <1> QED BY <1>2, <1>3

LEMMA MarketCovers == MarketInv => VaultCoversClaims
  <1> SUFFICES ASSUME MarketInv, NEW k \in Markets
               PROVE  /\ betVault[k] >= Owed(k)
                      /\ market[k] = "Settled" /\ pools[k][winner[k]] > 0 =>
                           betVault[k] - Owed(k) < Cardinality(Backers(k))
    BY DEF VaultCoversClaims, Backers
  <1>1. Owed(k) = IF market[k] = "Settled" THEN SumOver(Due(k), Bettors) ELSE total_pool[k]
    BY OwedIsSum DEF MarketInv
  <1>2. betVault[k] \in Nat /\ total_pool[k] \in Nat
    BY DEF MarketInv, MarketType
  <1> QED BY <1>1, <1>2 DEF MarketInv, Covers
-----------------------------------------------------------------------------
(* The market's invariant holds at first, and every step keeps it.         *)

LEMMA MarketInitInv == MarketInit => MarketInv
  <1> SUFFICES ASSUME MarketInit PROVE MarketInv
    OBVIOUS
  <1>1. 0 \in Racer
    BY MarketAssumption DEF Racer
  <1>2. NoBet \in Bet
    BY <1>1 DEF NoBet, Bet
  <1>3. MarketType
    BY <1>1, <1>2, MarketAssumption DEF MarketInit, MarketType
  <1>4. BetsRecorded
    BY DEF MarketInit, BetsRecorded, NoBet
  <1>5. PoolsAreSums
    <2> SUFFICES ASSUME NEW k \in Markets
                 PROVE  /\ total_pool[k] = SumOver(StakesOf(bet[k]), Bettors)
                        /\ \A c \in Racer : pools[k][c] = SumOver(BackingOf(bet[k], c), Bettors)
      BY DEF PoolsAreSums
    <2>1. \A b \in Bettors : StakesOf(bet[k])[b] = 0
      BY DEF MarketInit, StakesOf, NoBet
    <2>2. \A c \in Racer : \A b \in Bettors : BackingOf(bet[k], c)[b] = 0
      BY DEF MarketInit, BackingOf, NoBet
    <2>3. SumOver(StakesOf(bet[k]), Bettors) = 0
      BY <2>1, SumZero, BettorsFinite
    <2>4. \A c \in Racer : SumOver(BackingOf(bet[k], c), Bettors) = 0
      BY <2>2, SumZero, BettorsFinite
    <2> QED BY <2>3, <2>4 DEF MarketInit
  <1>6. \A k \in Markets : Covers(k)
    BY DEF Covers, MarketInit
  <1> QED BY <1>3, <1>4, <1>5, <1>6 DEF MarketInv

(* A market whose accounts a step leaves alone stays covered.              *)
LEMMA CoversKept ==
  ASSUME NEW k \in Markets, Covers(k),
         UNCHANGED <<market[k], winner[k], pools[k], total_pool[k], bet[k], betVault[k]>>
  PROVE  Covers(k)'
  <1>1. Due(k)' = Due(k)
    BY DEF Due, Unclaimed, Payout
  <1>2. Backers(k)' = Backers(k)
    BY DEF Backers
  <1> QED BY <1>1, <1>2 DEF Covers
LEMMA OpenMarketInv ==
  ASSUME MarketInv, NEW signer \in Judges, NEW k \in Markets, open_market(signer, k)
  PROVE  MarketInv'
  <1>1. /\ market[k] = "None"
        /\ market' = [market EXCEPT ![k] = "Open"]
        /\ UNCHANGED <<winner, pools, total_pool, bet, wallet, betVault>>
    BY DEF open_market
  <1>2. MarketType'
    BY <1>1 DEF MarketInv, MarketType
  <1>3. BetsRecorded'
    BY <1>1 DEF MarketInv, MarketType, BetsRecorded
  <1>4. PoolsAreSums'
    BY <1>1 DEF MarketInv, PoolsAreSums
  <1>5. ASSUME NEW q \in Markets PROVE Covers(q)'
    <2>1. CASE q = k
      BY <1>1, <2>1 DEF MarketInv, MarketType, Covers
    <2>2. CASE q # k
      <3>1. Covers(q) /\ market'[q] = market[q]
        BY <1>1, <2>2 DEF MarketInv, MarketType
      <3> QED BY <1>1, <3>1, CoversKept
    <2> QED BY <2>1, <2>2
  <1> QED BY <1>2, <1>3, <1>4, <1>5 DEF MarketInv

(* A bet enters both sums by its amount. *)
LEMMA BetSums ==
  ASSUME NEW w \in [Bettors -> Bet], NEW b \in Bettors, w[b].amount = 0,
         NEW c \in Racer, NEW amount \in Nat,
         NEW n, n = [w EXCEPT ![b] = [racer |-> c, amount |-> amount, claimed |-> FALSE]]
  PROVE  /\ SumOver(StakesOf(n), Bettors) = SumOver(StakesOf(w), Bettors) + amount
         /\ \A d \in Racer : SumOver(BackingOf(n, d), Bettors) =
              SumOver(BackingOf(w, d), Bettors) + (IF d = c THEN amount ELSE 0)
  <1>1. n \in [Bettors -> Bet]
    BY DEF Bet
  <1>2. ASSUME NEW g, NEW k, NEW a \in Nat,
               \A x \in Bettors : g[x] \in Nat /\ k[x] \in Nat,
               \A x \in Bettors \ {b} : k[x] = g[x],
               g[b] = 0, k[b] = a
        PROVE  SumOver(k, Bettors) = SumOver(g, Bettors) + a
    <2>1. SumOver(k, Bettors) - SumOver(g, Bettors) = k[b] - g[b]
      BY <1>2, BettorsFinite, SumUpdate
    <2>2. SumOver(k, Bettors) \in Nat /\ SumOver(g, Bettors) \in Nat
      BY <1>2, SumType, BettorsFinite
    <2> QED BY <1>2, <2>1, <2>2
  <1>3. SumOver(StakesOf(n), Bettors) = SumOver(StakesOf(w), Bettors) + amount
    <2> DEFINE g == StakesOf(w)
               k == StakesOf(n)
    <2>1. /\ \A x \in Bettors : g[x] \in Nat /\ k[x] \in Nat
          /\ \A x \in Bettors \ {b} : k[x] = g[x]
          /\ g[b] = 0 /\ k[b] = amount
      BY <1>1 DEF StakesOf, Bet
    <2> HIDE DEF g, k
    <2>2. SumOver(k, Bettors) = SumOver(g, Bettors) + amount
      BY <1>2, <2>1
    <2> QED BY <2>2 DEF g, k
  <1>4. ASSUME NEW d \in Racer
        PROVE  SumOver(BackingOf(n, d), Bettors) =
                 SumOver(BackingOf(w, d), Bettors) + (IF d = c THEN amount ELSE 0)
    <2> DEFINE g == BackingOf(w, d)
               k == BackingOf(n, d)
               a == IF d = c THEN amount ELSE 0
    <2>1. /\ \A x \in Bettors : g[x] \in Nat /\ k[x] \in Nat
          /\ \A x \in Bettors \ {b} : k[x] = g[x]
          /\ g[b] = 0 /\ k[b] = a /\ a \in Nat
      BY <1>1 DEF BackingOf, Bet
    <2> HIDE DEF g, k, a
    <2>2. SumOver(k, Bettors) = SumOver(g, Bettors) + a
      BY <1>2, <2>1
    <2> QED BY <2>2 DEF g, k, a
  <1> QED BY <1>3, <1>4

(* What placing a bet needs and changes. *)
LEMMA BetPlaced ==
  ASSUME MarketInv, NEW b \in Bettors, NEW k \in Markets, NEW racer \in 0..NumRacers,
         NEW amount \in 0..Purse, NEW human \in Nullifiers, place_bet(b, k, racer, amount, human)
  PROVE  /\ market[k] = "Open" /\ racer \in Racer /\ amount \in Nat /\ amount > 0
         /\ amount <= wallet[b] /\ bet[k][b] = NoBet
         /\ \A q \in Markets, x \in Bettors :
              bet'[q][x] = IF q = k /\ x = b
                           THEN [racer |-> racer, amount |-> amount, claimed |-> FALSE]
                           ELSE bet[q][x]
         /\ bet'[k] = [bet[k] EXCEPT ![b] = [racer |-> racer, amount |-> amount, claimed |-> FALSE]]
         /\ wallet' = [wallet EXCEPT ![b] = @ - amount]
         /\ betVault' = [betVault EXCEPT ![k] = @ + amount]
         /\ total_pool' = [total_pool EXCEPT ![k] = @ + amount]
         /\ pools' = [pools EXCEPT ![k][racer] = @ + amount]
         /\ UNCHANGED <<market, winner>>
  <1> DEFINE new == [racer |-> racer, amount |-> amount, claimed |-> FALSE]
  <1>1. bet' = [bet EXCEPT ![k][b] = new]
    BY DEF place_bet
  <1>2. bet \in [Markets -> [Bettors -> Bet]]
    BY DEF MarketInv, MarketType
  <1> HIDE DEF new
  <1>3. /\ \A q \in Markets, x \in Bettors : bet'[q][x] = IF q = k /\ x = b THEN new ELSE bet[q][x]
        /\ bet'[k] = [bet[k] EXCEPT ![b] = new]
    BY <1>1, <1>2
  <1>4. racer \in Racer /\ amount \in Nat /\ amount > 0
    BY MarketAssumption DEF place_bet, Racer
  <1> QED BY <1>3, <1>4 DEF place_bet, new

LEMMA PlaceBetInv ==
  ASSUME MarketInv, NEW b \in Bettors, NEW k \in Markets, NEW racer \in 0..NumRacers,
         NEW amount \in 0..Purse, NEW human \in Nullifiers, place_bet(b, k, racer, amount, human)
  PROVE  MarketInv'
  <1> DEFINE new == [racer |-> racer, amount |-> amount, claimed |-> FALSE]
  <1>1. /\ market[k] = "Open" /\ racer \in Racer /\ amount \in Nat /\ amount > 0
        /\ amount <= wallet[b] /\ bet[k][b] = NoBet
        /\ \A q \in Markets, x \in Bettors :
             bet'[q][x] = IF q = k /\ x = b THEN new ELSE bet[q][x]
        /\ bet'[k] = [bet[k] EXCEPT ![b] = new]
        /\ wallet' = [wallet EXCEPT ![b] = @ - amount]
        /\ betVault' = [betVault EXCEPT ![k] = @ + amount]
        /\ total_pool' = [total_pool EXCEPT ![k] = @ + amount]
        /\ pools' = [pools EXCEPT ![k][racer] = @ + amount]
        /\ UNCHANGED <<market, winner>>
    BY BetPlaced
  <1>2. bet' = [bet EXCEPT ![k][b] = new]
    BY DEF place_bet
  <1>3. new \in Bet /\ new.amount = amount /\ ~new.claimed
    BY <1>1 DEF Bet
  <1>4. /\ bet \in [Markets -> [Bettors -> Bet]] /\ wallet \in [Bettors -> Nat]
        /\ betVault \in [Markets -> Nat] /\ total_pool \in [Markets -> Nat]
        /\ pools \in [Markets -> [Racer -> Nat]]
    BY DEF MarketInv, MarketType
  <1>5. \A q \in Markets \ {k} :
          UNCHANGED <<market[q], winner[q], pools[q], total_pool[q], bet[q], betVault[q]>>
    BY <1>1, <1>2, <1>4
  <1>6. MarketType'
    <2> HIDE DEF new
    <2>1. bet' \in [Markets -> [Bettors -> Bet]]
      BY <1>2, <1>3, <1>4
    <2>2. wallet' \in [Bettors -> Nat] /\ betVault' \in [Markets -> Nat] /\ total_pool' \in [Markets -> Nat]
      BY <1>1, <1>4
    <2>3. pools' \in [Markets -> [Racer -> Nat]]
      BY <1>1, <1>4
    <2> QED BY <1>1, <2>1, <2>2, <2>3 DEF MarketInv, MarketType
  <1>7. BetsRecorded'
    <2> SUFFICES ASSUME NEW q \in Markets, NEW x \in Bettors
                 PROVE  /\ bet'[q][x].amount = 0 => bet'[q][x] = NoBet
                        /\ bet'[q][x].claimed => market'[q] = "Settled" /\ bet'[q][x].racer = winner'[q]
      BY DEF BetsRecorded
    <2> HIDE DEF new
    <2>1. CASE q = k /\ x = b
      BY <1>1, <1>3, <2>1
    <2>2. CASE ~(q = k /\ x = b)
      BY <1>1, <2>2 DEF MarketInv, BetsRecorded
    <2> QED BY <2>1, <2>2
  <1>8. PoolsAreSums'
    <2> SUFFICES ASSUME NEW q \in Markets
                 PROVE  /\ total_pool'[q] = SumOver(StakesOf(bet'[q]), Bettors)
                        /\ \A c \in Racer : pools'[q][c] = SumOver(BackingOf(bet'[q], c), Bettors)
      BY DEF PoolsAreSums
    <2>1. /\ total_pool[q] = SumOver(StakesOf(bet[q]), Bettors)
          /\ \A c \in Racer : pools[q][c] = SumOver(BackingOf(bet[q], c), Bettors)
      BY DEF MarketInv, PoolsAreSums
    <2>2. CASE q # k
      BY <1>5, <2>1, <2>2
    <2>3. CASE q = k
      <3>1. bet[k] \in [Bettors -> Bet] /\ bet[k][b].amount = 0
        BY <1>1, <1>4 DEF NoBet
      <3>2. /\ SumOver(StakesOf(bet'[k]), Bettors) = SumOver(StakesOf(bet[k]), Bettors) + amount
            /\ \A d \in Racer : SumOver(BackingOf(bet'[k], d), Bettors) =
                 SumOver(BackingOf(bet[k], d), Bettors) + (IF d = racer THEN amount ELSE 0)
        BY <1>1, <3>1, BetSums
      <3>3. /\ total_pool'[k] = total_pool[k] + amount
            /\ \A d \in Racer : pools'[k][d] = pools[k][d] + (IF d = racer THEN amount ELSE 0)
        BY <1>1, <1>4
      <3> QED BY <2>1, <2>3, <3>2, <3>3
    <2> QED BY <2>2, <2>3
  <1>9. ASSUME NEW q \in Markets PROVE Covers(q)'
    <2>1. CASE q = k
      <3>1. betVault[k] = total_pool[k]
        BY <1>1 DEF MarketInv, Covers
      <3>2. betVault'[k] = total_pool'[k] /\ market'[k] # "Settled"
        BY <1>1, <1>4, <3>1
      <3> QED BY <2>1, <3>2 DEF Covers
    <2>2. CASE q # k
      <3>1. Covers(q)
        BY DEF MarketInv
      <3> QED BY <1>5, <2>2, <3>1, CoversKept
    <2> QED BY <2>1, <2>2
  <1> QED BY <1>6, <1>7, <1>8, <1>9 DEF MarketInv
(* Settling shares the pot out among the winner's backers: it covers the   *)
(* shares, and less than one unit per backer is left.                      *)
LEMMA SettleCovers ==
  ASSUME MarketInv, NEW signer \in Judges, NEW k \in Markets, NEW verdict \in Racer,
         market[k] = "Open",
         market' = [market EXCEPT ![k] = "Settled"],
         winner' = [winner EXCEPT ![k] = verdict],
         UNCHANGED <<pools, total_pool, bet, betVault>>
  PROVE  Covers(k)'
  <1> DEFINE h == BackingOf(bet[k], verdict)
             t == total_pool[k]
             w == pools[k][verdict]
             g == Due(k)'
  <1>1. market'[k] = "Settled" /\ winner'[k] = verdict
    BY DEF MarketInv, MarketType
  <1>2. \A b \in Bettors : bet[k][b] \in Bet /\ bet[k][b].amount \in Nat /\ ~bet[k][b].claimed
    BY DEF MarketInv, MarketType, BetsRecorded, Bet
  <1>3. t \in Nat /\ w \in Nat /\ w = SumOver(h, Bettors) /\ betVault[k] = t
    BY DEF MarketInv, MarketType, PoolsAreSums, Covers
  <1>4. \A b \in Bettors : h[b] \in Nat
    BY <1>2 DEF BackingOf
  <1>5. \A b \in Bettors :
          g[b] = IF bet[k][b].amount > 0 /\ bet[k][b].racer = verdict
                 THEN (bet[k][b].amount * t) \div w ELSE 0
    BY <1>1, <1>2 DEF Due, Unclaimed, Payout
  <1>6. Backers(k)' = {b \in Bettors : h[b] > 0}
    BY <1>1, <1>2 DEF Backers, BackingOf
  <1>7. CASE w > 0
    <2>1. \A b \in Bettors : g[b] = (h[b] * t) \div w
      <3> SUFFICES ASSUME NEW b \in Bettors PROVE g[b] = (h[b] * t) \div w
        OBVIOUS
      <3>1. CASE bet[k][b].amount > 0 /\ bet[k][b].racer = verdict
        <4>1. h[b] = bet[k][b].amount
          BY <3>1 DEF BackingOf
        <4> QED BY <1>5, <3>1, <4>1
      <3>2. CASE ~(bet[k][b].amount > 0 /\ bet[k][b].racer = verdict)
        <4>1. h[b] = 0 /\ g[b] = 0
          BY <1>2, <1>5, <3>2 DEF BackingOf
        <4> HIDE DEF t, w, h, g
        <4>2. 0 * t = 0 /\ 0 \div w = 0
          BY <1>3, <1>7
        <4> QED BY <4>1, <4>2
      <3> QED BY <3>1, <3>2
    <2> HIDE DEF g, h, t, w
    <2>2. \A b \in Bettors : g[b] = (h[b] * t) \div SumOver(h, Bettors)
      BY <1>3, <2>1
    <2>3. SumOver(h, Bettors) > 0
      BY <1>3, <1>7
    <2>4. SumOver(g, Bettors) <= t /\ \A b \in Bettors : g[b] \in Nat
      BY <1>3, <1>4, <2>2, <2>3, BettorsFinite, SharesWithin
    <2>5. t - SumOver(g, Bettors) < Cardinality({b \in Bettors : h[b] > 0})
      BY <1>3, <1>4, <2>2, <2>3, BettorsFinite, SharesLeave
    <2>6. SumOver(g, Bettors) \in Nat
      BY <2>4, BettorsFinite, SumType
    <2>7. /\ betVault'[k] = t
          /\ betVault'[k] >= SumOver(g, Bettors)
          /\ betVault'[k] - SumOver(g, Bettors) < Cardinality(Backers(k)')
      BY <1>3, <1>6, <2>4, <2>5, <2>6
    <2> QED BY <1>1, <2>7 DEF Covers, g
  <1>8. CASE w = 0
    <2>1. \A b \in Bettors : g[b] = 0
      <3> SUFFICES ASSUME NEW b \in Bettors,
                          bet[k][b].amount > 0 /\ bet[k][b].racer = verdict
                   PROVE  FALSE
        BY <1>5
      <3>1. pools[k][bet[k][b].racer] >= bet[k][b].amount
        BY PoolBacked DEF MarketInv
      <3> QED BY <1>2, <1>3, <1>8, <3>1
    <2> HIDE DEF g
    <2>2. SumOver(g, Bettors) = 0
      BY <2>1, SumZero, BettorsFinite
    <2>3. pools'[k][winner'[k]] = 0
      BY <1>1, <1>8
    <2>4. betVault'[k] >= SumOver(g, Bettors) /\ ~(pools'[k][winner'[k]] > 0)
      BY <1>3, <2>2, <2>3
    <2> QED BY <1>1, <2>4 DEF Covers, g
  <1> QED BY <1>3, <1>7, <1>8

LEMMA SettleMarketInv ==
  ASSUME MarketInv, NEW signer \in Judges, NEW k \in Markets, NEW verdict \in 0..NumRacers,
         settle_market(signer, k, verdict)
  PROVE  MarketInv'
  <1>1. /\ market[k] = "Open" /\ verdict \in Racer
        /\ market' = [market EXCEPT ![k] = "Settled"]
        /\ winner' = [winner EXCEPT ![k] = verdict]
        /\ UNCHANGED <<pools, total_pool, bet, wallet, betVault>>
    BY MarketAssumption DEF settle_market, Racer
  <1>2. MarketType'
    BY <1>1 DEF MarketInv, MarketType
  <1>3. BetsRecorded'
    BY <1>1 DEF MarketInv, MarketType, BetsRecorded
  <1>4. PoolsAreSums'
    BY <1>1 DEF MarketInv, PoolsAreSums
  <1>5. ASSUME NEW q \in Markets PROVE Covers(q)'
    <2>1. CASE q = k
      BY <1>1, <2>1, SettleCovers
    <2>2. CASE q # k
      <3>1. Covers(q) /\ market'[q] = market[q] /\ winner'[q] = winner[q]
        BY <1>1, <2>2 DEF MarketInv, MarketType
      <3> QED BY <1>1, <3>1, CoversKept
    <2> QED BY <2>1, <2>2
  <1> QED BY <1>2, <1>3, <1>4, <1>5 DEF MarketInv

(* A claim marks one bet and leaves the others as they are.                *)
OnlyMarked(k, b) ==
  \A q \in Markets, x \in Bettors :
    /\ bet'[q][x].racer = bet[q][x].racer
    /\ bet'[q][x].amount = bet[q][x].amount
    /\ bet'[q][x].claimed = IF q = k /\ x = b THEN TRUE ELSE bet[q][x].claimed

(* What a claim needs and changes. *)
LEMMA ClaimMade ==
  ASSUME MarketInv, NEW b \in Bettors, NEW k \in Markets, claim(b, k)
  PROVE  /\ market[k] = "Settled" /\ Unclaimed(k, b) /\ Payout(k, b) \in Nat
         /\ Payout(k, b) <= betVault[k] /\ Due(k)[b] = Payout(k, b)
         /\ OnlyMarked(k, b)
         /\ bet' \in [Markets -> [Bettors -> Bet]]
         /\ \A q \in Markets \ {k} : bet'[q] = bet[q]
         /\ wallet' = [wallet EXCEPT ![b] = @ + Payout(k, b)]
         /\ betVault' = [betVault EXCEPT ![k] = @ - Payout(k, b)]
         /\ UNCHANGED <<market, winner, pools, total_pool>>
  <1>1. bet' = [bet EXCEPT ![k][b].claimed = TRUE]
    BY DEF claim, MarkedClaimed
  <1>2. bet \in [Markets -> [Bettors -> Bet]]
    BY DEF MarketInv, MarketType
  <1> DEFINE new == [bet[k][b] EXCEPT !.claimed = TRUE]
  <1>3. /\ new \in Bet /\ new.racer = bet[k][b].racer /\ new.amount = bet[k][b].amount
        /\ new.claimed = TRUE
    <2>1. bet[k][b] \in Bet
      BY <1>2
    <2> QED BY <2>1 DEF Bet
  <1>4. bet' = [bet EXCEPT ![k][b] = new]
    BY <1>1
  <1> HIDE DEF new
  <1>5. /\ bet' \in [Markets -> [Bettors -> Bet]]
        /\ \A q \in Markets \ {k} : bet'[q] = bet[q]
        /\ \A q \in Markets, x \in Bettors :
             bet'[q][x] = IF q = k /\ x = b THEN new ELSE bet[q][x]
    BY <1>2, <1>3, <1>4
  <1>6. OnlyMarked(k, b)
    <2> SUFFICES ASSUME NEW q \in Markets, NEW x \in Bettors
                 PROVE  /\ bet'[q][x].racer = bet[q][x].racer
                        /\ bet'[q][x].amount = bet[q][x].amount
                        /\ bet'[q][x].claimed = IF q = k /\ x = b THEN TRUE ELSE bet[q][x].claimed
      BY DEF OnlyMarked
    <2>1. CASE q = k /\ x = b
      <3>1. bet'[q][x] = new
        BY <1>5, <2>1
      <3> QED BY <1>3, <2>1, <3>1
    <2>2. CASE ~(q = k /\ x = b)
      <3>1. bet'[q][x] = bet[q][x]
        BY <1>5, <2>2
      <3> QED BY <2>2, <3>1
    <2> QED BY <2>1, <2>2
  <1>7. Unclaimed(k, b)
    BY DEF claim, Unclaimed
  <1>8. Due(k)[b] = Payout(k, b)
    BY <1>7 DEF Due
  <1>9. Payout(k, b) \in Nat
    BY <1>8, DueType DEF MarketInv
  <1> QED BY <1>6, <1>7, <1>8, <1>9, <1>5 DEF claim

LEMMA ClaimInv ==
  ASSUME MarketInv, NEW b \in Bettors, NEW k \in Markets, claim(b, k)
  PROVE  MarketInv'
  <1> DEFINE pay == Payout(k, b)
  <1>1. /\ market[k] = "Settled" /\ Unclaimed(k, b) /\ pay \in Nat
        /\ pay <= betVault[k] /\ Due(k)[b] = pay
        /\ OnlyMarked(k, b)
        /\ bet' \in [Markets -> [Bettors -> Bet]]
        /\ \A q \in Markets \ {k} : bet'[q] = bet[q]
        /\ wallet' = [wallet EXCEPT ![b] = @ + pay]
        /\ betVault' = [betVault EXCEPT ![k] = @ - pay]
        /\ UNCHANGED <<market, winner, pools, total_pool>>
    BY ClaimMade
  <1> USE DEF OnlyMarked
  <1>2. \A x \in Bettors \ {b} : Due(k)'[x] = Due(k)[x]
    BY <1>1 DEF Due, Unclaimed, Payout
  <1>3. Due(k)'[b] = 0
    BY <1>1 DEF Due, Unclaimed
  <1> HIDE DEF pay
  <1>4. /\ wallet \in [Bettors -> Nat] /\ betVault \in [Markets -> Nat]
        /\ bet \in [Markets -> [Bettors -> Bet]]
    BY DEF MarketInv, MarketType
  <1>5. MarketType'
    <2>1. wallet' \in [Bettors -> Nat]
      BY <1>1, <1>4
    <2>2. betVault' \in [Markets -> Nat]
      BY <1>1, <1>4
    <2> QED BY <1>1, <2>1, <2>2 DEF MarketInv, MarketType
  <1>6. BetsRecorded'
    <2> SUFFICES ASSUME NEW q \in Markets, NEW x \in Bettors
                 PROVE  /\ bet'[q][x].amount = 0 => bet'[q][x] = NoBet
                        /\ bet'[q][x].claimed => market'[q] = "Settled" /\ bet'[q][x].racer = winner'[q]
      BY DEF BetsRecorded
    <2>1. /\ bet[q][x].amount = 0 => bet[q][x] = NoBet
          /\ bet[q][x].claimed => market[q] = "Settled" /\ bet[q][x].racer = winner[q]
      BY DEF MarketInv, BetsRecorded
    <2>2. CASE q = k /\ x = b
      <3>1. bet[k][b].amount > 0 /\ bet[k][b].racer = winner[k] /\ bet[k][b].amount \in Nat
        BY <1>1, <1>4 DEF Unclaimed, Bet
      <3>2. bet'[k][b].amount = bet[k][b].amount /\ bet'[k][b].racer = bet[k][b].racer
        BY <1>1
      <3>3. bet'[k][b].amount # 0 /\ bet'[k][b].racer = winner'[k] /\ market'[k] = "Settled"
        BY <1>1, <3>1, <3>2
      <3> QED BY <2>2, <3>3
    <2>3. CASE q # k
      <3>1. bet'[q] = bet[q]
        BY <1>1, <2>3
      <3> QED BY <1>1, <2>1, <3>1
    <2>4. CASE q = k /\ x # b
      <3>1. /\ bet'[q][x].racer = bet[q][x].racer /\ bet'[q][x].amount = bet[q][x].amount
            /\ bet'[q][x].claimed = bet[q][x].claimed
        BY <1>1, <2>4
      <3>2. bet'[q][x] \in Bet /\ bet[q][x] \in Bet
        BY <1>1, <1>4
      <3>3. bet'[q][x] = bet[q][x]
        BY <3>1, <3>2 DEF Bet
      <3> QED BY <1>1, <2>1, <3>3
    <2> QED BY <2>2, <2>3, <2>4
  <1>7. PoolsAreSums'
    <2> SUFFICES ASSUME NEW q \in Markets
                 PROVE  /\ total_pool'[q] = SumOver(StakesOf(bet'[q]), Bettors)
                        /\ \A c \in Racer : pools'[q][c] = SumOver(BackingOf(bet'[q], c), Bettors)
      BY DEF PoolsAreSums
    <2>1. StakesOf(bet'[q]) = StakesOf(bet[q])
      BY <1>1 DEF StakesOf
    <2>2. \A c \in Racer : BackingOf(bet'[q], c) = BackingOf(bet[q], c)
      BY <1>1 DEF BackingOf
    <2> QED BY <1>1, <2>1, <2>2 DEF MarketInv, PoolsAreSums
  <1>8. ASSUME NEW q \in Markets PROVE Covers(q)'
    <2>1. CASE q = k
      <3> DEFINE g == Due(k)
                 h == Due(k)'
      <3>1. \A x \in Bettors : g[x] \in Nat
        BY DueType DEF MarketInv
      <3>2. Backers(k)' = Backers(k)
        BY <1>1 DEF Backers
      <3> HIDE DEF g, h
      <3>3. \A x \in Bettors \ {b} : h[x] = g[x]
        BY <1>2 DEF g, h
      <3>4. h[b] = 0 /\ g[b] = pay
        BY <1>1, <1>3 DEF g, h
      <3>5. \A x \in Bettors : g[x] \in Nat /\ h[x] \in Nat
        BY <3>1, <3>3, <3>4
      <3>6. SumOver(h, Bettors) - SumOver(g, Bettors) = h[b] - g[b]
        BY <3>3, <3>5, BettorsFinite, SumUpdate
      <3>7. SumOver(h, Bettors) \in Nat /\ SumOver(g, Bettors) \in Nat
        BY <3>5, SumType, BettorsFinite
      <3>8. betVault'[k] = betVault[k] - pay /\ betVault[k] \in Nat
        BY <1>1, <1>4
      <3>8a. pay \in Nat
        BY <1>1, <3>4, <3>5
      <3>8b. SumOver(h, Bettors) - SumOver(g, Bettors) = 0 - pay
        BY <3>4, <3>6
      <3>9. betVault'[k] - SumOver(h, Bettors) = betVault[k] - SumOver(g, Bettors)
        BY <3>7, <3>8, <3>8a, <3>8b
      <3>10. /\ betVault[k] >= SumOver(g, Bettors)
             /\ pools[k][winner[k]] > 0 => betVault[k] - SumOver(g, Bettors) < Cardinality(Backers(k))
        BY <1>1 DEF MarketInv, Covers, g
      <3>11. betVault'[k] >= SumOver(h, Bettors)
        BY <1>1, <3>7, <3>8, <3>9, <3>10
      <3>12. pools'[k][winner'[k]] > 0 =>
               betVault'[k] - SumOver(h, Bettors) < Cardinality(Backers(k)')
        BY <1>1, <3>2, <3>9, <3>10
      <3> QED BY <1>1, <2>1, <3>11, <3>12 DEF Covers, h
    <2>2. CASE q # k
      <3>1. Covers(q) /\ betVault'[q] = betVault[q] /\ bet'[q] = bet[q]
        BY <1>1, <1>4, <2>2 DEF MarketInv
      <3> QED BY <1>1, <3>1, CoversKept
    <2> QED BY <2>1, <2>2
  <1> QED BY <1>5, <1>6, <1>7, <1>8 DEF MarketInv

LEMMA MarketStillInv ==
  ASSUME MarketInv,
         \/ \E k \in Markets, key \in Judges : set_judge(k, key)
         \/ UNCHANGED marketVars
  PROVE  MarketInv'
  <1>1. UNCHANGED <<market, winner, pools, total_pool, bet, wallet, betVault>>
    BY DEF set_judge, marketVars
  <1>2. \A q \in Markets : Covers(q)'
    BY <1>1, CoversKept DEF MarketInv
  <1> QED BY <1>1, <1>2 DEF MarketInv, MarketType, BetsRecorded, PoolsAreSums

LEMMA MarketNextInv == MarketInv /\ [MarketNext]_marketVars => MarketInv'
  <1> SUFFICES ASSUME MarketInv, [MarketNext]_marketVars PROVE MarketInv'
    OBVIOUS
  <1> QED BY OpenMarketInv, PlaceBetInv, SettleMarketInv, ClaimInv, MarketStillInv DEF MarketNext

LEMMA ProgramSteps == [Next]_vars => [EscrowNext]_escrowVars /\ [MarketNext]_marketVars
  BY DEF Next, vars, escrowVars, marketVars

(* Every claim of every market can be paid from its own vault, in whatever *)
(* order claims come and for any number of bettors, and less than one unit *)
(* per backer of the winner stays behind.                                  *)
THEOREM ClaimsPayable == Spec => []VaultCoversClaims
  <1>1. Init => MarketInv
    BY MarketInitInv DEF Init
  <1>2. MarketInv /\ [Next]_vars => MarketInv'
    BY MarketNextInv, ProgramSteps
  <1> QED BY <1>1, <1>2, MarketCovers, PTL DEF Spec
-----------------------------------------------------------------------------
(* The market implements BetPool. *)

MappedWager ==
  [k \in Markets |-> [b \in Bettors |-> [racer |-> bet[k][b].racer, stake |-> bet[k][b].amount]]]
MappedVerdict == [k \in Markets |-> IF market[k] = "Settled" THEN winner[k] ELSE -1]
MappedCollected == [k \in Markets |-> {b \in Bettors : bet[k][b].claimed}]
MappedVault == MapThenSumSet(LAMBDA k : betVault[k], Markets)

(* The pot and the backing of BetPool are the pools the program keeps.     *)
LEMMA PotIsSum ==
  ASSUME NEW k \in Markets
  PROVE  Bets!Pot(k) = SumOver(StakesOf(bet[k]), Bettors)
  <1> DEFINE g == StakesOf(bet[k])
             e(b) == MappedWager[k][b].stake
             P(f) == f = [s \in SUBSET Bettors |->
                            IF s = {} THEN 0 ELSE e(Pick(s)) + f[s \ {Pick(s)}]]
             own == CHOOSE f : P(f)
  <1>1. Bets!Pot(k) = own[Bettors]
    BY Zenon DEF Bets!Pot, Bets!MapThenSumSet, Bets!MapThenFoldSet, MapThenSumSet, MapThenFoldSet, Pick,
                 MappedWager
  <1>2. \A s \in SUBSET Bettors : s # {} => e(Pick(s)) = g[Pick(s)]
    BY PickIn DEF StakesOf, MappedWager
  <1> HIDE DEF g, e
  <1>3. \A f : P(f) <=> IsFold(f, g, Bettors)
    <2> SUFFICES ASSUME NEW f
                 PROVE  [s \in SUBSET Bettors |-> IF s = {} THEN 0 ELSE e(Pick(s)) + f[s \ {Pick(s)}]]
                      = [s \in SUBSET Bettors |-> IF s = {} THEN 0 ELSE g[Pick(s)] + f[s \ {Pick(s)}]]
      BY DEF IsFold
    <2> HIDE DEF P, own
    <2> QED BY <1>2
  <1>4. \E f : P(f)
    BY <1>3, FoldExists, BettorsFinite
  <1>5. P(own)
    BY <1>4, Zenon
  <1> HIDE DEF P, own
  <1>6. IsFold(own, g, Bettors)
    BY <1>3, <1>5
  <1> QED BY <1>1, <1>6, SumIsFold, BettorsFinite DEF g

LEMMA BackingIsSum ==
  ASSUME NEW k \in Markets, NEW c \in Racer
  PROVE  Bets!Backing(k, c) = SumOver(BackingOf(bet[k], c), Bettors)
  <1> DEFINE g == BackingOf(bet[k], c)
             e(b) == IF MappedWager[k][b].racer = c THEN MappedWager[k][b].stake ELSE 0
             P(f) == f = [s \in SUBSET Bettors |->
                            IF s = {} THEN 0 ELSE e(Pick(s)) + f[s \ {Pick(s)}]]
             own == CHOOSE f : P(f)
  <1>1. Bets!Backing(k, c) = own[Bettors]
    BY Zenon DEF Bets!Backing, Bets!MapThenSumSet, Bets!MapThenFoldSet, MapThenSumSet, MapThenFoldSet, Pick,
                 MappedWager
  <1>2. \A s \in SUBSET Bettors : s # {} => e(Pick(s)) = g[Pick(s)]
    BY PickIn DEF BackingOf, MappedWager
  <1> HIDE DEF g, e
  <1>3. \A f : P(f) <=> IsFold(f, g, Bettors)
    <2> SUFFICES ASSUME NEW f
                 PROVE  [s \in SUBSET Bettors |-> IF s = {} THEN 0 ELSE e(Pick(s)) + f[s \ {Pick(s)}]]
                      = [s \in SUBSET Bettors |-> IF s = {} THEN 0 ELSE g[Pick(s)] + f[s \ {Pick(s)}]]
      BY DEF IsFold
    <2> HIDE DEF P, own
    <2> QED BY <1>2
  <1>4. \E f : P(f)
    BY <1>3, FoldExists, BettorsFinite
  <1>5. P(own)
    BY <1>4, Zenon
  <1> HIDE DEF P, own
  <1>6. IsFold(own, g, Bettors)
    BY <1>3, <1>5
  <1> QED BY <1>1, <1>6, SumIsFold, BettorsFinite DEF g

(* A backer of the winner is paid the share BetPool promises.              *)
LEMMA ShareIsPayout ==
  ASSUME MarketInv, NEW k \in Markets, NEW b \in Bettors, market[k] = "Settled", Unclaimed(k, b)
  PROVE  Bets!Share(k, b) = Payout(k, b)
  <1>1. winner[k] \in Racer /\ MappedWager[k][b].stake = bet[k][b].amount /\ MappedVerdict[k] = winner[k]
    BY DEF MarketInv, MarketType, MappedWager, MappedVerdict
  <1>2. Bets!Pot(k) = total_pool[k]
    BY PotIsSum DEF MarketInv, PoolsAreSums
  <1>3. Bets!Backing(k, winner[k]) = pools[k][winner[k]]
    BY <1>1, BackingIsSum DEF MarketInv, PoolsAreSums
  <1>4. Bets!Share(k, b) = (MappedWager[k][b].stake * Bets!Pot(k)) \div Bets!Backing(k, MappedVerdict[k])
    BY DEF Bets!Share, MappedWager, MappedVerdict
  <1> QED BY <1>1, <1>2, <1>3, <1>4 DEF Payout

LEMMA VaultIsSum == MappedVault = SumOver(betVault, Markets)
  BY DEF MappedVault, SumOver

LEMMA VaultIsSumNext == MappedVault' = SumOver(betVault', Markets)
  <1>1. (MappedVault = SumOver(betVault, Markets))'
    BY VaultIsSum, PTL
  <1> QED BY <1>1

(* One market's vault moves the sum of the vaults by as much.              *)
LEMMA VaultMoves ==
  ASSUME MarketInv, MarketInv', NEW k \in Markets,
         \A q \in Markets \ {k} : betVault'[q] = betVault[q]
  PROVE  MappedVault' = MappedVault + (betVault'[k] - betVault[k])
  <1>1. MappedVault = SumOver(betVault, Markets) /\ MappedVault' = SumOver(betVault', Markets)
    BY VaultIsSum, VaultIsSumNext
  <1>2. \A q \in Markets : betVault[q] \in Nat /\ betVault'[q] \in Nat
    BY DEF MarketInv, MarketType
  <1>3. SumOver(betVault', Markets) - SumOver(betVault, Markets) = betVault'[k] - betVault[k]
    BY <1>2, MarketsFinite, SumUpdate
  <1>4. SumOver(betVault', Markets) \in Nat /\ SumOver(betVault, Markets) \in Nat
    BY <1>2, SumType, MarketsFinite
  <1> QED BY <1>1, <1>2, <1>3, <1>4

LEMMA MarketInitMaps == MarketInit => Bets!Init
  <1> SUFFICES ASSUME MarketInit PROVE Bets!Init
    OBVIOUS
  <1>1. MappedWager = [k \in Markets |-> [b \in Bettors |-> Bets!NoWager]]
    BY DEF MarketInit, MappedWager, NoBet, Bets!NoWager
  <1>2. MappedVerdict = [k \in Markets |-> -1] /\ MappedCollected = [k \in Markets |-> {}]
    BY DEF MarketInit, MappedVerdict, MappedCollected, NoBet
  <1>3. wallet \in [Bettors -> Nat]
    BY MarketAssumption DEF MarketInit
  <1>4. MappedVault = 0
    <2>1. \A k \in Markets : betVault[k] = 0
      BY DEF MarketInit
    <2> QED BY <2>1, VaultIsSum, SumZero, MarketsFinite
  <1> QED BY <1>1, <1>2, <1>3, <1>4
          DEF Bets!Init, MappedWager, MappedVerdict, MappedCollected, MappedVault

LEMMA BackMaps ==
  ASSUME MarketInv, MarketInv', NEW b \in Bettors, NEW k \in Markets, NEW racer \in 0..NumRacers,
         NEW amount \in 0..Purse, NEW human \in Nullifiers, place_bet(b, k, racer, amount, human)
  PROVE  racer \in Racer /\ amount \in 1..Purse /\ Bets!Back(k, b, racer, amount)
  <1> DEFINE new == [racer |-> racer, amount |-> amount, claimed |-> FALSE]
  <1>1. /\ market[k] = "Open" /\ racer \in Racer /\ amount \in Nat /\ amount > 0
        /\ amount <= wallet[b] /\ bet[k][b] = NoBet
        /\ \A q \in Markets, x \in Bettors :
             bet'[q][x] = IF q = k /\ x = b THEN new ELSE bet[q][x]
        /\ bet'[k] = [bet[k] EXCEPT ![b] = new]
        /\ wallet' = [wallet EXCEPT ![b] = @ - amount]
        /\ betVault' = [betVault EXCEPT ![k] = @ + amount]
        /\ UNCHANGED <<market, winner>>
    BY BetPlaced
  <1>2. new.racer = racer /\ new.amount = amount /\ new.claimed = FALSE
    OBVIOUS
  <1> HIDE DEF new
  <1>3. MappedVerdict[k] = -1 /\ MappedVerdict' = MappedVerdict
    BY <1>1 DEF MappedVerdict
  <1>4. MappedWager[k][b] = Bets!NoWager
    BY <1>1 DEF MappedWager, NoBet, Bets!NoWager
  <1>5. MappedWager' = [MappedWager EXCEPT ![k][b] = [racer |-> racer, stake |-> amount]]
    <2> DEFINE m(q, x) == [racer |-> bet[q][x].racer, stake |-> bet[q][x].amount]
               n(q, x) == [racer |-> bet'[q][x].racer, stake |-> bet'[q][x].amount]
               one == [racer |-> racer, stake |-> amount]
    <2>1. \A q \in Markets, x \in Bettors : n(q, x) = IF q = k /\ x = b THEN one ELSE m(q, x)
      BY <1>1, <1>2
    <2>2. /\ MappedWager = [q \in Markets |-> [x \in Bettors |-> m(q, x)]]
          /\ MappedWager' = [q \in Markets |-> [x \in Bettors |-> n(q, x)]]
      BY DEF MappedWager
    <2> HIDE DEF m, n, one
    <2>3. [q \in Markets |-> [x \in Bettors |-> n(q, x)]]
            = [[q \in Markets |-> [x \in Bettors |-> m(q, x)]] EXCEPT ![k][b] = one]
      BY <2>1
    <2> QED BY <2>2, <2>3 DEF one
  <1>6. MappedCollected' = MappedCollected
    <2>1. \A q \in Markets, x \in Bettors : bet'[q][x].claimed <=> bet[q][x].claimed
      BY <1>1, <1>2 DEF NoBet
    <2> QED BY <2>1 DEF MappedCollected
  <1>7. MappedVault' = MappedVault + amount
    <2>1. betVault \in [Markets -> Nat]
      BY DEF MarketInv, MarketType
    <2>2. \A q \in Markets \ {k} : betVault'[q] = betVault[q]
      BY <1>1, <2>1
    <2>3. betVault'[k] - betVault[k] = amount
      BY <1>1, <2>1
    <2> QED BY <2>2, <2>3, VaultMoves
  <1>8. amount \in 1..Purse
    BY <1>1
  <1> QED BY <1>1, <1>3, <1>4, <1>5, <1>6, <1>7, <1>8
          DEF Bets!Back, MappedWager, MappedVerdict, MappedCollected, MappedVault

LEMMA DecideMaps ==
  ASSUME MarketInv, NEW signer \in Judges, NEW k \in Markets, NEW verdict \in 0..NumRacers,
         settle_market(signer, k, verdict)
  PROVE  verdict \in Racer /\ Bets!Decide(k, verdict)
  <1>1. /\ market[k] = "Open" /\ verdict \in Racer
        /\ market' = [market EXCEPT ![k] = "Settled"]
        /\ winner' = [winner EXCEPT ![k] = verdict]
        /\ UNCHANGED <<bet, wallet, betVault>>
    BY MarketAssumption DEF settle_market, Racer
  <1>2. MappedVerdict[k] = -1 /\ MappedVerdict' = [MappedVerdict EXCEPT ![k] = verdict]
    BY <1>1 DEF MappedVerdict, MarketInv, MarketType
  <1>3. MappedWager' = MappedWager /\ MappedCollected' = MappedCollected
    BY <1>1 DEF MappedWager, MappedCollected
  <1>4. MappedVault' = MappedVault
    <2>1. MappedVault = SumOver(betVault, Markets) /\ MappedVault' = SumOver(betVault', Markets)
      BY VaultIsSum, VaultIsSumNext
    <2> QED BY <1>1, <2>1
  <1> QED BY <1>1, <1>2, <1>3, <1>4
          DEF Bets!Decide, MappedWager, MappedVerdict, MappedCollected, MappedVault

LEMMA CollectMaps ==
  ASSUME MarketInv, MarketInv', NEW b \in Bettors, NEW k \in Markets, claim(b, k)
  PROVE  Bets!Collect(k, b)
  <1> DEFINE pay == Payout(k, b)
  <1>1. /\ market[k] = "Settled" /\ Unclaimed(k, b) /\ pay \in Nat /\ pay <= betVault[k]
        /\ OnlyMarked(k, b)
        /\ wallet' = [wallet EXCEPT ![b] = @ + pay]
        /\ betVault' = [betVault EXCEPT ![k] = @ - pay]
        /\ UNCHANGED <<market, winner>>
    <2>1. market[k] = "Settled" /\ Unclaimed(k, b) /\ pay \in Nat /\ pay <= betVault[k]
      BY ClaimMade
    <2>2. OnlyMarked(k, b)
      BY ClaimMade
    <2>3. /\ wallet' = [wallet EXCEPT ![b] = @ + pay]
          /\ betVault' = [betVault EXCEPT ![k] = @ - pay]
          /\ UNCHANGED <<market, winner>>
      BY ClaimMade
    <2> QED BY <2>1, <2>2, <2>3
  <1> USE DEF OnlyMarked
  <1>2. Bets!Share(k, b) = pay
    <2>1. market[k] = "Settled" /\ Unclaimed(k, b)
      BY <1>1
    <2> QED BY <2>1, ShareIsPayout
  <1> HIDE DEF pay
  <1>3. MappedVerdict[k] = MappedWager[k][b].racer /\ MappedWager[k][b].stake > 0
        /\ b \notin MappedCollected[k]
    BY <1>1 DEF MappedVerdict, MappedWager, MappedCollected, Unclaimed
  <1>4. MappedVerdict' = MappedVerdict /\ MappedWager' = MappedWager
    BY <1>1 DEF MappedVerdict, MappedWager
  <1>5. MappedCollected' = [MappedCollected EXCEPT ![k] = @ \cup {b}]
    <2>1. \A q \in Markets : MappedCollected'[q] =
            IF q = k THEN MappedCollected[k] \cup {b} ELSE MappedCollected[q]
      BY <1>1 DEF MappedCollected
    <2>2. MappedCollected' = [q \in Markets |-> MappedCollected'[q]]
      BY DEF MappedCollected
    <2>3. MappedCollected = [q \in Markets |-> MappedCollected[q]]
      BY DEF MappedCollected
    <2> HIDE DEF MappedCollected
    <2> QED BY <2>1, <2>2, <2>3
  <1>6. MappedVault' = MappedVault - pay
    <2>1. betVault \in [Markets -> Nat] /\ MappedVault \in Nat
      BY VaultIsSum, SumType, MarketsFinite DEF MarketInv, MarketType
    <2>2. \A q \in Markets \ {k} : betVault'[q] = betVault[q]
      BY <1>1, <2>1
    <2>3. betVault'[k] - betVault[k] = -pay
      BY <1>1, <2>1
    <2>4. MappedVault' = MappedVault + (betVault'[k] - betVault[k])
      BY <2>2, VaultMoves
    <2> QED BY <1>1, <2>1, <2>3, <2>4
  <1> QED BY <1>1, <1>2, <1>3, <1>4, <1>5, <1>6
          DEF Bets!Collect, MappedWager, MappedVerdict, MappedCollected, MappedVault

LEMMA MarketStillMaps ==
  ASSUME MarketInv,
         \/ \E k \in Markets, key \in Judges : open_market(key, k) \/ set_judge(k, key)
         \/ UNCHANGED marketVars
  PROVE  UNCHANGED Bets!betVars
  <1>1. UNCHANGED <<winner, bet, wallet, betVault>>
    BY DEF open_market, set_judge, marketVars
  <1>2. MappedVerdict' = MappedVerdict
    <2>1. \A k \in Markets : market'[k] = "Settled" <=> market[k] = "Settled"
      BY DEF open_market, set_judge, marketVars, MarketInv, MarketType
    <2> QED BY <1>1, <2>1 DEF MappedVerdict
  <1>3. MappedWager' = MappedWager /\ MappedCollected' = MappedCollected
    BY <1>1 DEF MappedWager, MappedCollected
  <1>4. MappedVault' = MappedVault
    <2>1. MappedVault = SumOver(betVault, Markets) /\ MappedVault' = SumOver(betVault', Markets)
      BY VaultIsSum, VaultIsSumNext
    <2> QED BY <1>1, <2>1
  <1> QED BY <1>1, <1>2, <1>3, <1>4
          DEF Bets!betVars, MappedWager, MappedVerdict, MappedCollected, MappedVault

LEMMA MarketNextMaps ==
  MarketInv /\ MarketInv' /\ [MarketNext]_marketVars => [Bets!Next]_(Bets!betVars)
  <1> SUFFICES ASSUME MarketInv, MarketInv', [MarketNext]_marketVars
               PROVE  [Bets!Next]_(Bets!betVars)
    OBVIOUS
  <1>1. ASSUME NEW b \in Bettors, NEW k \in Markets, NEW racer \in 0..NumRacers,
               NEW amount \in 0..Purse, NEW human \in Nullifiers, place_bet(b, k, racer, amount, human)
        PROVE  Bets!Next
    BY <1>1, BackMaps DEF Bets!Next
  <1>2. ASSUME NEW signer \in Judges, NEW k \in Markets, NEW verdict \in 0..NumRacers,
               settle_market(signer, k, verdict)
        PROVE  Bets!Next
    BY <1>2, DecideMaps DEF Bets!Next
  <1>3. ASSUME NEW b \in Bettors, NEW k \in Markets, claim(b, k)
        PROVE  Bets!Next
    BY <1>3, CollectMaps DEF Bets!Next
  <1> QED BY <1>1, <1>2, <1>3, MarketStillMaps DEF MarketNext

(* The market keeps BetPool's promise for any number of markets, racers    *)
(* and bettors: every backer of the winner is paid once, the share of the  *)
(* pot the bet has in the winner's backing, whatever the escrow does.      *)
THEOREM MarketRefinement == Spec => ImplementsBetPool
  <1>1. Init => MarketInv /\ Bets!Init
    BY MarketInitInv, MarketInitMaps DEF Init
  <1>2. MarketInv /\ [Next]_vars => MarketInv'
    BY MarketNextInv, ProgramSteps
  <1>3. MarketInv /\ MarketInv' /\ [Next]_vars => [Bets!Next]_(Bets!betVars)
    BY MarketNextMaps, ProgramSteps
  <1> QED BY <1>1, <1>2, <1>3, PTL DEF Spec, ImplementsBetPool, Bets!Spec
-----------------------------------------------------------------------------
(* The escrow's inductive invariant. *)

EscrowType ==
  /\ status \in [RaceId -> {"None", "Created", "Joined", "Locked", "Started", "Finished",
                            "Settled", "Canceled"}]
  /\ entrant \in [RaceId -> [Slot -> Drivers \cup {NoDriver}]]
  /\ joined \in [RaceId -> [Slot -> BOOLEAN]]
  /\ winner_slot \in [RaceId -> Slot]
  /\ fees_collected \in [RaceId -> Nat]
  /\ next_race_id \in 0..MaxRaces
  /\ total_fees_collected \in Nat
  /\ token \in [TokenAccounts -> Nat]
  /\ vault \in [RaceId -> Nat]
  /\ treasury \in Nat

(* A slot has a driver when it is joined; nobody joins a race that is not  *)
(* open, and a race is locked, run and settled with both slots taken.      *)
EntriesSound(r) ==
  /\ \A s \in Slot : joined[r][s] <=> entrant[r][s] # NoDriver
  /\ status[r] = "None" => \A s \in Slot : ~joined[r][s]
  /\ status[r] \in {"Locked", "Started", "Finished", "Settled"} => \A s \in Slot : joined[r][s]

VaultSound(r) == vault[r] = Held(r, 0) + Held(r, 1)

RacesInOrder == \A r \in RaceId : status[r] = "None" <=> r >= next_race_id

FeesSound ==
  /\ treasury = total_fees_collected
  /\ total_fees_collected = SumOver(fees_collected, RaceId)

(* The vaults are exact only because the slots are: cancel pays back what  *)
(* is joined, settle twice the stake.                                      *)
EscrowInv ==
  /\ EscrowType /\ RacesInOrder /\ FeesSound
  /\ \A r \in RaceId : EntriesSound(r) /\ VaultSound(r)
-----------------------------------------------------------------------------
LEMMA RacesFinite == IsFiniteSet(RaceId)
  BY SolanaAssumption, FS_Interval DEF RaceId

LEMMA FeesAreSum == MapThenSumSet(LAMBDA r : fees_collected[r], RaceId) = SumOver(fees_collected, RaceId)
  BY DEF SumOver

LEMMA EscrowExact == EscrowInv => VaultsExact
  BY FeesAreSum DEF EscrowInv, FeesSound, VaultSound, VaultsExact

LEMMA HeldType == \A r \in RaceId, s \in Slot : Held(r, s) \in {0, Stake} /\ RefundDue(r, s) \in {0, Stake}
  BY DEF Held, RefundDue

LEMMA EscrowInitInv == EscrowInit => EscrowInv
  <1> SUFFICES ASSUME EscrowInit PROVE EscrowInv
    OBVIOUS
  <1>1. EscrowType
    BY SolanaAssumption DEF EscrowInit, EscrowType, Slot
  <1>2. RacesInOrder
    BY SolanaAssumption DEF EscrowInit, RacesInOrder, RaceId
  <1>3. FeesSound
    <2>1. \A r \in RaceId : fees_collected[r] = 0
      BY DEF EscrowInit
    <2>2. SumOver(fees_collected, RaceId) = 0
      BY <2>1, SumZero, RacesFinite
    <2> QED BY <2>2 DEF EscrowInit, FeesSound
  <1>4. \A r \in RaceId : EntriesSound(r)
    BY SolanaAssumption DEF EscrowInit, EntriesSound
  <1>5. \A r \in RaceId : VaultSound(r)
    BY DEF EscrowInit, VaultSound, Held
  <1> QED BY <1>1, <1>2, <1>3, <1>4, <1>5 DEF EscrowInv

(* A race whose accounts a step leaves alone stays sound.                  *)
LEMMA RaceKept ==
  ASSUME NEW r \in RaceId, EntriesSound(r), VaultSound(r),
         UNCHANGED <<status[r], entrant[r], joined[r], vault[r]>>
  PROVE  EntriesSound(r)' /\ VaultSound(r)'
  <1>1. Held(r, 0)' = Held(r, 0) /\ Held(r, 1)' = Held(r, 1)
    BY DEF Held, RefundDue
  <1> QED BY <1>1 DEF EntriesSound, VaultSound

LEMMA OpenRaceInv ==
  ASSUME EscrowInv, NEW signer \in Facilitators, NEW r \in RaceId, open_race(signer, r)
  PROVE  EscrowInv'
  <1>1. /\ r = next_race_id /\ status' = [status EXCEPT ![r] = "Created"] /\ next_race_id' = r + 1
        /\ UNCHANGED <<entrant, joined, winner_slot, fees_collected, total_fees_collected,
                       token, vault, treasury>>
    BY DEF open_race
  <1>2. status[r] = "None"
    BY <1>1 DEF EscrowInv, RacesInOrder, RaceId
  <1>3. EscrowType'
    BY <1>1, SolanaAssumption DEF EscrowInv, EscrowType, RaceId
  <1>4. RacesInOrder'
    BY <1>1 DEF EscrowInv, EscrowType, RacesInOrder, RaceId
  <1>5. FeesSound'
    BY <1>1 DEF EscrowInv, FeesSound
  <1>6. ASSUME NEW q \in RaceId PROVE EntriesSound(q)' /\ VaultSound(q)'
    <2>1. CASE q = r
      <3>1. status'[r] = "Created" /\ \A s \in Slot : ~joined[r][s]
        BY <1>1, <1>2 DEF EscrowInv, EscrowType, EntriesSound
      <3>2. EntriesSound(r)'
        BY <1>1, <3>1 DEF EscrowInv, EntriesSound
      <3>3. VaultSound(r)'
        <4>1. Held(r, 0) = 0 /\ Held(r, 1) = 0
          BY <1>2 DEF Held
        <4>2. Held(r, 0)' = 0 /\ Held(r, 1)' = 0
          BY <1>1, <3>1 DEF Held, RefundDue, Slot
        <4> QED BY <1>1, <4>1, <4>2 DEF EscrowInv, VaultSound
      <3> QED BY <2>1, <3>2, <3>3
    <2>2. CASE q # r
      <3>1. status'[q] = status[q]
        BY <1>1, <2>2 DEF EscrowInv, EscrowType
      <3> QED BY <1>1, <3>1, RaceKept DEF EscrowInv
    <2> QED BY <2>1, <2>2
  <1> QED BY <1>3, <1>4, <1>5, <1>6 DEF EscrowInv

(* What joining needs and changes. *)
Joins(driver, from, r, s) ==
  /\ status[r] \in {"Created", "Joined"} /\ ~joined[r][s] /\ entrant[r][s] = NoDriver
  /\ s = 1 => driver # entrant[r][0]
  /\ Owner[from] = driver /\ driver # NoDriver /\ Stake + Fee <= token[from]
  /\ status' = [status EXCEPT ![r] = IF joined[r][1 - s] THEN "Joined" ELSE @]
  /\ status'[r] \in {"Created", "Joined"}
  /\ \A t \in Slot : /\ joined'[r][t] <=> t = s \/ joined[r][t]
                     /\ entrant'[r][t] = IF t = s THEN driver ELSE entrant[r][t]
  /\ \A q \in RaceId \ {r} : /\ status'[q] = status[q] /\ vault'[q] = vault[q]
                             /\ entrant'[q] = entrant[q] /\ joined'[q] = joined[q]
                             /\ fees_collected'[q] = fees_collected[q]
  /\ vault' = [vault EXCEPT ![r] = @ + Stake]
  /\ token' = [token EXCEPT ![from] = @ - (Stake + Fee)]

LEMMA Joining ==
  ASSUME EscrowInv, NEW driver \in Drivers, NEW from \in TokenAccounts, NEW r \in RaceId,
         NEW s \in Slot, join_race(driver, from, r, s)
  PROVE  Joins(driver, from, r, s)
  <1>1. /\ status \in [RaceId -> {"None", "Created", "Joined", "Locked", "Started", "Finished",
                                  "Settled", "Canceled"}]
        /\ entrant \in [RaceId -> [Slot -> Drivers \cup {NoDriver}]]
        /\ joined \in [RaceId -> [Slot -> BOOLEAN]]
        /\ vault \in [RaceId -> Nat] /\ fees_collected \in [RaceId -> Nat]
    BY DEF EscrowInv, EscrowType
  <1>2. /\ status[r] \in {"Created", "Joined"} /\ ~joined[r][s]
        /\ s = 1 => driver # entrant[r][0]
        /\ Owner[from] = driver /\ Stake + Fee <= token[from]
        /\ status' = [status EXCEPT ![r] = IF joined[r][1 - s] THEN "Joined" ELSE @]
        /\ joined' = [joined EXCEPT ![r][s] = TRUE]
        /\ entrant' = [entrant EXCEPT ![r][s] = driver]
        /\ vault' = [vault EXCEPT ![r] = @ + Stake]
        /\ token' = [token EXCEPT ![from] = @ - (Stake + Fee)]
        /\ fees_collected' = [fees_collected EXCEPT ![r] = @ + Fee]
    BY DEF join_race, SlotOpenTo
  <1>3. entrant[r][s] = NoDriver /\ driver # NoDriver
    BY <1>2, SolanaAssumption DEF EscrowInv, EntriesSound
  <1>4. status'[r] \in {"Created", "Joined"}
    BY <1>1, <1>2
  <1>5. \A t \in Slot : /\ joined'[r][t] <=> t = s \/ joined[r][t]
                        /\ entrant'[r][t] = IF t = s THEN driver ELSE entrant[r][t]
    BY <1>1, <1>2
  <1>6. \A q \in RaceId \ {r} : /\ status'[q] = status[q] /\ vault'[q] = vault[q]
                                /\ entrant'[q] = entrant[q] /\ joined'[q] = joined[q]
                                /\ fees_collected'[q] = fees_collected[q]
    BY <1>1, <1>2
  <1> QED BY <1>2, <1>3, <1>4, <1>5, <1>6 DEF Joins

(* One slot more is held, and no other. *)
LEMMA JoinHeld ==
  ASSUME EscrowInv, NEW driver \in Drivers, NEW from \in TokenAccounts, NEW r \in RaceId,
         NEW s \in Slot, join_race(driver, from, r, s)
  PROVE  /\ \A t \in Slot : Held(r, t)' = IF t = s THEN Stake ELSE Held(r, t)
         /\ \A q \in RaceId \ {r}, t \in Slot : Held(q, t)' = Held(q, t)
         /\ Held(r, s) = 0 /\ Held(r, 1 - s) \in {0, Stake}
  <1>1. /\ status[r] \in {"Created", "Joined"} /\ ~joined[r][s]
        /\ status'[r] \in {"Created", "Joined"}
        /\ \A t \in Slot : joined'[r][t] <=> t = s \/ joined[r][t]
        /\ \A q \in RaceId \ {r} : status'[q] = status[q] /\ joined'[q] = joined[q]
    BY Joining DEF Joins
  <1>2. \A t \in Slot : Held(r, t)' = IF t = s THEN Stake ELSE Held(r, t)
    BY <1>1 DEF Held, RefundDue
  <1>3. \A q \in RaceId \ {r}, t \in Slot : Held(q, t)' = Held(q, t)
    BY <1>1 DEF Held, RefundDue
  <1>4. Held(r, s) = 0
    BY <1>1 DEF Held, RefundDue
  <1>5. 1 - s \in Slot
    BY DEF Slot
  <1> QED BY <1>2, <1>3, <1>4, <1>5, HeldType

LEMMA JoinRaceInv ==
  ASSUME EscrowInv, NEW driver \in Drivers, NEW from \in TokenAccounts, NEW r \in RaceId,
         NEW s \in Slot, join_race(driver, from, r, s)
  PROVE  EscrowInv'
  <1>1. Joins(driver, from, r, s)
    BY Joining
  <1>2. /\ status' = [status EXCEPT ![r] = IF joined[r][1 - s] THEN "Joined" ELSE @]
        /\ joined' = [joined EXCEPT ![r][s] = TRUE]
        /\ entrant' = [entrant EXCEPT ![r][s] = driver]
        /\ fees_collected' = [fees_collected EXCEPT ![r] = @ + Fee]
        /\ total_fees_collected' = total_fees_collected + Fee
        /\ treasury' = treasury + Fee
        /\ UNCHANGED <<winner_slot, next_race_id>>
    BY DEF join_race
  <1>3. EscrowType'
    <2>1. /\ status' \in [RaceId -> {"None", "Created", "Joined", "Locked", "Started", "Finished",
                                     "Settled", "Canceled"}]
          /\ joined' \in [RaceId -> [Slot -> BOOLEAN]]
      BY <1>2 DEF EscrowInv, EscrowType
    <2>2. entrant' \in [RaceId -> [Slot -> Drivers \cup {NoDriver}]]
      BY <1>2 DEF EscrowInv, EscrowType
    <2>3. /\ fees_collected' \in [RaceId -> Nat] /\ total_fees_collected' \in Nat /\ treasury' \in Nat
      BY <1>2, SolanaAssumption DEF EscrowInv, EscrowType
    <2>4. token' \in [TokenAccounts -> Nat] /\ vault' \in [RaceId -> Nat]
      BY <1>1, SolanaAssumption DEF EscrowInv, EscrowType, Joins
    <2> QED BY <1>2, <2>1, <2>2, <2>3, <2>4 DEF EscrowInv, EscrowType
  <1>4. RacesInOrder'
    <2>1. \A q \in RaceId : status'[q] = "None" <=> status[q] = "None"
      BY <1>1 DEF Joins
    <2> QED BY <1>2, <2>1 DEF EscrowInv, RacesInOrder
  <1>5. FeesSound'
    <2> DEFINE g == fees_collected
               h == fees_collected'
    <2>1. \A q \in RaceId : g[q] \in Nat /\ h[q] \in Nat
      BY <1>3 DEF EscrowInv, EscrowType
    <2>2. \A q \in RaceId \ {r} : h[q] = g[q]
      BY <1>1 DEF Joins
    <2>3. h[r] - g[r] = Fee
      BY <1>2, SolanaAssumption DEF EscrowInv, EscrowType
    <2>4. total_fees_collected = SumOver(g, RaceId) /\ treasury = total_fees_collected
      BY DEF EscrowInv, FeesSound
    <2> HIDE DEF g, h
    <2>5. SumOver(h, RaceId) - SumOver(g, RaceId) = h[r] - g[r]
      BY <2>1, <2>2, RacesFinite, SumUpdate
    <2>6. SumOver(h, RaceId) \in Nat /\ SumOver(g, RaceId) \in Nat
      BY <2>1, SumType, RacesFinite
    <2>7. total_fees_collected' = SumOver(h, RaceId) /\ treasury' = total_fees_collected'
      BY <1>2, <2>3, <2>4, <2>5, <2>6, SolanaAssumption
    <2> QED BY <2>7 DEF FeesSound, h
  <1>6. ASSUME NEW q \in RaceId PROVE EntriesSound(q)' /\ VaultSound(q)'
    <2>1. CASE q = r
      <3>1. EntriesSound(r)'
        <4>1. status'[r] \in {"Created", "Joined"}
          BY <1>1 DEF Joins
        <4>2. \A t \in Slot : joined'[r][t] <=> entrant'[r][t] # NoDriver
          BY <1>1 DEF EscrowInv, EntriesSound, Joins
        <4> QED BY <4>1, <4>2 DEF EntriesSound
      <3>2. VaultSound(r)'
        <4>1. vault[r] = Held(r, 0) + Held(r, 1) /\ vault[r] \in Nat
          BY DEF EscrowInv, EscrowType, VaultSound
        <4>2. /\ \A t \in Slot : Held(r, t)' = IF t = s THEN Stake ELSE Held(r, t)
              /\ Held(r, s) = 0
          BY JoinHeld
        <4>3. vault'[r] = vault[r] + Stake
          BY <1>1 DEF EscrowInv, EscrowType, Joins
        <4>4. s \in {0, 1} /\ 0 \in Slot /\ 1 \in Slot
          BY DEF Slot
        <4>5. Held(r, 0) \in Nat /\ Held(r, 1) \in Nat
          BY <4>4, HeldType, SolanaAssumption
        <4>6. vault'[r] = Held(r, 0)' + Held(r, 1)'
          BY <4>1, <4>2, <4>3, <4>4, <4>5, SolanaAssumption
        <4> QED BY <4>6 DEF VaultSound
      <3> QED BY <2>1, <3>1, <3>2
    <2>2. CASE q # r
      BY <1>1, <2>2, RaceKept DEF EscrowInv, Joins
    <2> QED BY <2>1, <2>2
  <1> QED BY <1>3, <1>4, <1>5, <1>6 DEF EscrowInv
Statuses == {"None", "Created", "Joined", "Locked", "Started", "Finished", "Settled", "Canceled"}

(* Every other instruction on a race moves its status, its vault and some  *)
(* token accounts, and may set the winner.                                 *)
Advances(r, to, amount) ==
  /\ status' = [status EXCEPT ![r] = to]
  /\ vault' = [vault EXCEPT ![r] = @ - amount]
  /\ winner_slot' \in [RaceId -> Slot]
  /\ token' \in [TokenAccounts -> Nat]
  /\ UNCHANGED <<entrant, joined, fees_collected, next_race_id, total_fees_collected, treasury>>

LEMMA AdvanceInv ==
  ASSUME EscrowInv, NEW r \in RaceId, status[r] # "None", NEW to \in Statuses \ {"None"},
         NEW amount \in Nat, Advances(r, to, amount),
         amount <= vault[r], EntriesSound(r)', VaultSound(r)'
  PROVE  EscrowInv'
  <1>1. /\ status' = [status EXCEPT ![r] = to]
        /\ vault' = [vault EXCEPT ![r] = @ - amount]
        /\ winner_slot' \in [RaceId -> Slot] /\ token' \in [TokenAccounts -> Nat]
        /\ UNCHANGED <<entrant, joined, fees_collected, next_race_id, total_fees_collected, treasury>>
    BY DEF Advances
  <1>2. EscrowType'
    BY <1>1 DEF EscrowInv, EscrowType, Statuses
  <1>3. RacesInOrder'
    <2>1. \A q \in RaceId : status'[q] = "None" <=> status[q] = "None"
      BY <1>1 DEF EscrowInv, EscrowType
    <2> QED BY <1>1, <2>1 DEF EscrowInv, RacesInOrder
  <1>4. FeesSound'
    BY <1>1 DEF EscrowInv, FeesSound
  <1>5. ASSUME NEW q \in RaceId, q # r PROVE EntriesSound(q)' /\ VaultSound(q)'
    <2>1. status'[q] = status[q] /\ vault'[q] = vault[q]
      BY <1>1, <1>5 DEF EscrowInv, EscrowType
    <2> QED BY <1>1, <2>1, RaceKept DEF EscrowInv
  <1> QED BY <1>2, <1>3, <1>4, <1>5 DEF EscrowInv

(* Locking, starting and finishing move no money. *)
LEMMA RunInv ==
  ASSUME EscrowInv, NEW signer \in Facilitators, NEW r \in RaceId,
         \/ lock_race(signer, r)
         \/ start_race(signer, r)
         \/ \E slot \in 0..2 : finish_race(signer, r, slot)
  PROVE  /\ EscrowInv'
         /\ \A q \in RaceId, s \in Slot : Held(q, s)' = Held(q, s)
         /\ UNCHANGED <<token, vault>>
  <1> DEFINE to == status'[r]
  <1>1. /\ status[r] \in {"Joined", "Locked", "Started"} /\ \A s \in Slot : joined[r][s]
        /\ to \in {"Locked", "Started", "Finished"}
        /\ status' = [status EXCEPT ![r] = to]
        /\ UNCHANGED <<entrant, joined, fees_collected, next_race_id, total_fees_collected,
                       token, vault, treasury>>
    <2>1. /\ status \in [RaceId -> Statuses]
          /\ status[r] \in {"Locked", "Started"} => \A s \in Slot : joined[r][s]
      BY DEF EscrowInv, EscrowType, EntriesSound, Statuses
    <2>2. CASE lock_race(signer, r)
      BY <2>1, <2>2 DEF lock_race, Advanced
    <2>3. CASE start_race(signer, r)
      BY <2>1, <2>3 DEF start_race, Advanced
    <2>4. CASE \E slot \in 0..2 : finish_race(signer, r, slot)
      BY <2>1, <2>4 DEF finish_race, Advanced
    <2> QED BY <2>2, <2>3, <2>4
  <1> HIDE DEF to
  <1>2. winner_slot' \in [RaceId -> Slot]
    BY DEF lock_race, start_race, finish_race, EscrowInv, EscrowType, Slot
  <1>3. vault \in [RaceId -> Nat] /\ token \in [TokenAccounts -> Nat] /\ status'[r] = to
    BY DEF EscrowInv, EscrowType, to
  <1>4. Advances(r, to, 0)
    <2>1. vault' = [vault EXCEPT ![r] = @ - 0]
      BY <1>1, <1>3
    <2> QED BY <1>1, <1>2, <1>3, <2>1 DEF Advances
  <1>5. \A q \in RaceId, s \in Slot : Held(q, s)' = Held(q, s)
    <2> SUFFICES ASSUME NEW q \in RaceId, NEW s \in Slot PROVE Held(q, s)' = Held(q, s)
      OBVIOUS
    <2>1. CASE q = r
      BY <1>1, <1>3, <2>1 DEF Held, RefundDue
    <2>2. CASE q # r
      <3>1. status'[q] = status[q]
        BY <1>1, <2>2 DEF EscrowInv, EscrowType
      <3> QED BY <1>1, <3>1 DEF Held, RefundDue
    <2> QED BY <2>1, <2>2
  <1>6. EntriesSound(r)' /\ VaultSound(r)'
    <2>1. EntriesSound(r)'
      BY <1>1, <1>3 DEF EscrowInv, EntriesSound
    <2>2. 0 \in Slot /\ 1 \in Slot
      BY DEF Slot
    <2>3. VaultSound(r)'
      BY <1>1, <1>5, <2>2 DEF EscrowInv, VaultSound
    <2> QED BY <2>1, <2>3
  <1>7. EscrowInv'
    <2>1. to \in Statuses \ {"None"} /\ status[r] # "None"
      BY <1>1 DEF Statuses
    <2>2. 0 \in Nat /\ 0 <= vault[r]
      BY <1>3
    <2> QED BY <1>4, <1>6, <2>1, <2>2, AdvanceInv
  <1> QED BY <1>1, <1>5, <1>7

(* Settling empties the vault of a full race. *)
LEMMA SettleRaceInv ==
  ASSUME EscrowInv, NEW signer \in Facilitators, NEW r \in RaceId, NEW account \in TokenAccounts,
         settle_race(signer, r, account)
  PROVE  /\ EscrowInv'
         /\ \A s \in Slot : Held(r, s) = Stake /\ Held(r, s)' = 0
         /\ \A q \in RaceId \ {r}, s \in Slot : Held(q, s)' = Held(q, s)
  <1>1. /\ status[r] = "Finished" /\ 2 * Stake <= vault[r]
        /\ status' = [status EXCEPT ![r] = "Settled"]
        /\ token' = [token EXCEPT ![account] = @ + 2 * Stake]
        /\ vault' = [vault EXCEPT ![r] = @ - 2 * Stake]
        /\ UNCHANGED <<entrant, joined, winner_slot, fees_collected, next_race_id,
                       total_fees_collected, treasury>>
    BY DEF settle_race, Advanced
  <1>2. /\ status \in [RaceId -> Statuses] /\ vault \in [RaceId -> Nat]
        /\ token \in [TokenAccounts -> Nat] /\ winner_slot \in [RaceId -> Slot]
        /\ \A s \in Slot : joined[r][s]
        /\ vault[r] = Held(r, 0) + Held(r, 1)
    BY <1>1 DEF EscrowInv, EscrowType, EntriesSound, VaultSound, Statuses
  <1>3. \A s \in Slot : Held(r, s) = Stake /\ Held(r, s)' = 0
    BY <1>1, <1>2 DEF Held, RefundDue
  <1>4. \A q \in RaceId \ {r}, s \in Slot : Held(q, s)' = Held(q, s)
    BY <1>1, <1>2 DEF Held, RefundDue
  <1>5. 0 \in Slot /\ 1 \in Slot /\ Stake \in Nat
    BY SolanaAssumption DEF Slot
  <1>6. Advances(r, "Settled", 2 * Stake)
    <2>1. token' \in [TokenAccounts -> Nat]
      BY <1>1, <1>2, <1>5
    <2> QED BY <1>1, <1>2, <2>1 DEF Advances
  <1>7. EntriesSound(r)'
    BY <1>1, <1>2 DEF EscrowInv, EntriesSound
  <1>8. VaultSound(r)'
    <2>1. vault'[r] = 0
      BY <1>1, <1>2, <1>3, <1>5
    <2> QED BY <1>3, <1>5, <2>1 DEF VaultSound
  <1>9. EscrowInv'
    <2>1. "Settled" \in Statuses \ {"None"} /\ status[r] # "None"
      BY <1>1 DEF Statuses
    <2>2. 2 * Stake \in Nat
      BY <1>5
    <2> QED BY <1>1, <1>6, <1>7, <1>8, <2>1, <2>2, AdvanceInv
  <1> QED BY <1>3, <1>4, <1>9
(* A token account after amount x is paid into it. *)
Paid(u, a, x) == [u EXCEPT ![a] = @ + x]

LEMMA PaidType ==
  ASSUME NEW u \in [TokenAccounts -> Nat], NEW a \in TokenAccounts, NEW x \in Nat
  PROVE  /\ Paid(u, a, x) \in [TokenAccounts -> Nat]
         /\ \A c \in TokenAccounts : Paid(u, a, x)[c] = u[c] + (IF a = c THEN x ELSE 0)
  BY DEF Paid

(* What cancel pays into one account is what is due for the slots that     *)
(* name it.                                                                *)
LEMMA RefundSum ==
  ASSUME NEW r \in RaceId, NEW to \in [Slot -> TokenAccounts], NEW a \in TokenAccounts
  PROVE  MapThenSumSet(LAMBDA s : RefundDue(r, s), {s \in Slot : to[s] = a})
           = (IF to[0] = a THEN RefundDue(r, 0) ELSE 0) + (IF to[1] = a THEN RefundDue(r, 1) ELSE 0)
  <1> DEFINE S == {s \in Slot : to[s] = a}
             g == [s \in Slot |-> IF to[s] = a THEN RefundDue(r, s) ELSE 0]
             P(f) == f = [T \in SUBSET S |->
                            IF T = {} THEN 0 ELSE RefundDue(r, Pick(T)) + f[T \ {Pick(T)}]]
             own == CHOOSE f : P(f)
  <1>1. MapThenSumSet(LAMBDA s : RefundDue(r, s), S) = own[S]
    BY Zenon DEF MapThenSumSet, MapThenFoldSet, Pick
  <1>2. \A T \in SUBSET S : T # {} => RefundDue(r, Pick(T)) = g[Pick(T)]
    BY PickIn
  <1>3. 0 \in Slot /\ 1 \in Slot /\ Slot = {0, 1} /\ IsFiniteSet(Slot) /\ S \in SUBSET Slot
    <2>1. Slot = {0, 1}
      BY DEF Slot
    <2>2. 0 \in Int /\ 1 \in Int
      OBVIOUS
    <2>3. IsFiniteSet(0..1)
      BY <2>2, FS_Interval, Zenon
    <2> QED BY <2>1, <2>3 DEF Slot
  <1>4. \A s \in Slot : g[s] \in Nat
    <2>1. Stake \in Nat
      BY SolanaAssumption
    <2> QED BY <2>1, HeldType
  <1>5. \A s \in Slot \ S : g[s] = 0
    OBVIOUS
  <1>6. g[0] = (IF to[0] = a THEN RefundDue(r, 0) ELSE 0)
        /\ g[1] = (IF to[1] = a THEN RefundDue(r, 1) ELSE 0)
    BY <1>3
  <1> HIDE DEF g, S
  <1>7. IsFiniteSet(S)
    BY <1>3, FS_Subset
  <1>8. \A f : P(f) <=> IsFold(f, g, S)
    <2> SUFFICES ASSUME NEW f
                 PROVE  [T \in SUBSET S |-> IF T = {} THEN 0 ELSE RefundDue(r, Pick(T)) + f[T \ {Pick(T)}]]
                      = [T \in SUBSET S |-> IF T = {} THEN 0 ELSE g[Pick(T)] + f[T \ {Pick(T)}]]
      BY DEF IsFold
    <2> HIDE DEF P, own
    <2> QED BY <1>2
  <1>9. \E f : P(f)
    BY <1>7, <1>8, FoldExists
  <1>10. P(own)
    BY <1>9, Zenon
  <1> HIDE DEF P, own
  <1>11. own[S] = SumOver(g, S)
    <2>1. IsFold(own, g, S)
      BY <1>8, <1>10
    <2> QED BY <1>7, <2>1, SumIsFold
  <1>12. SumOver(g, S) = SumOver(g, Slot)
    BY <1>3, <1>4, <1>5, SumSubset
  <1>13. SumOver(g, Slot) = g[0] + g[1]
    <2>1. SumOver(g, Slot) = g[0] + SumOver(g, Slot \ {0})
      BY <1>3, <1>4, SumRemove
    <2>2. Slot \ {0} = {1} /\ {1} \ {1} = {} /\ IsFiniteSet({1})
      BY <1>3, FS_Singleton
    <2>3. SumOver(g, {1}) = g[1] + SumOver(g, {1} \ {1})
      <3>1. \A x \in {1} : g[x] \in Nat
        BY <1>3, <1>4
      <3> QED BY <2>2, <3>1, SumRemove
    <2>4. SumOver(g, {}) = 0
      BY SumEmpty
    <2>5. g[0] \in Nat /\ g[1] \in Nat
      BY <1>3, <1>4
    <2>6. SumOver(g, Slot \ {0}) = SumOver(g, {1}) /\ SumOver(g, {1} \ {1}) = SumOver(g, {})
      BY <2>2, Zenon
    <2> QED BY <2>1, <2>3, <2>4, <2>5, <2>6
  <1>14. own[S] = (IF to[0] = a THEN RefundDue(r, 0) ELSE 0) + (IF to[1] = a THEN RefundDue(r, 1) ELSE 0)
    BY <1>6, <1>11, <1>12, <1>13
  <1> QED BY <1>1, <1>14, Zenon DEF S

(* Cancelling pays each joined slot's stake into the account named for it. *)
LEMMA CancelPays ==
  ASSUME EscrowInv, NEW signer \in Facilitators, NEW r \in RaceId,
         NEW to \in [Slot -> TokenAccounts], cancel_race(signer, r, to)
  PROVE  token' = Paid(Paid(token, to[0], RefundDue(r, 0)), to[1], RefundDue(r, 1))
  <1> DEFINE once == Paid(token, to[0], RefundDue(r, 0))
             twice == Paid(once, to[1], RefundDue(r, 1))
             due(a) == MapThenSumSet(LAMBDA s : RefundDue(r, s), {s \in Slot : to[s] = a})
  <1>1. token' = [a \in TokenAccounts |-> token[a] + due(a)]
    BY DEF cancel_race
  <1>2. \A a \in TokenAccounts :
          due(a) = (IF to[0] = a THEN RefundDue(r, 0) ELSE 0) + (IF to[1] = a THEN RefundDue(r, 1) ELSE 0)
    BY RefundSum
  <1>3. /\ token \in [TokenAccounts -> Nat] /\ to[0] \in TokenAccounts /\ to[1] \in TokenAccounts
        /\ RefundDue(r, 0) \in Nat /\ RefundDue(r, 1) \in Nat
    <2>1. 0 \in Slot /\ 1 \in Slot
      BY DEF Slot
    <2>2. \A s \in Slot : RefundDue(r, s) \in {0, Stake}
      BY HeldType
    <2>3. Stake \in Nat
      BY SolanaAssumption
    <2>4. token \in [TokenAccounts -> Nat]
      BY DEF EscrowInv, EscrowType
    <2> QED BY <2>1, <2>2, <2>3, <2>4
  <1> HIDE DEF due
  <1>4. /\ once \in [TokenAccounts -> Nat]
        /\ \A a \in TokenAccounts : once[a] = token[a] + (IF to[0] = a THEN RefundDue(r, 0) ELSE 0)
    BY <1>3, PaidType
  <1> HIDE DEF once
  <1>5. /\ twice \in [TokenAccounts -> Nat]
        /\ \A a \in TokenAccounts : twice[a] = once[a] + (IF to[1] = a THEN RefundDue(r, 1) ELSE 0)
    <2> DEFINE x == RefundDue(r, 1)
    <2>1. once \in [TokenAccounts -> Nat] /\ to[1] \in TokenAccounts /\ x \in Nat
      BY <1>3, <1>4
    <2>2. twice = Paid(once, to[1], x)
      OBVIOUS
    <2> HIDE DEF x, twice
    <2>3. /\ Paid(once, to[1], x) \in [TokenAccounts -> Nat]
          /\ \A a \in TokenAccounts :
               Paid(once, to[1], x)[a] = once[a] + (IF to[1] = a THEN x ELSE 0)
      BY <2>1, PaidType
    <2> QED BY <2>2, <2>3 DEF x
  <1> HIDE DEF twice
  <1>6. \A a \in TokenAccounts : twice[a] = token[a] + due(a)
    BY <1>2, <1>3, <1>4, <1>5
  <1>7. twice = [a \in TokenAccounts |-> token[a] + due(a)]
    BY <1>5, <1>6
  <1> QED BY <1>1, <1>7 DEF twice, once

LEMMA CancelRaceInv ==
  ASSUME EscrowInv, NEW signer \in Facilitators, NEW r \in RaceId,
         NEW to \in [Slot -> TokenAccounts], cancel_race(signer, r, to)
  PROVE  /\ EscrowInv'
         /\ \A s \in Slot : Held(r, s) = RefundDue(r, s) /\ Held(r, s)' = 0
         /\ \A q \in RaceId \ {r}, s \in Slot : Held(q, s)' = Held(q, s)
  <1> DEFINE due == RefundDue(r, 0) + RefundDue(r, 1)
  <1>1. /\ status[r] \in {"Created", "Joined", "Locked", "Started"}
        /\ status' = [status EXCEPT ![r] = "Canceled"]
        /\ vault' = [vault EXCEPT ![r] = @ - due]
        /\ UNCHANGED <<entrant, joined, winner_slot, fees_collected, next_race_id,
                       total_fees_collected, treasury>>
    BY DEF cancel_race, Advanced, Cancelable
  <1>2. /\ status \in [RaceId -> Statuses] /\ vault \in [RaceId -> Nat]
        /\ token \in [TokenAccounts -> Nat] /\ winner_slot \in [RaceId -> Slot]
        /\ vault[r] = Held(r, 0) + Held(r, 1)
    BY DEF EscrowInv, EscrowType, VaultSound, Statuses
  <1>3. \A s \in Slot : Held(r, s) = RefundDue(r, s) /\ Held(r, s)' = 0
    BY <1>1, <1>2 DEF Held
  <1>4. \A q \in RaceId \ {r}, s \in Slot : Held(q, s)' = Held(q, s)
    BY <1>1, <1>2 DEF Held, RefundDue
  <1>5. 0 \in Slot /\ 1 \in Slot /\ RefundDue(r, 0) \in Nat /\ RefundDue(r, 1) \in Nat
    <2>1. 0 \in Slot /\ 1 \in Slot /\ Stake \in Nat
      BY SolanaAssumption DEF Slot
    <2> QED BY <2>1, HeldType
  <1>6. due \in Nat /\ due = vault[r]
    BY <1>2, <1>3, <1>5
  <1> HIDE DEF due
  <1>7. Advances(r, "Canceled", due)
    <2>1. to[0] \in TokenAccounts /\ to[1] \in TokenAccounts
      BY <1>5
    <2>2. Paid(token, to[0], RefundDue(r, 0)) \in [TokenAccounts -> Nat]
      BY <1>2, <1>5, <2>1, PaidType
    <2>3. Paid(Paid(token, to[0], RefundDue(r, 0)), to[1], RefundDue(r, 1)) \in [TokenAccounts -> Nat]
      BY <1>5, <2>1, <2>2, PaidType
    <2>4. token' \in [TokenAccounts -> Nat]
      BY <2>3, CancelPays
    <2> QED BY <1>1, <1>2, <2>4 DEF Advances
  <1>8. EntriesSound(r)'
    BY <1>1, <1>2 DEF EscrowInv, EntriesSound
  <1>9. VaultSound(r)'
    <2>1. vault'[r] = vault[r] - due /\ vault[r] \in Nat
      BY <1>1, <1>2
    <2>2. vault'[r] = 0
      BY <1>6, <2>1
    <2> QED BY <1>3, <1>5, <2>2 DEF VaultSound
  <1>10. EscrowInv'
    <2>1. "Canceled" \in Statuses \ {"None"} /\ status[r] # "None"
      BY <1>1 DEF Statuses
    <2> QED BY <1>6, <1>7, <1>8, <1>9, <2>1, AdvanceInv
  <1> QED BY <1>3, <1>4, <1>10

LEMMA EscrowStillInv ==
  ASSUME EscrowInv, (\E key \in Facilitators : set_facilitator(key)) \/ UNCHANGED escrowVars
  PROVE  EscrowInv'
  <1>1. UNCHANGED <<status, entrant, joined, winner_slot, fees_collected, next_race_id,
                    total_fees_collected, token, vault, treasury>>
    BY DEF set_facilitator, escrowVars
  <1>2. \A q \in RaceId : EntriesSound(q)' /\ VaultSound(q)'
    BY <1>1, RaceKept DEF EscrowInv
  <1> QED BY <1>1, <1>2 DEF EscrowInv, EscrowType, RacesInOrder, FeesSound

LEMMA EscrowNextInv == EscrowInv /\ [EscrowNext]_escrowVars => EscrowInv'
  <1> SUFFICES ASSUME EscrowInv, [EscrowNext]_escrowVars PROVE EscrowInv'
    OBVIOUS
  <1> QED BY OpenRaceInv, JoinRaceInv, RunInv, SettleRaceInv, CancelRaceInv, EscrowStillInv
          DEF EscrowNext

LEMMA EscrowAlways == Spec => []EscrowInv
  <1>1. Init => EscrowInv
    BY EscrowInitInv DEF Init
  <1>2. EscrowInv /\ [Next]_vars => EscrowInv'
    BY EscrowNextInv, ProgramSteps
  <1> QED BY <1>1, <1>2, PTL DEF Spec

(* Every race's vault holds exactly the open stakes of that race and the   *)
(* treasury exactly the fees counted, for any drivers, accounts and races, *)
(* whichever accounts the callers pass.                                    *)
THEOREM VaultsStayExact == Spec => []VaultsExact
  BY EscrowAlways, EscrowExact, PTL
-----------------------------------------------------------------------------
(* The escrow implements StakePool: a driver's purse is the sum over the   *)
(* driver's token accounts, the vault the sum over the races' vaults.      *)

AccountsOf(d) == {a \in TokenAccounts : Owner[a] = d}
PurseSums == [d \in Drivers |-> SumOver(token, AccountsOf(d))]

MappedPool == [r \in RaceId |-> [s \in Slot |-> Held(r, s)]]
MappedOutcome ==
  [r \in RaceId |-> CASE status[r] = "Settled" -> "paid"
                      [] status[r] = "Canceled" -> "refunded"
                      [] OTHER -> "open"]
MappedPurse ==
  [d \in Drivers |-> MapThenSumSet(LAMBDA a : token[a], {a \in TokenAccounts : Owner[a] = d})]
MappedStakes == MapThenSumSet(LAMBDA r : vault[r], RaceId)

LEMMA PurseIsSum == MappedPurse = PurseSums
  BY DEF MappedPurse, PurseSums, AccountsOf, SumOver

LEMMA PurseIsSumNext == MappedPurse' = [d \in Drivers |-> SumOver(token', AccountsOf(d))]
  <1>1. (MappedPurse = PurseSums)'
    BY PurseIsSum, PTL
  <1> QED BY <1>1 DEF PurseSums, AccountsOf

LEMMA StakesAreSum == MappedStakes = SumOver(vault, RaceId)
  BY DEF MappedStakes, SumOver

LEMMA StakesAreSumNext == MappedStakes' = SumOver(vault', RaceId)
  <1>1. (MappedStakes = SumOver(vault, RaceId))'
    BY StakesAreSum, PTL
  <1> QED BY <1>1

LEMMA AccountsFinite ==
  ASSUME NEW d
  PROVE  IsFiniteSet(AccountsOf(d)) /\ AccountsOf(d) \subseteq TokenAccounts
  BY SolanaAssumption, FS_Subset DEF AccountsOf

(* One account moves the purse of its owner and no other. *)
LEMMA OnePurse ==
  ASSUME NEW u \in [TokenAccounts -> Nat], NEW v \in [TokenAccounts -> Nat],
         NEW a \in TokenAccounts, \A c \in TokenAccounts \ {a} : v[c] = u[c], NEW d \in Drivers
  PROVE  /\ SumOver(u, AccountsOf(d)) \in Nat /\ SumOver(v, AccountsOf(d)) \in Nat
         /\ SumOver(v, AccountsOf(d)) =
              SumOver(u, AccountsOf(d)) + (IF Owner[a] = d THEN v[a] - u[a] ELSE 0)
  <1> DEFINE A == AccountsOf(d)
  <1>1. IsFiniteSet(A) /\ A \subseteq TokenAccounts
    BY AccountsFinite
  <1>2. a \in A <=> Owner[a] = d
    BY DEF AccountsOf
  <1> HIDE DEF A
  <1>3. \A c \in A : u[c] \in Nat /\ v[c] \in Nat
    BY <1>1
  <1>4. SumOver(u, A) \in Nat /\ SumOver(v, A) \in Nat
    BY <1>1, <1>3, SumType
  <1>5. CASE a \in A
    <2>1. \A c \in A \ {a} : v[c] = u[c]
      BY <1>1
    <2>2. SumOver(v, A) - SumOver(u, A) = v[a] - u[a]
      BY <1>1, <1>3, <1>5, <2>1, SumUpdate
    <2>3. v[a] \in Nat /\ u[a] \in Nat
      OBVIOUS
    <2>4. SumOver(v, A) = SumOver(u, A) + (v[a] - u[a])
      BY <1>4, <2>2, <2>3
    <2> QED BY <1>2, <1>4, <1>5, <2>4 DEF A
  <1>6. CASE a \notin A
    <2>1. \A c \in A : v[c] = u[c]
      BY <1>1, <1>6
    <2>2. SumOver(v, A) = SumOver(u, A)
      BY <1>1, <2>1, SumEqual
    <2> QED BY <1>2, <1>4, <1>6, <2>2 DEF A
  <1> QED BY <1>5, <1>6

(* One race's vault moves the sum of the vaults by as much.                *)
LEMMA StakesMove ==
  ASSUME EscrowInv, EscrowInv', NEW r \in RaceId,
         \A q \in RaceId \ {r} : vault'[q] = vault[q]
  PROVE  MappedStakes' = MappedStakes + (vault'[r] - vault[r])
  <1>1. MappedStakes = SumOver(vault, RaceId) /\ MappedStakes' = SumOver(vault', RaceId)
    BY StakesAreSum, StakesAreSumNext
  <1>2. \A q \in RaceId : vault[q] \in Nat /\ vault'[q] \in Nat
    BY DEF EscrowInv, EscrowType
  <1>3. SumOver(vault', RaceId) - SumOver(vault, RaceId) = vault'[r] - vault[r]
    BY <1>2, RacesFinite, SumUpdate
  <1>4. SumOver(vault', RaceId) \in Nat /\ SumOver(vault, RaceId) \in Nat
    BY <1>2, SumType, RacesFinite
  <1> QED BY <1>1, <1>2, <1>3, <1>4

LEMMA PoolInitMaps == EscrowInit => Pool!Init
  <1> SUFFICES ASSUME EscrowInit PROVE Pool!Init
    OBVIOUS
  <1>1. MappedPool = [r \in RaceId |-> [s \in Slot |-> 0]]
    BY DEF EscrowInit, MappedPool, Held
  <1>2. MappedOutcome = [r \in RaceId |-> "open"]
    BY DEF EscrowInit, MappedOutcome
  <1>3. MappedPurse \in [Drivers -> Nat]
    <2>1. \A d \in Drivers : SumOver(token, AccountsOf(d)) \in Nat
      <3> SUFFICES ASSUME NEW d \in Drivers PROVE SumOver(token, AccountsOf(d)) \in Nat
        OBVIOUS
      <3>1. \A a \in AccountsOf(d) : token[a] \in Nat
        BY SolanaAssumption, AccountsFinite DEF EscrowInit
      <3> QED BY <3>1, AccountsFinite, SumType
    <2> QED BY <2>1, PurseIsSum DEF PurseSums
  <1>4. MappedStakes = 0
    <2>1. \A r \in RaceId : vault[r] = 0
      BY DEF EscrowInit
    <2> QED BY <2>1, StakesAreSum, SumZero, RacesFinite
  <1>5. entrant = [r \in RaceId |-> [s \in Slot |-> NoDriver]]
    BY DEF EscrowInit
  <1> QED BY <1>1, <1>2, <1>3, <1>4, <1>5
          DEF Pool!Init, Pool!Slot, Slot, MappedPool, MappedOutcome, MappedPurse, MappedStakes

LEMMA EnterMaps ==
  ASSUME EscrowInv, EscrowInv', NEW driver \in Drivers, NEW from \in TokenAccounts,
         NEW r \in RaceId, NEW s \in Slot, join_race(driver, from, r, s)
  PROVE  Pool!Enter(r, s, driver, Stake, Fee)
  <1>1. Joins(driver, from, r, s)
    BY Joining
  <1>2. entrant' = [entrant EXCEPT ![r][s] = driver]
    BY DEF join_race
  <1>3. /\ \A t \in Slot : Held(r, t)' = IF t = s THEN Stake ELSE Held(r, t)
        /\ \A q \in RaceId \ {r}, t \in Slot : Held(q, t)' = Held(q, t)
        /\ Held(r, s) = 0 /\ Held(r, 1 - s) \in {0, Stake}
    BY JoinHeld
  <1>4. Stake \in Nat /\ Stake > 0 /\ Fee \in Nat /\ 1 - s \in Slot
    BY SolanaAssumption DEF Slot
  <1>5. MappedPool' = [MappedPool EXCEPT ![r][s] = Stake] /\ MappedPool[r][1 - s] \in {0, Stake}
    <2> DEFINE m(q, t) == Held(q, t)
               n(q, t) == Held(q, t)'
    <2>1. \A q \in RaceId, t \in Slot : n(q, t) = IF q = r /\ t = s THEN Stake ELSE m(q, t)
      BY <1>3
    <2>2. /\ MappedPool = [q \in RaceId |-> [t \in Slot |-> m(q, t)]]
          /\ MappedPool' = [q \in RaceId |-> [t \in Slot |-> n(q, t)]]
      BY DEF MappedPool
    <2>3. m(r, 1 - s) \in {0, Stake}
      BY <1>3
    <2> HIDE DEF m, n
    <2>4. [q \in RaceId |-> [t \in Slot |-> n(q, t)]]
            = [[q \in RaceId |-> [t \in Slot |-> m(q, t)]] EXCEPT ![r][s] = Stake]
      BY <2>1
    <2> QED BY <1>4, <2>2, <2>3, <2>4
  <1>6. MappedOutcome[r] = "open" /\ MappedOutcome' = MappedOutcome
    <2>1. \A q \in RaceId : /\ status'[q] = "Settled" <=> status[q] = "Settled"
                            /\ status'[q] = "Canceled" <=> status[q] = "Canceled"
      BY <1>1 DEF Joins
    <2>2. status[r] \in {"Created", "Joined"}
      BY <1>1 DEF Joins
    <2> QED BY <2>1, <2>2 DEF MappedOutcome
  <1>7. token \in [TokenAccounts -> Nat] /\ token' \in [TokenAccounts -> Nat]
    BY DEF EscrowInv, EscrowType
  <1>8. token' = [token EXCEPT ![from] = @ - (Stake + Fee)] /\ Owner[from] = driver
        /\ Stake + Fee <= token[from]
    BY <1>1 DEF Joins
  <1>9. \A d \in Drivers :
          /\ SumOver(token, AccountsOf(d)) \in Nat
          /\ SumOver(token', AccountsOf(d)) =
               SumOver(token, AccountsOf(d)) + (IF Owner[from] = d THEN token'[from] - token[from] ELSE 0)
    <2>1. \A c \in TokenAccounts \ {from} : token'[c] = token[c]
      BY <1>7, <1>8
    <2> QED BY <1>7, <2>1, OnePurse
  <1>10. MappedPurse' = [MappedPurse EXCEPT ![driver] = @ - (Stake + Fee)]
    <2> DEFINE u(d) == SumOver(token, AccountsOf(d))
               v(d) == SumOver(token', AccountsOf(d))
    <2>1. MappedPurse = [d \in Drivers |-> u(d)] /\ MappedPurse' = [d \in Drivers |-> v(d)]
      BY PurseIsSum, PurseIsSumNext DEF PurseSums
    <2>2. token'[from] - token[from] = -(Stake + Fee) /\ Stake + Fee \in Nat
      BY <1>4, <1>7, <1>8
    <2>3. \A d \in Drivers : u(d) \in Nat
                             /\ v(d) = u(d) + (IF Owner[from] = d THEN token'[from] - token[from] ELSE 0)
      BY <1>9
    <2> HIDE DEF u, v
    <2>4. \A d \in Drivers : v(d) = IF d = driver THEN u(d) - (Stake + Fee) ELSE u(d)
      BY <1>8, <2>2, <2>3
    <2> QED BY <2>1, <2>4
  <1>11. Stake + Fee <= MappedPurse[driver]
    <2>1. MappedPurse[driver] = SumOver(token, AccountsOf(driver))
      BY PurseIsSum DEF PurseSums
    <2>2. from \in AccountsOf(driver) /\ \A a \in AccountsOf(driver) : token[a] \in Nat
      BY <1>7, <1>8 DEF AccountsOf
    <2>3. SumOver(token, AccountsOf(driver)) >= token[from]
      BY <2>2, AccountsFinite, SumAtLeast
    <2>4. SumOver(token, AccountsOf(driver)) \in Nat /\ token[from] \in Nat
      BY <1>7, <1>9
    <2> QED BY <1>4, <1>8, <2>1, <2>3, <2>4
  <1>12. MappedStakes' = MappedStakes + Stake
    <2>1. vault' = [vault EXCEPT ![r] = @ + Stake] /\ vault \in [RaceId -> Nat]
      BY <1>1 DEF Joins, EscrowInv, EscrowType
    <2>2. \A q \in RaceId \ {r} : vault'[q] = vault[q]
      BY <2>1
    <2>3. vault'[r] - vault[r] = Stake
      BY <1>4, <2>1
    <2> QED BY <2>2, <2>3, StakesMove
  <1>13. entrant[r][s] = NoDriver
    BY <1>1 DEF Joins
  <1> QED BY <1>2, <1>4, <1>5, <1>6, <1>10, <1>11, <1>12, <1>13
          DEF Pool!Enter, MappedPool, MappedOutcome, MappedPurse, MappedStakes
(* A race whose compartments are emptied, its vault with them.             *)
LEMMA EmptiedMaps ==
  ASSUME EscrowInv, EscrowInv', NEW r \in RaceId,
         \A s \in Slot : Held(r, s)' = 0,
         \A q \in RaceId \ {r}, s \in Slot : Held(q, s)' = Held(q, s)
  PROVE  /\ MappedPool' = [MappedPool EXCEPT ![r] = [s \in Slot |-> 0]]
         /\ MappedPool[r][0] = Held(r, 0) /\ MappedPool[r][1] = Held(r, 1)
         /\ vault'[r] - vault[r] = -(Held(r, 0) + Held(r, 1))
  <1> DEFINE m(q, t) == Held(q, t)
             n(q, t) == Held(q, t)'
  <1>1. 0 \in Slot /\ 1 \in Slot
    BY DEF Slot
  <1>2. /\ MappedPool = [q \in RaceId |-> [t \in Slot |-> m(q, t)]]
        /\ MappedPool' = [q \in RaceId |-> [t \in Slot |-> n(q, t)]]
    BY DEF MappedPool
  <1>3. \A q \in RaceId, t \in Slot : n(q, t) = IF q = r THEN 0 ELSE m(q, t)
    OBVIOUS
  <1>4. vault'[r] = n(r, 0) + n(r, 1) /\ vault[r] = m(r, 0) + m(r, 1) /\ vault[r] \in Nat
    BY DEF EscrowInv, EscrowType, VaultSound
  <1>5. m(r, 0) \in Nat /\ m(r, 1) \in Nat
    BY <1>1, HeldType, SolanaAssumption
  <1> HIDE DEF m, n
  <1>6. [q \in RaceId |-> [t \in Slot |-> n(q, t)]]
          = [[q \in RaceId |-> [t \in Slot |-> m(q, t)]] EXCEPT ![r] = [t \in Slot |-> 0]]
    BY <1>3
  <1>7. MappedPool[r][0] = m(r, 0) /\ MappedPool[r][1] = m(r, 1)
    BY <1>1, <1>2
  <1>8. n(r, 0) = 0 /\ n(r, 1) = 0
    BY <1>1, <1>3
  <1>9. vault'[r] - vault[r] = -(m(r, 0) + m(r, 1))
    BY <1>4, <1>5, <1>8
  <1> QED BY <1>2, <1>6, <1>7, <1>9 DEF m

LEMMA OutcomeMoves ==
  ASSUME EscrowInv, NEW r \in RaceId, NEW to, status' = [status EXCEPT ![r] = to],
         status[r] \notin {"Settled", "Canceled"},
         NEW o, o = (CASE to = "Settled" -> "paid" [] to = "Canceled" -> "refunded" [] OTHER -> "open")
  PROVE  MappedOutcome[r] = "open" /\ MappedOutcome' = [MappedOutcome EXCEPT ![r] = o]
  <1>1. status \in [RaceId -> {"None", "Created", "Joined", "Locked", "Started", "Finished",
                               "Settled", "Canceled"}]
    BY DEF EscrowInv, EscrowType
  <1>2. status'[r] = to /\ \A q \in RaceId \ {r} : status'[q] = status[q]
    BY <1>1
  <1> QED BY <1>2 DEF MappedOutcome

LEMMA PayMaps ==
  ASSUME EscrowInv, EscrowInv', NEW signer \in Facilitators, NEW r \in RaceId,
         NEW account \in TokenAccounts, settle_race(signer, r, account),
         NEW s \in Slot, s = winner_slot[r]
  PROVE  Pool!PayWinner(r, s)
  <1> DEFINE w == entrant[r][s]
  <1>1. /\ status[r] = "Finished" /\ Owner[account] = w
        /\ status' = [status EXCEPT ![r] = "Settled"]
        /\ token' = [token EXCEPT ![account] = @ + 2 * Stake]
        /\ vault' = [vault EXCEPT ![r] = @ - 2 * Stake]
        /\ UNCHANGED entrant
    BY DEF settle_race, Advanced, OwnedBy
  <1>2. w \in Drivers
    BY <1>1, SolanaAssumption DEF EscrowInv, EscrowType
  <1>3. /\ \A t \in Slot : Held(r, t) = Stake /\ Held(r, t)' = 0
        /\ \A q \in RaceId \ {r}, t \in Slot : Held(q, t)' = Held(q, t)
    BY SettleRaceInv
  <1>4. /\ MappedPool' = [MappedPool EXCEPT ![r] = [t \in Slot |-> 0]]
        /\ MappedPool[r][0] = Held(r, 0) /\ MappedPool[r][1] = Held(r, 1)
        /\ vault'[r] - vault[r] = -(Held(r, 0) + Held(r, 1))
    BY <1>3, EmptiedMaps
  <1>5. 0 \in Slot /\ 1 \in Slot /\ Slot = {0, 1} /\ Stake \in Nat /\ Stake > 0
    BY SolanaAssumption DEF Slot
  <1>6. MappedPool[r][0] = Stake /\ MappedPool[r][1] = Stake
    BY <1>3, <1>4, <1>5
  <1>7. \A t \in Slot : MappedPool[r][t] > 0
    BY <1>5, <1>6
  <1>8. MappedOutcome[r] = "open" /\ MappedOutcome' = [MappedOutcome EXCEPT ![r] = "paid"]
    BY <1>1, OutcomeMoves
  <1>9. MappedPurse' = [MappedPurse EXCEPT ![w] = @ + MappedPool[r][0] + MappedPool[r][1]]
    <2> DEFINE u(d) == SumOver(token, AccountsOf(d))
               v(d) == SumOver(token', AccountsOf(d))
    <2>1. MappedPurse = [d \in Drivers |-> u(d)] /\ MappedPurse' = [d \in Drivers |-> v(d)]
      BY PurseIsSum, PurseIsSumNext DEF PurseSums
    <2>2. token \in [TokenAccounts -> Nat] /\ token' \in [TokenAccounts -> Nat]
      BY DEF EscrowInv, EscrowType
    <2>3. token'[account] - token[account] = 2 * Stake
          /\ \A c \in TokenAccounts \ {account} : token'[c] = token[c]
      BY <1>1, <1>5, <2>2
    <2>4. \A d \in Drivers :
            /\ u(d) \in Nat
            /\ v(d) = u(d) + (IF Owner[account] = d THEN token'[account] - token[account] ELSE 0)
      BY <2>2, <2>3, OnePurse
    <2> HIDE DEF u, v, w
    <2>5. \A d \in Drivers : v(d) = IF d = w THEN u(d) + Stake + Stake ELSE u(d)
      BY <1>1, <1>5, <2>3, <2>4
    <2> QED BY <1>2, <1>6, <2>1, <2>5
  <1>10. MappedStakes' = MappedStakes - (MappedPool[r][0] + MappedPool[r][1])
    <2>1. vault \in [RaceId -> Nat]
      BY DEF EscrowInv, EscrowType
    <2>2. \A q \in RaceId \ {r} : vault'[q] = vault[q]
      BY <1>1, <2>1
    <2>3. MappedStakes' = MappedStakes + (vault'[r] - vault[r])
      BY <2>2, StakesMove
    <2>4. MappedStakes \in Nat
      BY <2>1, StakesAreSum, SumType, RacesFinite
    <2>5. vault'[r] - vault[r] = -(Stake + Stake)
      BY <1>3, <1>4, <1>5
    <2> QED BY <1>5, <1>6, <2>3, <2>4, <2>5
  <1> QED BY <1>1, <1>2, <1>4, <1>7, <1>8, <1>9, <1>10
          DEF Pool!PayWinner, Pool!Emptied, Pool!Slot, Slot,
              MappedPool, MappedOutcome, MappedPurse, MappedStakes

(* A slot nobody joined pays nothing into the account named for it.        *)
LEMMA RefundPurse ==
  ASSUME EscrowInv, NEW r \in RaceId, NEW s \in Slot, NEW a \in TokenAccounts,
         joined[r][s] => Owner[a] = entrant[r][s],
         NEW u \in [TokenAccounts -> Nat], NEW d \in Drivers
  PROVE  /\ SumOver(u, AccountsOf(d)) \in Nat
         /\ SumOver(Paid(u, a, RefundDue(r, s)), AccountsOf(d)) =
              SumOver(u, AccountsOf(d)) + (IF entrant[r][s] = d THEN RefundDue(r, s) ELSE 0)
  <1> DEFINE x == RefundDue(r, s)
             v == Paid(u, a, x)
  <1>1. x \in Nat /\ (~joined[r][s] => x = 0) /\ (joined[r][s] <=> entrant[r][s] # NoDriver)
    <2>1. Stake \in Nat
      BY SolanaAssumption
    <2> QED BY <2>1 DEF RefundDue, EscrowInv, EntriesSound
  <1> HIDE DEF x
  <1>2. v \in [TokenAccounts -> Nat] /\ v[a] - u[a] = x /\ \A c \in TokenAccounts \ {a} : v[c] = u[c]
    <2>1. /\ v \in [TokenAccounts -> Nat]
          /\ \A c \in TokenAccounts : v[c] = u[c] + (IF a = c THEN x ELSE 0)
      BY <1>1, PaidType
    <2> HIDE DEF v
    <2>2. \A c \in TokenAccounts : u[c] \in Nat
      OBVIOUS
    <2> QED BY <1>1, <2>1, <2>2
  <1> HIDE DEF v
  <1>3. /\ SumOver(u, AccountsOf(d)) \in Nat
        /\ SumOver(v, AccountsOf(d)) =
             SumOver(u, AccountsOf(d)) + (IF Owner[a] = d THEN v[a] - u[a] ELSE 0)
    BY <1>2, OnePurse
  <1>4. (IF Owner[a] = d THEN x ELSE 0) = (IF entrant[r][s] = d THEN x ELSE 0)
    BY <1>1
  <1>5. SumOver(v, AccountsOf(d)) =
          SumOver(u, AccountsOf(d)) + (IF entrant[r][s] = d THEN x ELSE 0)
    BY <1>2, <1>3, <1>4
  <1> QED BY <1>3, <1>5 DEF v, x

LEMMA RefundMaps ==
  ASSUME EscrowInv, EscrowInv', NEW signer \in Facilitators, NEW r \in RaceId,
         NEW to \in [Slot -> TokenAccounts], cancel_race(signer, r, to)
  PROVE  Pool!Refund(r)
  <1>1. /\ status[r] \in {"Created", "Joined", "Locked", "Started"}
        /\ status' = [status EXCEPT ![r] = "Canceled"]
        /\ vault' = [vault EXCEPT ![r] = @ - (RefundDue(r, 0) + RefundDue(r, 1))]
        /\ \A s \in Slot : joined[r][s] => Owner[to[s]] = entrant[r][s]
        /\ UNCHANGED entrant
    BY DEF cancel_race, Advanced, Cancelable, OwnedBy
  <1>2. /\ \A s \in Slot : Held(r, s) = RefundDue(r, s) /\ Held(r, s)' = 0
        /\ \A q \in RaceId \ {r}, s \in Slot : Held(q, s)' = Held(q, s)
    BY CancelRaceInv
  <1>3. /\ MappedPool' = [MappedPool EXCEPT ![r] = [s \in Slot |-> 0]]
        /\ MappedPool[r][0] = Held(r, 0) /\ MappedPool[r][1] = Held(r, 1)
        /\ vault'[r] - vault[r] = -(Held(r, 0) + Held(r, 1))
    BY <1>2, EmptiedMaps
  <1>4. /\ 0 \in Slot /\ 1 \in Slot /\ to[0] \in TokenAccounts /\ to[1] \in TokenAccounts
        /\ RefundDue(r, 0) \in Nat /\ RefundDue(r, 1) \in Nat
    <2>1. 0 \in Slot /\ 1 \in Slot /\ Stake \in Nat
      BY SolanaAssumption DEF Slot
    <2> QED BY <2>1, HeldType
  <1>5. MappedPool[r][0] = RefundDue(r, 0) /\ MappedPool[r][1] = RefundDue(r, 1)
    BY <1>2, <1>3, <1>4
  <1>6. MappedOutcome[r] = "open" /\ MappedOutcome' = [MappedOutcome EXCEPT ![r] = "refunded"]
    BY <1>1, OutcomeMoves
  <1>7. MappedPurse' = [d \in Drivers |->
                          MappedPurse[d] + (IF entrant[r][0] = d THEN MappedPool[r][0] ELSE 0)
                                         + (IF entrant[r][1] = d THEN MappedPool[r][1] ELSE 0)]
    <2> DEFINE once == Paid(token, to[0], RefundDue(r, 0))
    <2>1. token \in [TokenAccounts -> Nat] /\ once \in [TokenAccounts -> Nat]
      BY <1>4, PaidType DEF EscrowInv, EscrowType
    <2>2. \A d \in Drivers :
            SumOver(once, AccountsOf(d)) =
              SumOver(token, AccountsOf(d)) + (IF entrant[r][0] = d THEN RefundDue(r, 0) ELSE 0)
      <3>1. joined[r][0] => Owner[to[0]] = entrant[r][0]
        BY <1>1, <1>4
      <3> QED BY <1>4, <2>1, <3>1, RefundPurse
    <2> HIDE DEF once
    <2>3. \A d \in Drivers :
            SumOver(Paid(once, to[1], RefundDue(r, 1)), AccountsOf(d)) =
              SumOver(once, AccountsOf(d)) + (IF entrant[r][1] = d THEN RefundDue(r, 1) ELSE 0)
      <3>1. joined[r][1] => Owner[to[1]] = entrant[r][1]
        BY <1>1, <1>4
      <3> QED BY <1>4, <2>1, <3>1, RefundPurse
    <2>4. token' = Paid(once, to[1], RefundDue(r, 1))
      BY CancelPays DEF once
    <2>5. MappedPurse' = [d \in Drivers |-> SumOver(token', AccountsOf(d))]
      BY PurseIsSumNext
    <2>6. \A d \in Drivers : MappedPurse[d] = SumOver(token, AccountsOf(d))
      BY PurseIsSum DEF PurseSums
    <2>7. \A d \in Drivers :
            SumOver(token', AccountsOf(d)) =
              MappedPurse[d] + (IF entrant[r][0] = d THEN MappedPool[r][0] ELSE 0)
                             + (IF entrant[r][1] = d THEN MappedPool[r][1] ELSE 0)
      BY <1>5, <2>2, <2>3, <2>4, <2>6
    <2> QED BY <2>5, <2>7
  <1>8. MappedStakes' = MappedStakes - (MappedPool[r][0] + MappedPool[r][1])
    <2>1. vault \in [RaceId -> Nat]
      BY DEF EscrowInv, EscrowType
    <2>2. \A q \in RaceId \ {r} : vault'[q] = vault[q]
      BY <1>1, <2>1
    <2>3. MappedStakes' = MappedStakes + (vault'[r] - vault[r])
      BY <2>2, StakesMove
    <2>4. MappedStakes \in Nat
      BY <2>1, StakesAreSum, SumType, RacesFinite
    <2>5. vault'[r] - vault[r] = -(RefundDue(r, 0) + RefundDue(r, 1))
      BY <1>2, <1>3, <1>4
    <2> QED BY <1>4, <1>5, <2>3, <2>4, <2>5
  <1> QED BY <1>1, <1>3, <1>6, <1>7, <1>8
          DEF Pool!Refund, Pool!Emptied, Pool!Slot, Slot,
              MappedPool, MappedOutcome, MappedPurse, MappedStakes

(* Opening, locking, starting and finishing a race move no money, and the  *)
(* facilitator owns none of it.                                            *)
LEMMA EscrowStillMaps ==
  ASSUME EscrowInv,
         \/ \E signer \in Facilitators, r \in RaceId :
              \/ open_race(signer, r)
              \/ lock_race(signer, r)
              \/ start_race(signer, r)
              \/ \E slot \in 0..2 : finish_race(signer, r, slot)
         \/ \E key \in Facilitators : set_facilitator(key)
         \/ UNCHANGED escrowVars
  PROVE  UNCHANGED Pool!poolVars
  <1>1. UNCHANGED <<entrant, joined, token, vault>>
    BY DEF open_race, lock_race, start_race, finish_race, Advanced, set_facilitator, escrowVars
  <1> DEFINE Moved(q) ==
               /\ status[q] \in {"None", "Joined", "Locked", "Started"}
               /\ status'[q] \in {"Created", "Locked", "Started", "Finished"}
               /\ status[q] = "None" => \A s \in Slot : ~joined[q][s]
  <1>2. \A q \in RaceId : status'[q] = status[q] \/ Moved(q)
    <2>1. status \in [RaceId -> Statuses] /\ \A q \in RaceId : EntriesSound(q)
      BY DEF EscrowInv, EscrowType, Statuses
    <2>2. CASE UNCHANGED status
      BY <2>2
    <2>3. ASSUME NEW r \in RaceId, NEW to \in {"Created", "Locked", "Started", "Finished"},
                 status[r] \in {"None", "Joined", "Locked", "Started"},
                 status' = [status EXCEPT ![r] = to]
          PROVE  \A q \in RaceId : status'[q] = status[q] \/ Moved(q)
      BY <2>1, <2>3 DEF EntriesSound
    <2>4. ASSUME NEW signer \in Facilitators, NEW r \in RaceId, open_race(signer, r)
          PROVE  \A q \in RaceId : status'[q] = status[q] \/ Moved(q)
      <3>1. status[r] = "None" /\ status' = [status EXCEPT ![r] = "Created"]
        BY <2>4 DEF open_race, EscrowInv, RacesInOrder, RaceId
      <3> QED BY <2>3, <3>1
    <2>5. ASSUME NEW signer \in Facilitators, NEW r \in RaceId,
                 \/ lock_race(signer, r)
                 \/ start_race(signer, r)
                 \/ \E slot \in 0..2 : finish_race(signer, r, slot)
          PROVE  \A q \in RaceId : status'[q] = status[q] \/ Moved(q)
      <3>1. \/ status[r] = "Joined" /\ status' = [status EXCEPT ![r] = "Locked"]
            \/ status[r] = "Locked" /\ status' = [status EXCEPT ![r] = "Started"]
            \/ status[r] = "Started" /\ status' = [status EXCEPT ![r] = "Finished"]
        BY <2>5 DEF lock_race, start_race, finish_race, Advanced
      <3> HIDE DEF Moved
      <3> QED BY <2>3, <3>1
    <2> HIDE DEF Moved
    <2> QED BY <2>2, <2>4, <2>5 DEF set_facilitator, escrowVars
  <1>3. MappedOutcome' = MappedOutcome
    BY <1>2 DEF MappedOutcome
  <1>4. MappedPool' = MappedPool
    <2>1. \A q \in RaceId, s \in Slot : Held(q, s)' = Held(q, s)
      BY <1>1, <1>2 DEF Held, RefundDue
    <2> QED BY <2>1 DEF MappedPool
  <1>5. MappedPurse' = MappedPurse /\ MappedStakes' = MappedStakes
    <2>1. MappedPurse' = [d \in Drivers |-> SumOver(token', AccountsOf(d))]
          /\ MappedPurse = [d \in Drivers |-> SumOver(token, AccountsOf(d))]
      BY PurseIsSum, PurseIsSumNext DEF PurseSums
    <2>2. MappedStakes = SumOver(vault, RaceId) /\ MappedStakes' = SumOver(vault', RaceId)
      BY StakesAreSum, StakesAreSumNext
    <2>3. token' = token /\ vault' = vault
      BY <1>1
    <2> QED BY <2>1, <2>2, <2>3
  <1> QED BY <1>1, <1>3, <1>4, <1>5
          DEF Pool!poolVars, MappedPool, MappedOutcome, MappedPurse, MappedStakes

LEMMA EscrowNextMaps ==
  EscrowInv /\ EscrowInv' /\ [EscrowNext]_escrowVars => [Pool!Next]_(Pool!poolVars)
  <1> SUFFICES ASSUME EscrowInv, EscrowInv', [EscrowNext]_escrowVars
               PROVE  [Pool!Next]_(Pool!poolVars)
    OBVIOUS
  <1>1. ASSUME NEW driver \in Drivers, NEW from \in TokenAccounts, NEW r \in RaceId,
               NEW s \in Slot, join_race(driver, from, r, s)
        PROVE  Pool!Next
    <2>1. Pool!Enter(r, s, driver, Stake, Fee)
      BY <1>1, EnterMaps
    <2> QED BY <2>1 DEF Pool!Next, Pool!Slot, Slot
  <1>2. ASSUME NEW signer \in Facilitators, NEW r \in RaceId, NEW account \in TokenAccounts,
               settle_race(signer, r, account)
        PROVE  Pool!Next
    <2>1. winner_slot[r] \in Slot
      BY DEF EscrowInv, EscrowType
    <2>2. PICK s \in Slot : s = winner_slot[r]
      BY <2>1
    <2>3. Pool!PayWinner(r, s)
      BY <1>2, <2>2, PayMaps
    <2> QED BY <2>3 DEF Pool!Next, Pool!Slot, Slot
  <1>3. ASSUME NEW signer \in Facilitators, NEW r \in RaceId, NEW to \in [Slot -> TokenAccounts],
               cancel_race(signer, r, to)
        PROVE  Pool!Next
    <2>1. Pool!Refund(r)
      BY <1>3, RefundMaps
    <2> QED BY <2>1 DEF Pool!Next
  <1> QED BY <1>1, <1>2, <1>3, EscrowStillMaps DEF EscrowNext

(* The escrow keeps StakePool's promise for any drivers and any number of  *)
(* accounts and races: stakes enter once and leave once, together, to the  *)
(* winner or each to the driver who put it in.                             *)
THEOREM EscrowRefinement == Spec => ImplementsStakePool
  <1>1. Init => Pool!Init
    BY PoolInitMaps DEF Init
  <1>2. EscrowInv /\ EscrowInv' /\ [Next]_vars => [Pool!Next]_(Pool!poolVars)
    BY EscrowNextMaps, ProgramSteps
  <1> QED BY <1>1, <1>2, EscrowAlways, PTL DEF Spec, ImplementsStakePool, Pool!Spec
-----------------------------------------------------------------------------
(* The escrow implements RaceLedger. *)

LEMMA LedgerInit == EscrowInit => Ledger!Init
  BY DEF EscrowInit, Ledger!Init, Ledger!RaceId, Ledger!Slot, RaceId, Slot

LEMMA LedgerJoin ==
  ASSUME EscrowInv, NEW driver \in Drivers, NEW from \in TokenAccounts, NEW r \in RaceId,
         NEW s \in Slot, join_race(driver, from, r, s)
  PROVE  Ledger!Join(r, s, driver)
  <1>1. Joins(driver, from, r, s)
    BY Joining
  <1>2. entrant' = [entrant EXCEPT ![r][s] = driver] /\ UNCHANGED <<winner_slot, next_race_id>>
    BY DEF join_race
  <1>3. 1 - s \in Slot
    BY DEF Slot
  <1>4. joined[r][1 - s] <=> entrant[r][1 - s] # NoDriver
    BY <1>3 DEF EscrowInv, EntriesSound
  <1>5. status' = [status EXCEPT ![r] = IF entrant[r][1 - s] # NoDriver THEN "Joined" ELSE @]
    BY <1>1, <1>4 DEF Joins
  <1> QED BY <1>1, <1>2, <1>5 DEF Joins, Ledger!Join

LEMMA LedgerNext ==
  EscrowInv /\ [EscrowNext]_escrowVars => [Ledger!Next]_(Ledger!ledgerVars)
  <1> SUFFICES ASSUME EscrowInv, [EscrowNext]_escrowVars
               PROVE  [Ledger!Next]_(Ledger!ledgerVars)
    OBVIOUS
  <1>1. ASSUME NEW signer \in Facilitators, NEW r \in RaceId, open_race(signer, r)
        PROVE  Ledger!Next
    <2>1. Ledger!OpenRace
      BY <1>1, SolanaAssumption DEF open_race, Ledger!OpenRace, RaceId
    <2> QED BY <2>1 DEF Ledger!Next
  <1>2. ASSUME NEW driver \in Drivers, NEW from \in TokenAccounts, NEW r \in RaceId,
               NEW s \in Slot, join_race(driver, from, r, s)
        PROVE  Ledger!Next
    <2>1. Ledger!Join(r, s, driver)
      BY <1>2, LedgerJoin
    <2> QED BY <2>1 DEF Ledger!Next, Ledger!RaceId, Ledger!Slot, RaceId, Slot
  <1>3. ASSUME NEW signer \in Facilitators, NEW r \in RaceId,
               \/ lock_race(signer, r)
               \/ start_race(signer, r)
               \/ \E account \in TokenAccounts : settle_race(signer, r, account)
               \/ \E to \in [Slot -> TokenAccounts] : cancel_race(signer, r, to)
        PROVE  Ledger!Next
    <2>1. CASE lock_race(signer, r)
      <3>1. Ledger!Lock(r)
        BY <2>1 DEF lock_race, Advanced, Ledger!Lock, Ledger!Advance
      <3> QED BY <3>1 DEF Ledger!Next, Ledger!RaceId, RaceId
    <2>2. CASE start_race(signer, r)
      <3>1. Ledger!Start(r)
        BY <2>2 DEF start_race, Advanced, Ledger!Start, Ledger!Advance
      <3> QED BY <3>1 DEF Ledger!Next, Ledger!RaceId, RaceId
    <2>3. CASE \E account \in TokenAccounts : settle_race(signer, r, account)
      <3>1. Ledger!Settle(r)
        BY <2>3 DEF settle_race, Advanced, Ledger!Settle, Ledger!Advance
      <3> QED BY <3>1 DEF Ledger!Next, Ledger!RaceId, RaceId
    <2>4. CASE \E to \in [Slot -> TokenAccounts] : cancel_race(signer, r, to)
      <3>1. Ledger!Cancel(r)
        BY <2>4 DEF cancel_race, Cancelable, Advanced, Ledger!Cancel, Ledger!Advance
      <3> QED BY <3>1 DEF Ledger!Next, Ledger!RaceId, RaceId
    <2> QED BY <1>3, <2>1, <2>2, <2>3, <2>4
  <1>4. ASSUME NEW signer \in Facilitators, NEW r \in RaceId, NEW slot \in 0..2,
               finish_race(signer, r, slot)
        PROVE  Ledger!Next
    <2>1. Ledger!Finish(r, slot) /\ slot \in Slot
      BY <1>4 DEF finish_race, Advanced, Ledger!Finish, Ledger!Advance, Slot
    <2> QED BY <2>1 DEF Ledger!Next, Ledger!RaceId, Ledger!Slot, RaceId, Slot
  <1>5. ASSUME (\E key \in Facilitators : set_facilitator(key)) \/ UNCHANGED escrowVars
        PROVE  UNCHANGED Ledger!ledgerVars
    BY <1>5 DEF set_facilitator, escrowVars, Ledger!ledgerVars
  <1> QED BY <1>1, <1>2, <1>3, <1>4, <1>5 DEF EscrowNext

(* The escrow implements RaceLedger, the escrow the sidecar relies on, for *)
(* any drivers, accounts and number of races: its statuses, entrants and   *)
(* winners move as those of the ERC-20 contract do.                        *)
THEOREM EscrowLedger == Spec => ImplementsRaceLedger
  <1>1. Init => Ledger!Init
    BY LedgerInit DEF Init
  <1>2. EscrowInv /\ [Next]_vars => [Ledger!Next]_(Ledger!ledgerVars)
    BY LedgerNext, ProgramSteps
  <1> QED BY <1>1, <1>2, EscrowAlways, PTL DEF Spec, ImplementsRaceLedger, Ledger!Spec
=============================================================================
