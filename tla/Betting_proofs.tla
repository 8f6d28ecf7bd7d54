--------------------------- MODULE Betting_proofs ---------------------------
(* Theorems about RaceMarket, and about BettingRoom in front of it, for    *)
(* every value of their constants.                                         *)
EXTENDS BettingRoom, SumLemmas, TLAPS

(* What each bettor staked, and what each staked on racer c.               *)
StakesOf(w) == [b \in Bettors |-> w[b].stake]
BackingOf(w, c) == [b \in Bettors |-> IF w[b].racer = c THEN w[b].stake ELSE 0]

(* What each bettor may still claim from a settled race.                   *)
Due(r) ==
  [b \in Bettors |-> IF stake[r][b] > 0 /\ pick[r][b] = winner[r] THEN Payout(r, b) ELSE 0]

OwedTo ==
  [r \in RaceId |-> IF status[r] = "Settled" THEN SumOver(Due(r), Bettors) ELSE totalPool[r]]

NoBet == [racer |-> 0, stake |-> 0]

MarketType ==
  /\ status \in [RaceId -> {"None", "Open", "Settled"}]
  /\ winner \in [RaceId -> Verdict]
  /\ numRacers \in [RaceId -> {0, RacerCount}]
  /\ pool \in [RaceId -> [Racer -> Nat]]
  /\ totalPool \in [RaceId -> Nat]
  /\ pick \in [RaceId -> [Bettors -> Racer]]
  /\ stake \in [RaceId -> [Bettors -> Nat]]
  /\ nextRaceId \in 0..MaxRaces
  /\ usdc \in [Account -> Nat]
  /\ wager \in [RaceId -> [Bettors -> [racer : Racer, stake : Nat]]]

(* A stake is what was wagered, until it is claimed; nothing is claimed    *)
(* before the race is settled.                                             *)
BetsRecorded ==
  \A r \in RaceId :
    /\ status[r] = "None" <=> r >= nextRaceId
    /\ \A b \in Bettors :
         /\ wager[r][b].stake = 0 => wager[r][b] = NoBet
         /\ stake[r][b] # 0 =>
              stake[r][b] = wager[r][b].stake /\ pick[r][b] = wager[r][b].racer
         /\ status[r] # "Settled" => stake[r][b] = wager[r][b].stake

(* The pools the contract keeps are the sums of the wagers.                *)
PoolsAreSums ==
  \A r \in RaceId :
    /\ totalPool[r] = SumOver(StakesOf(wager[r]), Bettors)
    /\ \A c \in Racer : pool[r][c] = SumOver(BackingOf(wager[r], c), Bettors)

Covered == usdc[Market] >= SumOver(OwedTo, RaceId)

(* Payouts are covered only because pools are the sums of the wagers and   *)
(* a stake still to be claimed is a wager: neither is inductive alone.     *)
IInv == MarketType /\ BetsRecorded /\ PoolsAreSums /\ Covered
-----------------------------------------------------------------------------
(* The folds of the model in the form SumLemmas knows.                     *)

LEMMA RacesFinite == IsFiniteSet(RaceId)
  BY MarketAssumption, FS_Interval DEF RaceId

LEMMA BettorsFinite == IsFiniteSet(Bettors)
  BY MarketAssumption

LEMMA DueIsSum ==
  ASSUME NEW r \in RaceId, NEW S \in SUBSET Bettors,
         \A b \in S : stake[r][b] > 0
  PROVE  MapThenSumSet(LAMBDA b : IF pick[r][b] = winner[r] THEN Payout(r, b) ELSE 0, S)
           = SumOver(Due(r), S)
  <1> DEFINE e(b) == IF pick[r][b] = winner[r] THEN Payout(r, b) ELSE 0
             P(f) == f = [s \in SUBSET S |->
                            IF s = {} THEN 0 ELSE e(Pick(s)) + f[s \ {Pick(s)}]]
             own == CHOOSE f : P(f)
  <1>1. MapThenSumSet(LAMBDA b : IF pick[r][b] = winner[r] THEN Payout(r, b) ELSE 0, S) = own[S]
    BY Zenon DEF MapThenSumSet, MapThenFoldSet, Pick
  <1>2. \A s \in SUBSET S : s # {} => e(Pick(s)) = Due(r)[Pick(s)]
    BY PickIn DEF Due
  <1> HIDE DEF e
  <1>3. \A f : P(f) <=> IsFold(f, Due(r), S)
    <2> SUFFICES ASSUME NEW f
                 PROVE  [s \in SUBSET S |-> IF s = {} THEN 0 ELSE e(Pick(s)) + f[s \ {Pick(s)}]]
                      = [s \in SUBSET S |-> IF s = {} THEN 0 ELSE Due(r)[Pick(s)] + f[s \ {Pick(s)}]]
      BY DEF IsFold
    <2> HIDE DEF P, own
    <2> QED BY <1>2
  <1>4. IsFiniteSet(S)
    BY BettorsFinite, FS_Subset
  <1>5. \E f : P(f)
    BY <1>3, <1>4, FoldExists
  <1>6. P(own)
    BY <1>5, Zenon
  <1> HIDE DEF P, own
  <1>7. IsFold(own, Due(r), S)
    BY <1>3, <1>6
  <1> QED BY <1>1, <1>4, <1>7, SumIsFold

LEMMA OwedIsSum == MapThenSumSet(Owed, RaceId) = SumOver([r \in RaceId |-> Owed(r)], RaceId)
  <1> DEFINE g == [r \in RaceId |-> Owed(r)]
             P(f) == f = [s \in SUBSET RaceId |->
                            IF s = {} THEN 0 ELSE Owed(Pick(s)) + f[s \ {Pick(s)}]]
             own == CHOOSE f : P(f)
  <1>1. MapThenSumSet(Owed, RaceId) = own[RaceId]
    BY Zenon DEF MapThenSumSet, MapThenFoldSet, Pick
  <1>2. \A s \in SUBSET RaceId : s # {} => Owed(Pick(s)) = g[Pick(s)]
    BY PickIn
  <1> HIDE DEF g
  <1>3. \A f : P(f) <=> IsFold(f, g, RaceId)
    <2> SUFFICES ASSUME NEW f
                 PROVE  [s \in SUBSET RaceId |-> IF s = {} THEN 0 ELSE Owed(Pick(s)) + f[s \ {Pick(s)}]]
                      = [s \in SUBSET RaceId |-> IF s = {} THEN 0 ELSE g[Pick(s)] + f[s \ {Pick(s)}]]
      BY DEF IsFold
    <2> HIDE DEF P, own
    <2> QED BY <1>2
  <1>4. \E f : P(f)
    BY <1>3, FoldExists, RacesFinite
  <1>5. P(own)
    BY <1>4, Zenon
  <1> HIDE DEF P, own
  <1>6. IsFold(own, g, RaceId)
    BY <1>3, <1>5
  <1> QED BY <1>1, <1>6, SumIsFold, RacesFinite DEF g

(* What a bettor is due is a natural number, and 0 without a stake.        *)
LEMMA DueType ==
  ASSUME MarketType, NEW r \in RaceId
  PROVE  \A b \in Bettors : Due(r)[b] \in Nat
  <1> SUFFICES ASSUME NEW b \in Bettors PROVE Due(r)[b] \in Nat
    OBVIOUS
  <1>1. CASE stake[r][b] > 0 /\ pick[r][b] = winner[r]
    <2> DEFINE w == pool[r][winner[r]]
               a == stake[r][b] * totalPool[r]
    <2>1. w \in Nat /\ a \in Nat
      BY <1>1 DEF MarketType
    <2>2. Due(r)[b] = IF w = 0 THEN 0 ELSE a \div w
      BY <1>1 DEF Due, Payout
    <2> HIDE DEF w, a
    <2> QED BY <2>1, <2>2
  <1>2. CASE ~(stake[r][b] > 0 /\ pick[r][b] = winner[r])
    BY <1>2 DEF Due
  <1> QED BY <1>1, <1>2

LEMMA OwedIsOwedTo ==
  ASSUME MarketType
  PROVE  \A r \in RaceId : Owed(r) = OwedTo[r]
  <1> SUFFICES ASSUME NEW r \in RaceId PROVE Owed(r) = OwedTo[r]
    OBVIOUS
  <1> DEFINE S == {b \in Bettors : stake[r][b] > 0}
  <1>1. MapThenSumSet(LAMBDA b : IF pick[r][b] = winner[r] THEN Payout(r, b) ELSE 0, S)
          = SumOver(Due(r), S)
    BY DueIsSum
  <1>2. SumOver(Due(r), S) = SumOver(Due(r), Bettors)
    <2>1. \A b \in Bettors \ S : Due(r)[b] = 0
      BY DEF Due
    <2>2. \A b \in Bettors : Due(r)[b] \in Nat
      BY DueType
    <2> HIDE DEF S
    <2>3. S \in SUBSET Bettors
      BY DEF S
    <2> QED BY <2>1, <2>2, <2>3, SumSubset, BettorsFinite
  <1>3. Owed(r) = IF status[r] = "Settled" THEN SumOver(Due(r), S) ELSE totalPool[r]
    BY <1>1 DEF Owed
  <1> QED BY <1>2, <1>3 DEF OwedTo

LEMMA CoveredIsSum == MarketType => (ClaimsCovered <=> Covered)
  <1> SUFFICES ASSUME MarketType PROVE ClaimsCovered <=> Covered
    OBVIOUS
  <1> DEFINE g == [r \in RaceId |-> Owed(r)]
  <1>1. \A r \in RaceId : g[r] = OwedTo[r]
    BY OwedIsOwedTo
  <1> HIDE DEF g
  <1>2. SumOver(g, RaceId) = SumOver(OwedTo, RaceId)
    BY <1>1, SumEqual, RacesFinite
  <1> QED BY <1>2, OwedIsSum DEF ClaimsCovered, Covered, g
-----------------------------------------------------------------------------
(* The invariant holds at first. *)

LEMMA InitIInv == MarketInit => IInv
  <1> SUFFICES ASSUME MarketInit PROVE IInv
    OBVIOUS
  <1>1. MarketType
    BY MarketAssumption DEF MarketInit, MarketType, RaceId, Racer, Verdict, Account
  <1>2. BetsRecorded
    BY MarketAssumption DEF MarketInit, BetsRecorded, RaceId, NoBet
  <1>3. PoolsAreSums
    <2> SUFFICES ASSUME NEW r \in RaceId
                 PROVE  /\ totalPool[r] = SumOver(StakesOf(wager[r]), Bettors)
                        /\ \A c \in Racer : pool[r][c] = SumOver(BackingOf(wager[r], c), Bettors)
      BY DEF PoolsAreSums
    <2>1. \A b \in Bettors : StakesOf(wager[r])[b] = 0
      BY DEF MarketInit, StakesOf
    <2>2. \A c \in Racer : \A b \in Bettors : BackingOf(wager[r], c)[b] = 0
      BY DEF MarketInit, BackingOf
    <2>3. SumOver(StakesOf(wager[r]), Bettors) = 0
      BY <2>1, SumZero, BettorsFinite
    <2>4. \A c \in Racer : SumOver(BackingOf(wager[r], c), Bettors) = 0
      BY <2>2, SumZero, BettorsFinite
    <2> QED BY <2>3, <2>4 DEF MarketInit
  <1>4. Covered
    <2>1. \A r \in RaceId : OwedTo[r] = 0
      BY DEF OwedTo, MarketInit
    <2>2. SumOver(OwedTo, RaceId) = 0
      BY <2>1, SumZero, RacesFinite
    <2>3. usdc[Market] = 0
      BY DEF MarketInit, Account
    <2> QED BY <2>2, <2>3 DEF Covered
  <1> QED BY <1>1, <1>2, <1>3, <1>4 DEF IInv

-----------------------------------------------------------------------------
(* Every step keeps it. *)

LEMMA OwedToType ==
  ASSUME MarketType
  PROVE  \A r \in RaceId : OwedTo[r] \in Nat
  <1> SUFFICES ASSUME NEW r \in RaceId PROVE OwedTo[r] \in Nat
    OBVIOUS
  <1>1. SumOver(Due(r), Bettors) \in Nat
    BY DueType, SumType, BettorsFinite
  <1> QED BY <1>1 DEF OwedTo, MarketType

(* A step that adds to one race's debt no more than to the balance keeps   *)
(* the balance sufficient; the other races' debts stay.                    *)
LEMMA CoveredStep ==
  ASSUME NEW o, NEW n, NEW r \in RaceId, NEW u \in Nat, NEW v \in Nat,
         \A q \in RaceId : o[q] \in Nat /\ n[q] \in Nat,
         \A q \in RaceId \ {r} : n[q] = o[q],
         v - u >= n[r] - o[r],
         u >= SumOver(o, RaceId)
  PROVE  v >= SumOver(n, RaceId)
  <1>1. SumOver(n, RaceId) - SumOver(o, RaceId) = n[r] - o[r]
    BY SumUpdate, RacesFinite
  <1>2. SumOver(n, RaceId) \in Nat /\ SumOver(o, RaceId) \in Nat
    BY SumType, RacesFinite
  <1> QED BY <1>1, <1>2

LEMMA OpenIInv ==
  ASSUME IInv, NEW sender \in Keys, openRace(sender)
  PROVE  IInv'
  <1>1. nextRaceId \in RaceId /\ status[nextRaceId] = "None" /\ nextRaceId + 1 \in 0..MaxRaces
    BY MarketAssumption DEF IInv, MarketType, BetsRecorded, openRace, CanOpen, RaceId
  <1>2. MarketType'
    BY <1>1 DEF IInv, MarketType, openRace
  <1>3. BetsRecorded'
    <2>1. /\ status' = [status EXCEPT ![nextRaceId] = "Open"]
          /\ nextRaceId' = nextRaceId + 1
          /\ UNCHANGED <<pick, stake, wager>>
      BY DEF openRace
    <2>2. \A r \in RaceId : status'[r] = "None" <=> r >= nextRaceId + 1
      BY <1>1, <2>1 DEF IInv, MarketType, BetsRecorded, RaceId
    <2>3. \A r \in RaceId : status'[r] # "Settled" => status[r] # "Settled"
      BY <1>1, <2>1 DEF IInv, MarketType
    <2> QED BY <2>1, <2>2, <2>3 DEF IInv, BetsRecorded
  <1>4. PoolsAreSums'
    BY DEF IInv, PoolsAreSums, openRace
  <1>5. Covered'
    <2>1. OwedTo' = OwedTo
      BY <1>1 DEF OwedTo, Due, Payout, openRace, IInv, MarketType
    <2>2. usdc' = usdc
      BY DEF openRace
    <2> QED BY <2>1, <2>2 DEF IInv, Covered
  <1> QED BY <1>2, <1>3, <1>4, <1>5 DEF IInv

(* One bettor's wager enters both sums by its amount. *)
LEMMA BetSums ==
  ASSUME NEW w \in [Bettors -> [racer : Racer, stake : Nat]], NEW b \in Bettors,
         w[b].stake = 0, NEW c \in Racer, NEW amount \in Nat,
         NEW n, n = [w EXCEPT ![b] = [racer |-> c, stake |-> amount]]
  PROVE  /\ SumOver(StakesOf(n), Bettors) = SumOver(StakesOf(w), Bettors) + amount
         /\ \A d \in Racer : SumOver(BackingOf(n, d), Bettors) =
              SumOver(BackingOf(w, d), Bettors) + (IF d = c THEN amount ELSE 0)
  <1>1. n \in [Bettors -> [racer : Racer, stake : Nat]]
    OBVIOUS
  <1>2. SumOver(StakesOf(n), Bettors) = SumOver(StakesOf(w), Bettors) + amount
    <2> DEFINE g == StakesOf(w)
               k == StakesOf(n)
    <2>1. /\ \A x \in Bettors : g[x] \in Nat /\ k[x] \in Nat
          /\ \A x \in Bettors \ {b} : k[x] = g[x]
          /\ g[b] = 0 /\ k[b] = amount
      BY <1>1 DEF StakesOf
    <2> HIDE DEF g, k
    <2>2. SumOver(k, Bettors) - SumOver(g, Bettors) = k[b] - g[b]
      <3>1. IsFiniteSet(Bettors) /\ b \in Bettors
        BY BettorsFinite
      <3>2. \A x \in Bettors : g[x] \in Nat /\ k[x] \in Nat
        BY <2>1
      <3>3. \A x \in Bettors \ {b} : k[x] = g[x]
        BY <2>1
      <3> QED BY <3>1, <3>2, <3>3, SumUpdate
    <2>3. SumOver(k, Bettors) \in Nat /\ SumOver(g, Bettors) \in Nat
      BY <2>1, SumType, BettorsFinite
    <2>4. SumOver(k, Bettors) = SumOver(g, Bettors) + amount
      BY <2>1, <2>2, <2>3
    <2> QED BY <2>4 DEF g, k
  <1>3. ASSUME NEW d \in Racer
        PROVE  SumOver(BackingOf(n, d), Bettors) =
                 SumOver(BackingOf(w, d), Bettors) + (IF d = c THEN amount ELSE 0)
    <2> DEFINE g == BackingOf(w, d)
               k == BackingOf(n, d)
    <2>1. /\ \A x \in Bettors : g[x] \in Nat /\ k[x] \in Nat
          /\ \A x \in Bettors \ {b} : k[x] = g[x]
          /\ g[b] = 0 /\ k[b] = IF d = c THEN amount ELSE 0
      BY <1>1 DEF BackingOf
    <2> HIDE DEF g, k
    <2>2. SumOver(k, Bettors) - SumOver(g, Bettors) = k[b] - g[b]
      <3>1. IsFiniteSet(Bettors) /\ b \in Bettors
        BY BettorsFinite
      <3>2. \A x \in Bettors : g[x] \in Nat /\ k[x] \in Nat
        BY <2>1
      <3>3. \A x \in Bettors \ {b} : k[x] = g[x]
        BY <2>1
      <3> QED BY <3>1, <3>2, <3>3, SumUpdate
    <2>3. SumOver(k, Bettors) \in Nat /\ SumOver(g, Bettors) \in Nat
      BY <2>1, SumType, BettorsFinite
    <2>4. SumOver(k, Bettors) = SumOver(g, Bettors) + (IF d = c THEN amount ELSE 0)
      BY <2>1, <2>2, <2>3
    <2> QED BY <2>4 DEF g, k
  <1> QED BY <1>2, <1>3

LEMMA BetIInv ==
  ASSUME IInv, NEW b \in Bettors, NEW r \in RaceId, NEW racer \in Verdict,
         NEW amount \in 0..MaxBet, NEW nullifier \in Nullifiers,
         bet(b, r, racer, amount, nullifier)
  PROVE  IInv'
  <1> DEFINE new == [racer |-> racer, stake |-> amount]
  <1>1. /\ status[r] = "Open" /\ racer \in Racer /\ amount \in Nat
        /\ stake[r][b] = 0 /\ amount <= usdc[b] /\ usdc[b] \in Nat /\ usdc[Market] \in Nat
        /\ Market # b
    <2>1. status[r] = "Open" /\ racer < numRacers[r] /\ stake[r][b] = 0 /\ amount <= usdc[b]
      BY DEF bet, CanBet
    <2>2. numRacers[r] \in {0, RacerCount}
      BY DEF IInv, MarketType
    <2>3. racer \in Racer /\ amount \in Nat
      BY <2>1, <2>2, MarketAssumption DEF Verdict, Racer
    <2> QED BY <2>1, <2>3, MarketAssumption DEF IInv, MarketType, Account
  <1>2. wager[r][b].stake = 0 /\ wager[r][b] = NoBet
    BY <1>1 DEF IInv, BetsRecorded
  <1>3. /\ usdc' = [usdc EXCEPT ![b] = @ - amount, ![Market] = @ + amount]
        /\ pick' = [pick EXCEPT ![r][b] = racer]
        /\ stake' = [stake EXCEPT ![r][b] = amount]
        /\ pool' = [pool EXCEPT ![r][racer] = @ + amount]
        /\ totalPool' = [totalPool EXCEPT ![r] = @ + amount]
        /\ wager' = IF amount = 0 THEN wager ELSE [wager EXCEPT ![r][b] = new]
        /\ UNCHANGED <<status, winner, numRacers, nextRaceId>>
    BY DEF bet
  <1>4. /\ new \in [racer : Racer, stake : Nat]
        /\ usdc \in [Account -> Nat] /\ b \in Account /\ Market \in Account
        /\ wager \in [RaceId -> [Bettors -> [racer : Racer, stake : Nat]]]
        /\ stake \in [RaceId -> [Bettors -> Nat]]
        /\ pick \in [RaceId -> [Bettors -> Racer]]
        /\ totalPool \in [RaceId -> Nat]
        /\ pool \in [RaceId -> [Racer -> Nat]]
    BY <1>1 DEF IInv, MarketType, Account
  <1>5. /\ wager' \in [RaceId -> [Bettors -> [racer : Racer, stake : Nat]]]
        /\ \A q \in RaceId, x \in Bettors :
             wager'[q][x] = IF q = r /\ x = b /\ amount # 0 THEN new ELSE wager[q][x]
    <2>1. CASE amount = 0
      BY <1>3, <1>4, <2>1
    <2>2. CASE amount # 0
      <3>1. wager' = [wager EXCEPT ![r][b] = new]
        BY <1>3, <2>2
      <3> HIDE DEF new
      <3> QED BY <1>4, <2>2, <3>1
    <2> QED BY <2>1, <2>2
  <1>6. MarketType'
    <2>1. usdc' \in [Account -> Nat]
      <3>1. usdc[b] - amount \in Nat /\ usdc[Market] + amount \in Nat
        BY <1>1
      <3>2. usdc' = [usdc EXCEPT ![b] = usdc[b] - amount, ![Market] = usdc[Market] + amount]
        BY <1>1, <1>3, <1>4
      <3> QED BY <1>4, <3>1, <3>2
    <2>2. pool' \in [RaceId -> [Racer -> Nat]] /\ totalPool' \in [RaceId -> Nat]
      BY <1>1, <1>3, <1>4
    <2>3. pick' \in [RaceId -> [Bettors -> Racer]] /\ stake' \in [RaceId -> [Bettors -> Nat]]
      BY <1>1, <1>3, <1>4
    <2> QED BY <1>3, <1>5, <2>1, <2>2, <2>3 DEF IInv, MarketType
  <1>7. BetsRecorded'
    <2> SUFFICES ASSUME NEW q \in RaceId, NEW x \in Bettors
                 PROVE  /\ wager'[q][x].stake = 0 => wager'[q][x] = NoBet
                        /\ stake'[q][x] # 0 =>
                             stake'[q][x] = wager'[q][x].stake /\ pick'[q][x] = wager'[q][x].racer
                        /\ status'[q] # "Settled" => stake'[q][x] = wager'[q][x].stake
      BY <1>3 DEF IInv, BetsRecorded
    <2>1. CASE q = r /\ x = b
      BY <1>1, <1>2, <1>3, <1>4, <1>5, <2>1 DEF NoBet
    <2>2. CASE ~(q = r /\ x = b)
      BY <1>3, <1>4, <1>5, <2>2 DEF IInv, BetsRecorded
    <2> QED BY <2>1, <2>2
  <1>8. PoolsAreSums'
    <2> SUFFICES ASSUME NEW q \in RaceId
                 PROVE  /\ totalPool'[q] = SumOver(StakesOf(wager'[q]), Bettors)
                        /\ \A c \in Racer : pool'[q][c] = SumOver(BackingOf(wager'[q], c), Bettors)
      BY DEF PoolsAreSums
    <2>1. /\ totalPool[q] = SumOver(StakesOf(wager[q]), Bettors)
          /\ \A c \in Racer : pool[q][c] = SumOver(BackingOf(wager[q], c), Bettors)
      BY DEF IInv, PoolsAreSums
    <2>2. CASE q # r
      <3>1. wager'[q] = wager[q] /\ totalPool'[q] = totalPool[q] /\ pool'[q] = pool[q]
        BY <1>3, <1>4, <2>2
      <3> QED BY <2>1, <3>1
    <2>3. CASE q = r /\ amount = 0
      <3>1. wager'[q] = wager[q] /\ totalPool'[q] = totalPool[q]
            /\ \A c \in Racer : pool'[q][c] = pool[q][c]
        BY <1>1, <1>3, <1>4, <2>3
      <3> QED BY <2>1, <3>1
    <2>4. CASE q = r /\ amount # 0
      <3>1. wager'[r] = [wager[r] EXCEPT ![b] = new]
        BY <1>3, <1>4, <2>4
      <3>2. wager[r] \in [Bettors -> [racer : Racer, stake : Nat]]
        BY <1>4
      <3>3. /\ SumOver(StakesOf(wager'[r]), Bettors) = SumOver(StakesOf(wager[r]), Bettors) + amount
            /\ \A d \in Racer : SumOver(BackingOf(wager'[r], d), Bettors) =
                 SumOver(BackingOf(wager[r], d), Bettors) + (IF d = racer THEN amount ELSE 0)
        BY <1>1, <1>2, <3>1, <3>2, BetSums
      <3>4. /\ totalPool'[r] = totalPool[r] + amount
            /\ \A d \in Racer : pool'[r][d] = pool[r][d] + (IF d = racer THEN amount ELSE 0)
        BY <1>1, <1>3, <1>4
      <3> QED BY <2>1, <2>4, <3>3, <3>4
    <2> QED BY <2>2, <2>3, <2>4
  <1>9. Covered'
    <2> DEFINE o == OwedTo
               n == OwedTo'
    <2>1. \A q \in RaceId \ {r} : n[q] = o[q]
      <3> SUFFICES ASSUME NEW q \in RaceId, q # r PROVE n[q] = o[q]
        OBVIOUS
      <3>1. /\ stake'[q] = stake[q] /\ pick'[q] = pick[q] /\ pool'[q] = pool[q]
            /\ totalPool'[q] = totalPool[q] /\ winner'[q] = winner[q] /\ status'[q] = status[q]
        BY <1>3, <1>4
      <3>2. Due(q)' = Due(q)
        BY <3>1 DEF Due, Payout
      <3> QED BY <3>1, <3>2 DEF OwedTo
    <2>2. n[r] = o[r] + amount
      BY <1>1, <1>3, <1>4 DEF OwedTo
    <2>3. \A q \in RaceId : o[q] \in Nat
      BY OwedToType DEF IInv
    <2>4. \A q \in RaceId : n[q] \in Nat
      BY <1>1, <2>1, <2>2, <2>3
    <2>5. usdc'[Market] = usdc[Market] + amount
      BY <1>1, <1>3, <1>4
    <2>6. usdc[Market] >= SumOver(o, RaceId)
      BY DEF IInv, Covered
    <2> HIDE DEF o, n
    <2>7. usdc'[Market] >= SumOver(n, RaceId)
      <3>1. usdc'[Market] \in Nat /\ usdc'[Market] - usdc[Market] >= n[r] - o[r]
        BY <1>1, <2>2, <2>3, <2>5
      <3> QED BY <1>1, <2>1, <2>3, <2>4, <2>6, <3>1, CoveredStep
    <2> QED BY <2>7 DEF Covered, n
  <1> QED BY <1>6, <1>7, <1>8, <1>9 DEF IInv
(* Settling turns a pot into the shares of the winner's backers, which the *)
(* pot covers: whoever the judge names, backed or not.                     *)
LEMMA SettledShares ==
  ASSUME IInv, NEW r \in RaceId, status[r] = "Open", NEW verdict \in Verdict,
         NEW g,
         \A b \in Bettors : g[b] =
           IF stake[r][b] > 0 /\ pick[r][b] = verdict
           THEN IF pool[r][verdict] = 0 THEN 0
                ELSE (stake[r][b] * totalPool[r]) \div pool[r][verdict]
           ELSE 0
  PROVE  SumOver(g, Bettors) <= totalPool[r]
  <1>1. totalPool[r] \in Nat
    BY DEF IInv, MarketType
  <1>2. CASE \A b \in Bettors : g[b] = 0
    <2>1. SumOver(g, Bettors) = 0
      BY <1>2, SumZero, BettorsFinite
    <2> QED BY <1>1, <2>1
  <1>3. CASE verdict \in Racer /\ pool[r][verdict] # 0
    <2> DEFINE h == BackingOf(wager[r], verdict)
               t == totalPool[r]
    <2>1. SumOver(h, Bettors) = pool[r][verdict] /\ pool[r][verdict] \in Nat
      BY <1>3 DEF IInv, MarketType, PoolsAreSums
    <2>2. \A b \in Bettors : h[b] \in Nat
      BY DEF IInv, MarketType, BackingOf
    <2>3. \A b \in Bettors : g[b] = (h[b] * t) \div pool[r][verdict]
      <3> SUFFICES ASSUME NEW b \in Bettors PROVE g[b] = (h[b] * t) \div pool[r][verdict]
        OBVIOUS
      <3>1. stake[r][b] = wager[r][b].stake /\ stake[r][b] \in Nat
            /\ (stake[r][b] # 0 => pick[r][b] = wager[r][b].racer)
        BY DEF IInv, MarketType, BetsRecorded
      <3>2. CASE stake[r][b] > 0 /\ pick[r][b] = verdict
        <4>1. h[b] = stake[r][b]
          BY <3>1, <3>2 DEF BackingOf
        <4> QED BY <1>3, <3>2, <4>1
      <3>3. CASE ~(stake[r][b] > 0 /\ pick[r][b] = verdict)
        <4>1. h[b] = 0 /\ g[b] = 0
          BY <3>1, <3>3 DEF BackingOf
        <4>2. 0 * t = 0 /\ 0 \div pool[r][verdict] = 0
          BY <1>1, <1>3, <2>1
        <4> QED BY <4>1, <4>2
      <3> QED BY <3>2, <3>3
    <2> HIDE DEF h
    <2>4. SumOver(h, Bettors) > 0
      BY <1>3, <2>1
    <2>5. \A b \in Bettors : g[b] = (h[b] * t) \div SumOver(h, Bettors)
      BY <2>1, <2>3
    <2> HIDE DEF t
    <2>6. t \in Nat
      BY <1>1 DEF t
    <2>7. SumOver(g, Bettors) <= t
      BY <2>2, <2>4, <2>5, <2>6, BettorsFinite, SharesWithin
    <2> QED BY <2>7 DEF t
  <1>4. verdict \notin Racer => \A b \in Bettors : g[b] = 0
    <2>1. \A b \in Bettors : pick[r][b] \in Racer
      BY DEF IInv, MarketType
    <2> QED BY <2>1
  <1>5. pool[r][verdict] = 0 => \A b \in Bettors : g[b] = 0
    OBVIOUS
  <1> QED BY <1>2, <1>3, <1>4, <1>5

LEMMA SettleIInv ==
  ASSUME IInv, NEW sender \in Keys, NEW r \in RaceId, NEW verdict \in Verdict,
         settle(sender, r, verdict)
  PROVE  IInv'
  <1>1. /\ status[r] = "Open"
        /\ status' = [status EXCEPT ![r] = "Settled"]
        /\ winner' = [winner EXCEPT ![r] = verdict]
        /\ UNCHANGED <<numRacers, pool, totalPool, pick, stake, nextRaceId, usdc, wager>>
    BY DEF settle, CanSettle
  <1>2. MarketType'
    BY <1>1 DEF IInv, MarketType
  <1>3. BetsRecorded'
    BY <1>1 DEF IInv, MarketType, BetsRecorded
  <1>4. PoolsAreSums'
    BY <1>1 DEF IInv, PoolsAreSums
  <1>5. Covered'
    <2> DEFINE o == OwedTo
               n == OwedTo'
               g == Due(r)'
    <2>1. \A q \in RaceId \ {r} : n[q] = o[q]
      <3> SUFFICES ASSUME NEW q \in RaceId, q # r PROVE n[q] = o[q]
        OBVIOUS
      <3>1. winner'[q] = winner[q] /\ status'[q] = status[q]
        BY <1>1 DEF IInv, MarketType
      <3>2. Due(q)' = Due(q)
        BY <1>1, <3>1 DEF Due, Payout
      <3> QED BY <1>1, <3>1, <3>2 DEF OwedTo
    <2>2. winner'[r] = verdict /\ status'[r] = "Settled"
      BY <1>1 DEF IInv, MarketType
    <2>3. \A b \in Bettors : g[b] =
            IF stake[r][b] > 0 /\ pick[r][b] = verdict
            THEN IF pool[r][verdict] = 0 THEN 0
                 ELSE (stake[r][b] * totalPool[r]) \div pool[r][verdict]
            ELSE 0
      BY <1>1, <2>2 DEF Due, Payout
    <2>4. n[r] = SumOver(g, Bettors) /\ o[r] = totalPool[r]
      BY <1>1, <2>2 DEF OwedTo
    <2> HIDE DEF g
    <2>5. SumOver(g, Bettors) <= totalPool[r]
      BY <1>1, <2>3, SettledShares
    <2>6. \A q \in RaceId : o[q] \in Nat
      BY OwedToType DEF IInv
    <2>7. SumOver(g, Bettors) \in Nat
      <3>1. \A b \in Bettors : g[b] \in Nat
        <4> SUFFICES ASSUME NEW b \in Bettors PROVE g[b] \in Nat
          OBVIOUS
        <4>1. CASE stake[r][b] > 0 /\ pick[r][b] = verdict /\ pool[r][verdict] # 0
          <5>1. pool[r][verdict] \in Nat /\ stake[r][b] \in Nat /\ totalPool[r] \in Nat
            BY <4>1 DEF IInv, MarketType
          <5>2. stake[r][b] * totalPool[r] \in Nat
            BY <5>1
          <5>3. \A i \in Nat, j \in Nat : j # 0 => i \div j \in Nat
            OBVIOUS
          <5>4. (stake[r][b] * totalPool[r]) \div pool[r][verdict] \in Nat
            BY <4>1, <5>1, <5>2, <5>3
          <5> QED BY <2>3, <4>1, <5>4
        <4>2. CASE ~(stake[r][b] > 0 /\ pick[r][b] = verdict /\ pool[r][verdict] # 0)
          BY <2>3, <4>2
        <4> QED BY <4>1, <4>2
      <3> QED BY <3>1, SumType, BettorsFinite
    <2>8. \A q \in RaceId : n[q] \in Nat
      BY <2>1, <2>4, <2>6, <2>7
    <2>9. usdc[Market] >= SumOver(o, RaceId) /\ usdc[Market] \in Nat
      BY DEF IInv, MarketType, Account, Covered
    <2>10. n[r] <= o[r]
      BY <2>4, <2>5
    <2> HIDE DEF o, n
    <2>11. usdc[Market] >= SumOver(n, RaceId)
      <3>1. usdc[Market] - usdc[Market] >= n[r] - o[r]
        BY <2>6, <2>8, <2>9, <2>10
      <3> QED BY <2>1, <2>6, <2>8, <2>9, <3>1, CoveredStep
    <2> QED BY <1>1, <2>11 DEF Covered, n
  <1> QED BY <1>2, <1>3, <1>4, <1>5 DEF IInv

LEMMA ClaimIInv ==
  ASSUME IInv, NEW b \in Bettors, NEW r \in RaceId, claim(b, r)
  PROVE  IInv'
  <1> DEFINE pay == Payout(r, b)
  <1>1. /\ status[r] = "Settled" /\ pick[r][b] = winner[r] /\ stake[r][b] > 0
        /\ pay <= usdc[Market]
        /\ stake' = [stake EXCEPT ![r][b] = 0]
        /\ usdc' = [usdc EXCEPT ![Market] = @ - pay, ![b] = @ + pay]
        /\ UNCHANGED <<status, winner, numRacers, pool, totalPool, pick, nextRaceId, wager>>
    BY DEF claim, StakeCleared
  <1>2. pay \in Nat /\ Due(r)[b] = pay
    BY <1>1, DueType DEF Due, IInv
  <1> HIDE DEF pay
  <1>3. /\ usdc \in [Account -> Nat] /\ stake \in [RaceId -> [Bettors -> Nat]]
        /\ b \in Account /\ Market \in Account /\ b # Market
        /\ usdc[Market] \in Nat /\ usdc[b] \in Nat
    BY MarketAssumption DEF IInv, MarketType, Account
  <1>4. MarketType'
    <2>1. usdc' \in [Account -> Nat]
      <3>1. usdc[Market] - pay \in Nat /\ usdc[b] + pay \in Nat
        BY <1>1, <1>2, <1>3
      <3>2. usdc' = [usdc EXCEPT ![Market] = usdc[Market] - pay, ![b] = usdc[b] + pay]
        BY <1>1, <1>3
      <3> QED BY <1>3, <3>1, <3>2
    <2>2. stake' \in [RaceId -> [Bettors -> Nat]]
      BY <1>1, <1>3
    <2> QED BY <1>1, <2>1, <2>2 DEF IInv, MarketType
  <1>5. \A q \in RaceId, x \in Bettors :
          stake'[q][x] = IF q = r /\ x = b THEN 0 ELSE stake[q][x]
    BY <1>1, <1>3
  <1>6. BetsRecorded'
    BY <1>1, <1>5 DEF IInv, BetsRecorded
  <1>7. PoolsAreSums'
    BY <1>1 DEF IInv, PoolsAreSums
  <1>8. Covered'
    <2> DEFINE o == OwedTo
               n == OwedTo'
               g == Due(r)
               k == Due(r)'
    <2>1. \A q \in RaceId \ {r} : n[q] = o[q]
      <3> SUFFICES ASSUME NEW q \in RaceId, q # r PROVE n[q] = o[q]
        OBVIOUS
      <3>1. stake'[q] = stake[q]
        BY <1>1, <1>3
      <3>2. Due(q)' = Due(q)
        BY <1>1, <3>1 DEF Due, Payout
      <3> QED BY <1>1, <3>2 DEF OwedTo
    <2>2. n[r] = SumOver(k, Bettors) /\ o[r] = SumOver(g, Bettors)
      BY <1>1 DEF OwedTo
    <2>3. \A x \in Bettors : g[x] \in Nat
      BY DueType DEF IInv
    <2>4. k[b] = 0 /\ g[b] = pay
      BY <1>2, <1>5 DEF Due
    <2>5. \A x \in Bettors \ {b} : k[x] = g[x]
      BY <1>1, <1>5 DEF Due, Payout
    <2> HIDE DEF g, k
    <2>6. \A x \in Bettors : g[x] \in Nat /\ k[x] \in Nat
      BY <2>3, <2>4, <2>5
    <2>7. SumOver(k, Bettors) - SumOver(g, Bettors) = k[b] - g[b]
      BY <2>5, <2>6, BettorsFinite, SumUpdate
    <2>8. SumOver(k, Bettors) \in Nat /\ SumOver(g, Bettors) \in Nat
      BY <2>6, SumType, BettorsFinite
    <2>9. \A q \in RaceId : o[q] \in Nat
      BY OwedToType DEF IInv
    <2>10. \A q \in RaceId : n[q] \in Nat
      BY <2>1, <2>2, <2>8, <2>9
    <2>11. usdc[Market] >= SumOver(o, RaceId)
      BY DEF IInv, Covered
    <2> HIDE DEF o, n
    <2>12. usdc'[Market] = usdc[Market] - pay /\ usdc'[Market] \in Nat
      BY <1>1, <1>2, <1>3
    <2>13. usdc'[Market] >= SumOver(n, RaceId)
      <3>1. usdc'[Market] - usdc[Market] >= n[r] - o[r]
        BY <1>2, <1>3, <2>2, <2>4, <2>7, <2>8, <2>12
      <3> QED BY <1>3, <2>1, <2>9, <2>10, <2>11, <2>12, <3>1, CoveredStep
    <2> QED BY <2>13 DEF Covered, n
  <1> QED BY <1>4, <1>6, <1>7, <1>8 DEF IInv

LEMMA StillIInv ==
  ASSUME IInv, (\E key \in Keys : setJudge(key)) \/ UNCHANGED marketVars
  PROVE  IInv'
  <1>1. UNCHANGED <<status, winner, numRacers, pool, totalPool, pick, stake, nextRaceId, usdc, wager>>
    BY DEF setJudge, marketVars
  <1>2. OwedTo' = OwedTo
    BY <1>1 DEF OwedTo, Due, Payout
  <1> QED BY <1>1, <1>2 DEF IInv, MarketType, BetsRecorded, PoolsAreSums, Covered

LEMMA NextIInv == IInv /\ [MarketNext]_marketVars => IInv'
  <1> SUFFICES ASSUME IInv, [MarketNext]_marketVars PROVE IInv'
    OBVIOUS
  <1> QED BY OpenIInv, BetIInv, SettleIInv, ClaimIInv, StillIInv DEF MarketNext

(* The invariant holds in every behaviour of the contract.                 *)
THEOREM InvariantHolds == MarketSpec => []IInv
  BY InitIInv, NextIInv, PTL DEF MarketSpec

(* Every claim can be paid, for any number of races, racers and bettors    *)
(* and in any order: rounding never makes the market owe more than it has. *)
THEOREM ClaimsPayable == MarketSpec => []ClaimsCovered
  <1>1. IInv => ClaimsCovered
    BY CoveredIsSum DEF IInv
  <1> QED BY <1>1, InvariantHolds, PTL
-----------------------------------------------------------------------------
(* The contract implements BetPool.                                        *)

MappedVerdict == [r \in RaceId |-> IF status[r] = "Settled" THEN winner[r] ELSE -1]
MappedCollected ==
  [r \in RaceId |-> {b \in Bettors : wager[r][b].stake > 0 /\ stake[r][b] = 0}]
MappedPurse == [b \in Bettors |-> usdc[b]]

(* The pot and the backing of BetPool are the pools the contract keeps.    *)
LEMMA PotIsSum ==
  ASSUME NEW r \in RaceId
  PROVE  Bets!Pot(r) = SumOver(StakesOf(wager[r]), Bettors)
  <1> DEFINE g == StakesOf(wager[r])
             P(f) == f = [s \in SUBSET Bettors |->
                            IF s = {} THEN 0 ELSE wager[r][Pick(s)].stake + f[s \ {Pick(s)}]]
             own == CHOOSE f : P(f)
  <1>1. Bets!Pot(r) = own[Bettors]
    BY Zenon DEF Bets!Pot, Bets!MapThenSumSet, Bets!MapThenFoldSet, MapThenSumSet, MapThenFoldSet, Pick
  <1>2. \A s \in SUBSET Bettors : s # {} => wager[r][Pick(s)].stake = g[Pick(s)]
    BY PickIn DEF StakesOf
  <1> HIDE DEF g
  <1>3. \A f : P(f) <=> IsFold(f, g, Bettors)
    <2> SUFFICES ASSUME NEW f
                 PROVE  [s \in SUBSET Bettors |->
                           IF s = {} THEN 0 ELSE wager[r][Pick(s)].stake + f[s \ {Pick(s)}]]
                      = [s \in SUBSET Bettors |-> IF s = {} THEN 0 ELSE g[Pick(s)] + f[s \ {Pick(s)}]]
      BY DEF IsFold
    <2> HIDE DEF P, own
    <2> QED BY <1>2
  <1>4. \E f : P(f)
    BY <1>3, FoldExists, BettorsFinite
  <1>5. P(own)
    BY <1>4, Zenon
  <1> HIDE DEF P, own
  <1>6. IsFold(own, g, Bettors)
    BY <1>3, <1>5
  <1> QED BY <1>1, <1>6, SumIsFold, BettorsFinite DEF g

LEMMA BackingIsSum ==
  ASSUME NEW r \in RaceId, NEW c \in Racer
  PROVE  Bets!Backing(r, c) = SumOver(BackingOf(wager[r], c), Bettors)
  <1> DEFINE g == BackingOf(wager[r], c)
             e(b) == IF wager[r][b].racer = c THEN wager[r][b].stake ELSE 0
             P(f) == f = [s \in SUBSET Bettors |->
                            IF s = {} THEN 0 ELSE e(Pick(s)) + f[s \ {Pick(s)}]]
             own == CHOOSE f : P(f)
  <1>1. Bets!Backing(r, c) = own[Bettors]
    BY Zenon DEF Bets!Backing, Bets!MapThenSumSet, Bets!MapThenFoldSet, MapThenSumSet, MapThenFoldSet, Pick
  <1>2. \A s \in SUBSET Bettors : s # {} => e(Pick(s)) = g[Pick(s)]
    BY PickIn DEF BackingOf
  <1> HIDE DEF g, e
  <1>3. \A f : P(f) <=> IsFold(f, g, Bettors)
    <2> SUFFICES ASSUME NEW f
                 PROVE  [s \in SUBSET Bettors |-> IF s = {} THEN 0 ELSE e(Pick(s)) + f[s \ {Pick(s)}]]
                      = [s \in SUBSET Bettors |-> IF s = {} THEN 0 ELSE g[Pick(s)] + f[s \ {Pick(s)}]]
      BY DEF IsFold
    <2> HIDE DEF P, own
    <2> QED BY <1>2
  <1>4. \E f : P(f)
    BY <1>3, FoldExists, BettorsFinite
  <1>5. P(own)
    BY <1>4, Zenon
  <1> HIDE DEF P, own
  <1>6. IsFold(own, g, Bettors)
    BY <1>3, <1>5
  <1> QED BY <1>1, <1>6, SumIsFold, BettorsFinite DEF g

(* A backer of the winner is paid the share BetPool promises.              *)
LEMMA ShareIsPayout ==
  ASSUME IInv, NEW r \in RaceId, NEW b \in Bettors,
         status[r] = "Settled", stake[r][b] > 0, pick[r][b] = winner[r]
  PROVE  Bets!Share(r, b) = Payout(r, b)
  <1>1. /\ stake[r][b] = wager[r][b].stake /\ wager[r][b].racer = winner[r]
        /\ winner[r] \in Racer /\ stake[r][b] \in Nat
    BY DEF IInv, MarketType, BetsRecorded
  <1>2. Bets!Pot(r) = totalPool[r]
    BY PotIsSum DEF IInv, PoolsAreSums
  <1>3. Bets!Backing(r, winner[r]) = pool[r][winner[r]]
    BY <1>1, BackingIsSum DEF IInv, PoolsAreSums
  <1>4. pool[r][winner[r]] > 0
    <2> DEFINE g == BackingOf(wager[r], winner[r])
    <2>1. \A x \in Bettors : g[x] \in Nat
      BY DEF IInv, MarketType, BackingOf
    <2>2. g[b] = stake[r][b] /\ SumOver(g, Bettors) = pool[r][winner[r]]
      BY <1>1 DEF IInv, PoolsAreSums, BackingOf
    <2> HIDE DEF g
    <2>3. SumOver(g, Bettors) >= g[b] /\ SumOver(g, Bettors) \in Nat
      BY <2>1, BettorsFinite, SumAtLeast, SumType
    <2> QED BY <1>1, <2>2, <2>3
  <1>5. Bets!Share(r, b) = (wager[r][b].stake * Bets!Pot(r)) \div Bets!Backing(r, winner[r])
    BY DEF Bets!Share
  <1> QED BY <1>1, <1>2, <1>3, <1>4, <1>5 DEF Payout

LEMMA InitMaps == MarketInit => Bets!Init
  <1> SUFFICES ASSUME MarketInit PROVE Bets!Init
    OBVIOUS
  <1>1. MappedVerdict = [r \in RaceId |-> -1] /\ MappedCollected = [r \in RaceId |-> {}]
    BY DEF MarketInit, MappedVerdict, MappedCollected
  <1>2. MappedPurse \in [Bettors -> Nat] /\ usdc[Market] = 0
    BY MarketAssumption DEF MarketInit, MappedPurse, Account
  <1>3. wager = [r \in RaceId |-> [b \in Bettors |-> Bets!NoWager]]
    BY DEF MarketInit, Bets!NoWager
  <1> QED BY <1>1, <1>2, <1>3 DEF Bets!Init, MappedVerdict, MappedCollected, MappedPurse

(* The judge's choice and the opening of races are no step of a bettor's.  *)
LEMMA BetMaps ==
  ASSUME IInv, NEW b \in Bettors, NEW r \in RaceId, NEW racer \in Verdict,
         NEW amount \in 0..MaxBet, NEW nullifier \in Nullifiers,
         bet(b, r, racer, amount, nullifier)
  PROVE  \/ UNCHANGED Bets!betVars
         \/ /\ racer \in Racer /\ amount \in 1..MaxBet
            /\ Bets!Back(r, b, racer, amount)
  <1>1. /\ status[r] = "Open" /\ racer < numRacers[r] /\ numRacers[r] \in {0, RacerCount}
        /\ stake[r][b] = 0 /\ amount <= usdc[b]
        /\ stake' = [stake EXCEPT ![r][b] = amount]
        /\ usdc' = [usdc EXCEPT ![b] = @ - amount, ![Market] = @ + amount]
        /\ wager' = IF amount = 0 THEN wager
                    ELSE [wager EXCEPT ![r][b] = [racer |-> racer, stake |-> amount]]
        /\ UNCHANGED <<status, winner>>
    BY DEF bet, CanBet, IInv, MarketType
  <1>2. /\ racer \in Racer /\ amount \in Nat /\ usdc[b] \in Nat /\ usdc[Market] \in Nat
        /\ b # Market /\ b \in Account /\ Market \in Account /\ Bettors \subseteq Account
        /\ usdc \in [Account -> Nat] /\ Market \notin Bettors
    <2>1. b \in Account /\ Market \in Account /\ Bettors \subseteq Account
      BY DEF Account
    <2>2. b # Market /\ Market \notin Bettors
      BY MarketAssumption
    <2>3. usdc \in [Account -> Nat]
      BY DEF IInv, MarketType
    <2>4. racer \in Racer
      BY <1>1, MarketAssumption DEF Verdict, Racer
    <2>5. amount \in Nat
      BY MarketAssumption
    <2> QED BY <2>1, <2>2, <2>3, <2>4, <2>5
  <1>3. wager[r][b] = Bets!NoWager /\ wager[r][b].stake = 0
    BY <1>1 DEF IInv, BetsRecorded, NoBet, Bets!NoWager
  <1>4. MappedVerdict' = MappedVerdict
    BY <1>1 DEF MappedVerdict
  <1>5. MappedPurse' = [MappedPurse EXCEPT ![b] = @ - amount] /\ usdc'[Market] = usdc[Market] + amount
    BY <1>1, <1>2 DEF MappedPurse
  <1>6. MappedCollected' = MappedCollected
    <2> SUFFICES ASSUME NEW q \in RaceId, NEW x \in Bettors
                 PROVE  (wager'[q][x].stake > 0 /\ stake'[q][x] = 0)
                          <=> (wager[q][x].stake > 0 /\ stake[q][x] = 0)
      BY DEF MappedCollected
    <2>1. wager[q][x] \in [racer : Racer, stake : Nat] /\ stake[q][x] \in Nat
      BY DEF IInv, MarketType
    <2>2. CASE q = r /\ x = b
      <3>1. stake'[r][b] = amount
        BY <1>1 DEF IInv, MarketType
      <3>2. amount = 0 => wager'[r][b] = wager[r][b]
        BY <1>1
      <3> QED BY <1>2, <1>3, <2>2, <3>1, <3>2
    <2>3. CASE ~(q = r /\ x = b)
      <3>1. stake'[q][x] = stake[q][x] /\ wager'[q][x] = wager[q][x]
        BY <1>1, <2>3 DEF IInv, MarketType
      <3> QED BY <3>1
    <2> QED BY <2>2, <2>3
  <1>7. CASE amount = 0
    <2>1. MappedPurse' = MappedPurse /\ usdc'[Market] = usdc[Market] /\ wager' = wager
      BY <1>1, <1>2, <1>5, <1>7 DEF MappedPurse
    <2> QED BY <1>4, <1>6, <2>1 DEF Bets!betVars, MappedVerdict, MappedCollected, MappedPurse
  <1>8. CASE amount # 0
    <2>1. MappedVerdict[r] = -1 /\ amount <= MappedPurse[b] /\ 0 < amount /\ amount \in 1..MaxBet
      BY <1>1, <1>2, <1>8 DEF MappedVerdict, MappedPurse
    <2>2. wager' = [wager EXCEPT ![r][b] = [racer |-> racer, stake |-> amount]]
      BY <1>1, <1>8
    <2>3. Bets!Back(r, b, racer, amount)
      BY <1>3, <1>4, <1>5, <1>6, <2>1, <2>2
         DEF Bets!Back, MappedVerdict, MappedCollected, MappedPurse
    <2> QED BY <1>2, <2>1, <2>3
  <1> QED BY <1>7, <1>8

LEMMA SettleMaps ==
  ASSUME IInv, NEW sender \in Keys, NEW r \in RaceId, NEW c \in Verdict, settle(sender, r, c)
  PROVE  Bets!Decide(r, c)
  <1>1. /\ status[r] = "Open"
        /\ status' = [status EXCEPT ![r] = "Settled"]
        /\ winner' = [winner EXCEPT ![r] = c]
        /\ UNCHANGED <<stake, usdc, wager>>
    BY DEF settle, CanSettle
  <1>2. MappedVerdict[r] = -1 /\ MappedVerdict' = [MappedVerdict EXCEPT ![r] = c]
    BY <1>1 DEF MappedVerdict, IInv, MarketType
  <1>3. MappedCollected' = MappedCollected /\ MappedPurse' = MappedPurse
    BY <1>1 DEF MappedCollected, MappedPurse
  <1> QED BY <1>1, <1>2, <1>3 DEF Bets!Decide, MappedVerdict, MappedCollected, MappedPurse

LEMMA ClaimMaps ==
  ASSUME IInv, NEW b \in Bettors, NEW r \in RaceId, claim(b, r)
  PROVE  Bets!Collect(r, b)
  <1> DEFINE pay == Payout(r, b)
  <1>1. /\ status[r] = "Settled" /\ pick[r][b] = winner[r] /\ stake[r][b] > 0
        /\ stake' = [stake EXCEPT ![r][b] = 0]
        /\ usdc' = [usdc EXCEPT ![Market] = @ - pay, ![b] = @ + pay]
        /\ UNCHANGED <<status, winner, wager>>
    BY DEF claim, StakeCleared
  <1>2. Bets!Share(r, b) = pay
    BY <1>1, ShareIsPayout
  <1> HIDE DEF pay
  <1>3. /\ stake[r][b] = wager[r][b].stake /\ wager[r][b].racer = winner[r]
        /\ stake[r][b] \in Nat /\ stake \in [RaceId -> [Bettors -> Nat]]
    <2>1. stake \in [RaceId -> [Bettors -> Nat]]
      BY DEF IInv, MarketType
    <2>2. stake[r][b] = wager[r][b].stake /\ wager[r][b].racer = winner[r]
      BY <1>1 DEF IInv, BetsRecorded
    <2> QED BY <2>1, <2>2
  <1>4. MappedVerdict' = MappedVerdict /\ MappedVerdict[r] = wager[r][b].racer
    BY <1>1, <1>3 DEF MappedVerdict
  <1>5. b \notin MappedCollected[r]
    BY <1>1, <1>3 DEF MappedCollected
  <1>6. MappedCollected' = [MappedCollected EXCEPT ![r] = @ \cup {b}]
    <2>1. \A q \in RaceId, x \in Bettors :
            stake'[q][x] = IF q = r /\ x = b THEN 0 ELSE stake[q][x]
      BY <1>1, <1>3
    <2>2. \A q \in RaceId : MappedCollected'[q] =
            IF q = r THEN MappedCollected[r] \cup {b} ELSE MappedCollected[q]
      BY <1>1, <1>3, <2>1 DEF MappedCollected
    <2>3. MappedCollected' = [q \in RaceId |-> MappedCollected'[q]]
      BY DEF MappedCollected
    <2>4. MappedCollected = [q \in RaceId |-> MappedCollected[q]]
      BY DEF MappedCollected
    <2> HIDE DEF MappedCollected
    <2> QED BY <2>2, <2>3, <2>4
  <1>7. MappedPurse' = [MappedPurse EXCEPT ![b] = @ + pay] /\ usdc'[Market] = usdc[Market] - pay
    <2>1. b # Market /\ Market \notin Bettors /\ Bettors \subseteq Account /\ Market \in Account
          /\ usdc \in [Account -> Nat]
      BY MarketAssumption DEF Account, IInv, MarketType
    <2> QED BY <1>1, <2>1 DEF MappedPurse
  <1> QED BY <1>1, <1>2, <1>3, <1>4, <1>5, <1>6, <1>7
          DEF Bets!Collect, MappedVerdict, MappedCollected, MappedPurse

LEMMA StillMaps ==
  ASSUME IInv,
         \/ \E sender \in Keys : openRace(sender)
         \/ \E key \in Keys : setJudge(key)
         \/ UNCHANGED marketVars
  PROVE  UNCHANGED Bets!betVars
  <1>1. UNCHANGED <<winner, stake, usdc, wager>>
    BY DEF openRace, setJudge, marketVars
  <1>2. MappedVerdict' = MappedVerdict
    <2>1. CASE UNCHANGED status
      BY <1>1, <2>1 DEF MappedVerdict
    <2>2. ASSUME NEW sender \in Keys, openRace(sender)
          PROVE  MappedVerdict' = MappedVerdict
      <3>1. nextRaceId \in RaceId
        BY <2>2, MarketAssumption DEF openRace, CanOpen, IInv, MarketType, RaceId
      <3>2. status[nextRaceId] = "None" /\ status' = [status EXCEPT ![nextRaceId] = "Open"]
        BY <2>2, <3>1 DEF openRace, IInv, BetsRecorded, RaceId
      <3> QED BY <1>1, <3>1, <3>2 DEF MappedVerdict, IInv, MarketType
    <2> QED BY <2>1, <2>2 DEF setJudge, marketVars
  <1>3. MappedCollected' = MappedCollected /\ MappedPurse' = MappedPurse
    BY <1>1 DEF MappedCollected, MappedPurse
  <1> QED BY <1>1, <1>2, <1>3 DEF Bets!betVars, MappedVerdict, MappedCollected, MappedPurse

LEMMA NextMaps == IInv /\ [MarketNext]_marketVars => [Bets!Next]_(Bets!betVars)
  <1> SUFFICES ASSUME IInv, [MarketNext]_marketVars PROVE [Bets!Next]_(Bets!betVars)
    OBVIOUS
  <1>1. ASSUME NEW b \in Bettors, NEW r \in RaceId, NEW racer \in Verdict,
               NEW amount \in 0..MaxBet, NEW nullifier \in Nullifiers,
               bet(b, r, racer, amount, nullifier)
        PROVE  [Bets!Next]_(Bets!betVars)
    BY <1>1, BetMaps DEF Bets!Next
  <1>2. ASSUME NEW sender \in Keys, NEW r \in RaceId, NEW c \in Verdict, settle(sender, r, c)
        PROVE  Bets!Next
    BY <1>2, SettleMaps DEF Bets!Next
  <1>3. ASSUME NEW b \in Bettors, NEW r \in RaceId, claim(b, r)
        PROVE  Bets!Next
    BY <1>3, ClaimMaps DEF Bets!Next
  <1> QED BY <1>1, <1>2, <1>3, StillMaps DEF MarketNext

(* The contract keeps BetPool's promise for any number of races, racers    *)
(* and bettors: each backer of the winner is paid once, the share of the   *)
(* whole pot the wager has in the winner's backing, and nothing else.      *)
THEOREM Refinement == MarketSpec => ImplementsBetPool
  BY InitMaps, NextMaps, InvariantHolds, PTL DEF MarketSpec, ImplementsBetPool, Bets!Spec
-----------------------------------------------------------------------------
(* The room in front of the market (BettingRoom).                          *)

Named == Racer \cup {UnknownRacer}
RaceNumber == NoRace..MaxRaces
Waiting == {"sent", "mined", "orphan"}

RequestRecord ==
  [kind : {"none", "open", "bet", "finish"},
   pc : {"idle", "reading", "verifying", "camera"} \cup Waiting,
   race : RaceNumber, id : 0..MaxOpens, racer : Named, amount : 0..MaxBet,
   human : Nullifiers \cup {0}, took : BOOLEAN]

(* A request under way is of the kind its stretch of code belongs to, and  *)
(* one whose transaction is sent has something to send.                    *)
RequestSound(q) ==
  /\ q.kind = "none" => q = Idle
  /\ q.pc = "idle" => q.kind = "none"
  /\ q.pc = "reading" => q.kind = "open"
  /\ q.pc = "verifying" => q.kind = "bet"
  /\ q.pc = "camera" => q.kind = "finish"
  /\ q.pc \in Waiting => q.race # NoRace /\ (q.kind # "open" => q.racer \in Racer)
  /\ q.kind = "open" => q.id \in LocalId
  /\ q.kind = "bet" => q.human \in Nullifiers /\ q.amount \in BetAmounts
  /\ q.took => q.pc = "mined" /\ (q.kind = "bet" => q.race < nextRaceId)

CurrentSound ==
  /\ current # NoCurrent => current.id = opens
  /\ current = NoCurrent => bets = {}

RoomType ==
  /\ current \in {NoCurrent} \cup
                  [id : LocalId, status : {"betting", "armed", "racing", "finished"}]
  /\ bets \subseteq [human : Nullifiers, racer : Named, amount : BetAmounts,
                      backed : RaceId \cup {NoRace}]
  /\ onChainRaceId \in RaceNumber
  /\ opens \in 0..MaxOpens
  /\ opened \in [LocalId -> RaceNumber]
  /\ result \in [LocalId -> Named]
  /\ untimely \in [LocalId -> SUBSET Circumstance]
  /\ request \in [Handlers -> RequestRecord]

(* What holds of the room whatever was under way when its races were       *)
(* opened.                                                                 *)
RoomBase ==
  /\ RoomType
  /\ \A h \in Handlers : RequestSound(request[h])
  /\ CurrentSound

(* What was under way when the races were opened, as far as it matters to  *)
(* the last race's opening, to its bets, and to the results of all races.  *)
OpenClear == opens \in LocalId => "open" \notin untimely[opens]
BetClear == opens \in LocalId => untimely[opens] \cap {"open", "bet"} = {}
Timely == \A i \in LocalId : untimely[i] \subseteq {"bet"}

(* r is the market race of the room's last race: the one it caused, or,    *)
(* when the transaction had no effect, one that nobody has opened.         *)
Linked(r) ==
  /\ opens \in LocalId
  /\ r = IF opened[opens] = NoRace THEN nextRaceId ELSE opened[opens]

NoOpens == \A g \in Handlers : request[g].kind # "open"

(* The result recorded for race i of the room is not going to change.      *)
Final(i) ==
  i \in LocalId /\ i <= opens /\ (i = opens => current.status \in {"finished", "none"})

(* What a handler believes is so, where its race was opened in time.       *)
OpenInTime(q) ==
  q.kind = "open" =>
    /\ q.id <= opens
    /\ OpenClear =>
         /\ q.id = opens
         /\ onChainRaceId = NoRace
         /\ q.pc # "mined" => opened[opens] = NoRace
         /\ q.pc \in {"sent", "orphan"} => q.race = nextRaceId
         /\ q.pc = "mined" => Linked(q.race)

BetInTime(q) ==
  BetClear /\ q.kind = "bet" /\ q.pc \in {"sent", "mined"} => Linked(q.race) /\ NoOpens

(* A finish that has been sent settles the race it was recorded for, which *)
(* need not be the last one any more, or one that nobody has opened.       *)
FinishInTime(q) ==
  Timely /\ q.kind = "finish" =>
    /\ Final(q.id)
    /\ q.racer = result[q.id]
    /\ q.pc = "camera" => q.id = opens
    /\ q.pc \in {"sent", "orphan"} =>
         q.race = opened[q.id] \/ (q.id = opens /\ Linked(q.race) /\ NoOpens)

Sound(q) == OpenInTime(q) /\ BetInTime(q) /\ FinishInTime(q)

HandlersInTime ==
  /\ OpenClear => \A g, h \in Handlers :
                    request[g].kind = "open" /\ request[h].kind = "open" => g = h
  /\ \A h \in Handlers : Sound(request[h])

OddsInTime == BetClear => \A m \in bets : m.backed \in {NoRace, opened[opens]}

ResultsInTime ==
  Timely => \A r \in RaceId : status[r] = "Settled" =>
              \E i \in LocalId : Final(i) /\ opened[i] = r /\ result[i] = winner[r]

RoomInTime ==
  /\ \A i \in LocalId : i > opens => opened[i] = NoRace /\ untimely[i] = {}
  /\ OpenClear /\ onChainRaceId # NoRace => Linked(onChainRaceId) /\ NoOpens
  /\ OddsInTime
  /\ ResultsInTime

(* The two properties of the room are not inductive: they hold because     *)
(* every answer a handler waits for belongs to the race it was asked for.  *)
InTime == HandlersInTime /\ RoomInTime
-----------------------------------------------------------------------------
LEMMA MarketFacts ==
  ASSUME IInv
  PROVE  /\ status \in [RaceId -> {"None", "Open", "Settled"}]
         /\ winner \in [RaceId -> Verdict]
         /\ nextRaceId \in 0..MaxRaces
         /\ \A r \in RaceId : status[r] = "None" <=> r >= nextRaceId
  BY DEF IInv, MarketType, BetsRecorded

LEMMA IdleRequest == Idle \in RequestRecord /\ RequestSound(Idle) /\ RequestSound(Idle)'
  <1>1. 0 \in RaceNumber /\ NoRace \in RaceNumber /\ 0 \in Racer
    BY MarketAssumption DEF RaceNumber, NoRace, Racer
  <1> QED
    BY <1>1, MarketAssumption, RoomAssumption
       DEF Idle, RequestRecord, RequestSound, Named, Waiting, NoRace

(* One request moves on; the others are as they were.                      *)
LEMMA RequestsKept ==
  ASSUME RoomBase, NEW h \in Handlers, NEW q \in RequestRecord, RequestSound(q)',
         request' = [request EXCEPT ![h] = q],
         nextRaceId \in Nat, nextRaceId' \in Nat, nextRaceId' >= nextRaceId
  PROVE  /\ request' \in [Handlers -> RequestRecord]
         /\ \A g \in Handlers : RequestSound(request[g])'
  <1>1. request \in [Handlers -> RequestRecord]
    BY DEF RoomBase, RoomType
  <1>2. ASSUME NEW g \in Handlers PROVE RequestSound(request[g])'
    <2>1. CASE g = h
      BY <1>1, <2>1
    <2>2. CASE g # h
      <3>1. request'[g] = request[g] /\ RequestSound(request[g])
        BY <1>1, <2>2 DEF RoomBase
      <3>2. request[g].race \in Int
        BY <1>1 DEF RequestRecord, RaceNumber, NoRace
      <3> QED BY <3>1, <3>2 DEF RequestSound
    <2> QED BY <2>1, <2>2
  <1> QED BY <1>1, <1>2

(* A bet is mirrored while the room takes bets, with what it is backed by. *)
LEMMA MirrorFacts ==
  ASSUME RoomBase, IInv, NEW h \in Handlers, request[h].kind = "bet", Mirror(h)
  PROVE  /\ bets' \subseteq [human : Nullifiers, racer : Named, amount : BetAmounts,
                             backed : RaceId \cup {NoRace}]
         /\ current = NoCurrent => bets' = bets
         /\ bets' # bets => opens \in LocalId
         /\ \A m \in bets' : m \in bets \/ m.backed = NoRace
                               \/ (request[h].took /\ m.backed = request[h].race)
  <1> DEFINE b == request[h]
             backed == IF b.took THEN b.race ELSE NoRace
             m == [human |-> b.human, racer |-> b.racer, amount |-> b.amount, backed |-> backed]
  <1>1. b \in RequestRecord /\ RequestSound(b)
    BY DEF RoomBase, RoomType
  <1>2. backed \in RaceId \cup {NoRace}
    <2>1. b.took => b.race # NoRace /\ b.race < nextRaceId /\ b.race \in RaceNumber
      BY <1>1 DEF RequestSound, RequestRecord, Waiting
    <2> QED BY <2>1, MarketFacts, MarketAssumption DEF RaceNumber, RaceId, NoRace
  <1>3. m \in [human : Nullifiers, racer : Named, amount : BetAmounts, backed : RaceId \cup {NoRace}]
    <2> HIDE DEF backed
    <2>1. b.human \in Nullifiers /\ b.amount \in BetAmounts /\ b.racer \in Named
      BY <1>1 DEF RequestSound, RequestRecord
    <2> HIDE DEF b
    <2> QED BY <1>2, <2>1
  <1>4. m.backed = backed
    OBVIOUS
  <1>5. bets' = bets \/ (current.status = "betting" /\ bets' = bets \cup {m})
    BY DEF Mirror
  <1>6. current.status = "betting" => current # NoCurrent /\ opens \in LocalId
    <2>1. current \in {NoCurrent} \cup
                       [id : LocalId, status : {"betting", "armed", "racing", "finished"}]
      BY DEF RoomBase, RoomType
    <2>2. current # NoCurrent => current.id = opens
      BY DEF RoomBase, CurrentSound
    <2> QED BY <2>1, <2>2 DEF NoCurrent
  <1>7. bets \subseteq [human : Nullifiers, racer : Named, amount : BetAmounts,
                        backed : RaceId \cup {NoRace}]
    BY DEF RoomBase, RoomType
  <1>8. backed = NoRace \/ (b.took /\ backed = b.race)
    OBVIOUS
  <1> HIDE DEF m, backed, b
  <1> QED BY <1>3, <1>4, <1>5, <1>6, <1>7, <1>8 DEF b

LEMMA RoomInit == Init => RoomBase /\ InTime
  <1> SUFFICES ASSUME Init PROVE RoomBase /\ InTime
    OBVIOUS
  <1>1. RoomBase
    <2>1. RoomType
      <3>1. NoRace \in RaceNumber /\ UnknownRacer \in Named /\ 0 \in 0..MaxOpens
        BY MarketAssumption, RoomAssumption DEF RaceNumber, NoRace, Named
      <3> QED BY <3>1, IdleRequest DEF Init, RoomType
    <2> QED BY <2>1, IdleRequest DEF Init, RoomBase, CurrentSound
  <1>2. HandlersInTime
    BY DEF Init, HandlersInTime, Sound, OpenInTime, BetInTime, FinishInTime, Idle
  <1>3. RoomInTime
    BY DEF Init, MarketInit, RoomInTime, OddsInTime, ResultsInTime, NoCurrent
  <1> QED BY <1>2, <1>1, <1>3 DEF InTime
-----------------------------------------------------------------------------
(* The steps of the room, one request at a time: where the request stands  *)
(* after the step, and that the room keeps its types and its requests      *)
(* their shape.                                                            *)

Rest == <<current, bets, onChainRaceId, opens, opened, result>>

(* What a step does to the market, as far as the room's requests depend on *)
(* it.                                                                     *)
MarketGoesOn ==
  /\ nextRaceId' \in 0..MaxRaces
  /\ nextRaceId' >= nextRaceId

LEMMA QuietBase ==
  ASSUME RoomBase, IInv, MarketGoesOn, NEW h \in Handlers, NEW q \in RequestRecord,
         RequestSound(q)', request' = [request EXCEPT ![h] = q],
         bets' \subseteq [human : Nullifiers, racer : Named, amount : BetAmounts,
                          backed : RaceId \cup {NoRace}],
         current = NoCurrent => bets' = bets,
         UNCHANGED <<current, onChainRaceId, opens, opened, result, untimely>>
  PROVE  RoomBase'
  <1>1. nextRaceId \in Nat /\ nextRaceId' \in Nat /\ nextRaceId' >= nextRaceId
    BY MarketFacts, MarketAssumption DEF MarketGoesOn
  <1>2. /\ request' \in [Handlers -> RequestRecord]
        /\ \A g \in Handlers : RequestSound(request[g])'
    BY <1>1, RequestsKept
  <1> QED BY <1>2 DEF RoomBase, RoomType, CurrentSound

LEMMA MarketStays == IInv /\ UNCHANGED marketVars => MarketGoesOn
  BY MarketFacts, MarketAssumption DEF MarketGoesOn, marketVars

LEMMA BetsTyped ==
  RoomBase => bets \subseteq [human : Nullifiers, racer : Named, amount : BetAmounts,
                              backed : RaceId \cup {NoRace}]
  BY DEF RoomBase, RoomType

LEMMA RequestFacts ==
  ASSUME RoomBase, NEW h \in Handlers
  PROVE  /\ request[h] \in RequestRecord
         /\ RequestSound(request[h])
         /\ RoomType
  BY DEF RoomBase, RoomType

(* p becomes q when its handler gets as far as pc, and its transaction to  *)
(* race r.                                                                 *)
MovesTo(p, q, pc, r, took) ==
  /\ q \in RequestRecord
  /\ q.pc = pc /\ q.race = r /\ q.took = took
  /\ q.kind = p.kind /\ q.id = p.id /\ q.racer = p.racer
  /\ q.amount = p.amount /\ q.human = p.human

LEMMA RequestMoves ==
  ASSUME NEW p \in RequestRecord,
         NEW pc \in {"idle", "reading", "verifying", "camera"} \cup Waiting,
         NEW r \in RaceNumber, NEW took \in BOOLEAN
  PROVE  /\ MovesTo(p, [p EXCEPT !.pc = pc, !.race = r], pc, r, p.took)
         /\ MovesTo(p, [p EXCEPT !.pc = pc], pc, p.race, p.took)
         /\ MovesTo(p, [p EXCEPT !.pc = pc, !.took = took], pc, p.race, took)
  BY DEF RequestRecord, MovesTo

LEMMA OpenSendBase ==
  ASSUME RoomBase, IInv, NEW h \in Handlers, OpenSend(h)
  PROVE  RoomBase'
  <1>1. nextRaceId \in RaceNumber /\ nextRaceId # NoRace
    BY MarketFacts, MarketAssumption DEF RaceNumber, NoRace
  <1>2. PICK q : q = [request[h] EXCEPT !.pc = "sent", !.race = nextRaceId]
    OBVIOUS
  <1>3. MovesTo(request[h], q, "sent", nextRaceId, request[h].took)
    <2>1. request[h] \in RequestRecord
      BY RequestFacts
    <2> QED BY <1>1, <1>2, <2>1, RequestMoves DEF Waiting
  <1>8. q \in RequestRecord
    BY <1>3 DEF MovesTo
  <1>4. request' = [request EXCEPT ![h] = q] /\ UNCHANGED <<marketVars, Rest, untimely>>
    BY <1>2 DEF OpenSend, Rest
  <1>5. RequestSound(q)'
    BY <1>1, <1>3, <1>4, RequestFacts DEF OpenSend, RequestSound, MovesTo, Waiting
  <1>6. MarketGoesOn
    BY <1>4, MarketStays
  <1>7. /\ UNCHANGED <<current, onChainRaceId, opens, opened, result, untimely>>
        /\ bets' = bets
    BY <1>4 DEF Rest
  <1> QED BY <1>8, <1>4, <1>5, <1>6, <1>7, QuietBase, BetsTyped

(* The handler is done: nothing of the request is left.                    *)
LEMMA IdleBase ==
  ASSUME RoomBase, IInv, MarketGoesOn, NEW h \in Handlers, Done(h),
         onChainRaceId' \in RaceNumber,
         bets' \subseteq [human : Nullifiers, racer : Named, amount : BetAmounts,
                          backed : RaceId \cup {NoRace}],
         current = NoCurrent => bets' = bets,
         UNCHANGED <<current, opens, opened, result, untimely>>
  PROVE  RoomBase'
  <1>1. nextRaceId \in Nat /\ nextRaceId' \in Nat /\ nextRaceId' >= nextRaceId
    BY MarketFacts, MarketAssumption DEF MarketGoesOn
  <1>2. /\ request' \in [Handlers -> RequestRecord]
        /\ \A g \in Handlers : RequestSound(request[g])'
    BY <1>1, RequestsKept, IdleRequest DEF Done
  <1> QED BY <1>2 DEF RoomBase, RoomType, CurrentSound

LEMMA AnsweredBase ==
  ASSUME RoomBase, IInv, NEW h \in Handlers, OpenAnswered(h) \/ BetAnswered(h) \/ FinishAnswered(h)
  PROVE  RoomBase'
  <1>1. request[h].race \in RaceNumber /\ RoomType
    BY RequestFacts DEF RequestRecord
  <1>2. CASE OpenAnswered(h)
    <2>1. UNCHANGED marketVars /\ Done(h) /\ onChainRaceId' = request[h].race
          /\ UNCHANGED <<current, bets, opens, opened, result, untimely>>
      BY <1>2 DEF OpenAnswered
    <2> QED BY <1>1, <2>1, IdleBase, MarketStays, BetsTyped
  <1>3. CASE BetAnswered(h)
    <2>1. UNCHANGED marketVars /\ Done(h) /\ Mirror(h) /\ request[h].kind = "bet"
          /\ UNCHANGED <<current, onChainRaceId, opens, opened, result, untimely>>
      BY <1>3 DEF BetAnswered
    <2>2. onChainRaceId' \in RaceNumber
      BY <1>1, <2>1 DEF RoomType
    <2> QED BY <2>1, <2>2, IdleBase, MarketStays, MirrorFacts
  <1>4. CASE FinishAnswered(h)
    <2>1. UNCHANGED marketVars /\ Done(h)
          /\ UNCHANGED <<current, bets, onChainRaceId, opens, opened, result, untimely>>
      BY <1>4 DEF FinishAnswered
    <2>2. onChainRaceId' \in RaceNumber
      BY <1>1, <2>1 DEF RoomType
    <2> QED BY <2>1, <2>2, IdleBase, MarketStays, BetsTyped
  <1> QED BY <1>2, <1>3, <1>4
(* A new request.                                                          *)
LEMMA OpenBase ==
  ASSUME RoomBase, IInv, NEW h \in Handlers, Open(h)
  PROVE  RoomBase'
  <1>1. PICK q : q = [Under("open", "reading") EXCEPT !.id = opens + 1]
    OBVIOUS
  <1>2. opens + 1 \in LocalId /\ opens + 1 \in 0..MaxOpens
    BY RoomAssumption DEF Open, RoomBase, RoomType, LocalId
  <1>3. 0 \in Named /\ NoRace \in RaceNumber /\ 0 \in 0..MaxBet
    BY MarketAssumption DEF RaceNumber, NoRace, Racer, Named
  <1>4. q \in RequestRecord /\ q.kind = "open" /\ q.pc = "reading" /\ q.id = opens + 1 /\ ~q.took
    BY <1>1, <1>2, <1>3 DEF Under, Idle, RequestRecord
  <1>5. RequestSound(q)'
    BY <1>2, <1>4 DEF RequestSound, Waiting
  <1>6. request' = [request EXCEPT ![h] = q] /\ UNCHANGED <<marketVars, opened, result>>
        /\ opens' = opens + 1 /\ bets' = {} /\ onChainRaceId' = NoRace
        /\ current' = [id |-> opens + 1, status |-> "betting"]
        /\ untimely' = [untimely EXCEPT ![opens + 1] = UnderWay]
    BY <1>1 DEF Open, RaceForgotten
  <1>7. nextRaceId \in Nat /\ nextRaceId' \in Nat /\ nextRaceId' >= nextRaceId
    BY <1>6, MarketFacts, MarketAssumption DEF marketVars
  <1>8. request' \in [Handlers -> RequestRecord] /\ \A g \in Handlers : RequestSound(request[g])'
    BY <1>4, <1>5, <1>6, <1>7, RequestsKept
  <1>9. current' # NoCurrent /\ current'.id = opens'
    BY <1>2, <1>6 DEF NoCurrent
  <1>11. untimely' \in [LocalId -> SUBSET Circumstance]
    <2>1. UnderWay \in SUBSET Circumstance
      BY DEF UnderWay
    <2> QED BY <1>6, <2>1 DEF RoomBase, RoomType
  <1>10. RoomType'
    BY <1>2, <1>3, <1>6, <1>8, <1>11 DEF RoomBase, RoomType
  <1> QED BY <1>8, <1>9, <1>10 DEF RoomBase, CurrentSound

LEMMA BetBase ==
  ASSUME RoomBase, IInv, NEW h \in Handlers, NEW human \in Nullifiers, NEW racer \in Named,
         NEW amount \in BetAmounts, Bet(h, human, racer, amount)
  PROVE  RoomBase'
  <1>1. PICK q : q = [Under("bet", "verifying") EXCEPT
                        !.human = human, !.racer = racer, !.amount = amount]
    OBVIOUS
  <1>2. NoRace \in RaceNumber /\ amount \in 0..MaxBet /\ 0 \in 0..MaxOpens
    BY MarketAssumption, RoomAssumption DEF RaceNumber, NoRace
  <1>3. /\ q \in RequestRecord /\ q.kind = "bet" /\ q.pc = "verifying" /\ ~q.took
        /\ q.human = human /\ q.amount = amount
    BY <1>1, <1>2 DEF Under, Idle, RequestRecord
  <1>4. RequestSound(q)'
    BY <1>3 DEF RequestSound, Waiting
  <1>5. /\ request' = [request EXCEPT ![h] = q]
        /\ UNCHANGED <<marketVars, current, bets, onChainRaceId, opens, opened, result, untimely>>
    BY <1>1 DEF Bet
  <1>6. bets' = bets
    BY <1>5
  <1> QED BY <1>3, <1>4, <1>5, <1>6, QuietBase, MarketStays, BetsTyped

(* The room's race is finished.                                            *)
LEMMA FinishBase ==
  ASSUME RoomBase, IInv, NEW h \in Handlers, NEW racer \in Named, Finish(h, racer)
  PROVE  RoomBase'
  <1>1. PICK q : q = [Under("finish", "camera") EXCEPT !.id = current.id, !.racer = racer]
    OBVIOUS
  <1>2. NoRace \in RaceNumber /\ 0 \in 0..MaxBet /\ current.id \in 0..MaxOpens
    <2>1. current \in [id : LocalId, status : {"betting", "armed", "racing", "finished"}]
      BY DEF Finish, Finishable, RoomBase, RoomType, NoCurrent
    <2> QED BY <2>1, MarketAssumption, RoomAssumption DEF RaceNumber, NoRace, LocalId
  <1>3. /\ q \in RequestRecord /\ q.kind = "finish" /\ q.pc = "camera" /\ ~q.took
    BY <1>1, <1>2 DEF Under, Idle, RequestRecord
  <1>4. RequestSound(q)'
    BY <1>3 DEF RequestSound, Waiting
  <1>5. /\ request' = [request EXCEPT ![h] = q]
        /\ current' = [current EXCEPT !.status = "finished"]
        /\ result' = [result EXCEPT ![current.id] = racer]
        /\ UNCHANGED <<marketVars, bets, onChainRaceId, opens, opened, untimely>>
        /\ current.status = "racing"
    BY <1>1 DEF Finish, Finishable
  <1>6. nextRaceId \in Nat /\ nextRaceId' \in Nat /\ nextRaceId' >= nextRaceId
    BY <1>5, MarketFacts, MarketAssumption DEF marketVars
  <1>7. request' \in [Handlers -> RequestRecord] /\ \A g \in Handlers : RequestSound(request[g])'
    BY <1>3, <1>4, <1>5, <1>6, RequestsKept
  <1>8. /\ current # NoCurrent /\ current.id = opens
        /\ current \in [id : LocalId, status : {"betting", "armed", "racing", "finished"}]
    BY <1>5 DEF RoomBase, RoomType, CurrentSound, NoCurrent
  <1>9. /\ current' \in [id : LocalId, status : {"betting", "armed", "racing", "finished"}]
        /\ current'.id = opens' /\ current' # NoCurrent
    BY <1>5, <1>8 DEF NoCurrent
  <1>10. result' \in [LocalId -> Named]
    BY <1>5 DEF RoomBase, RoomType
  <1>11. RoomType'
    BY <1>5, <1>7, <1>9, <1>10 DEF RoomBase, RoomType
  <1> QED BY <1>5, <1>7, <1>9, <1>11 DEF RoomBase, CurrentSound

(* The race of the room goes on.                                           *)
LEMMA ArmStartBase ==
  ASSUME RoomBase, IInv, Arm \/ Start
  PROVE  RoomBase'
  <1>1. /\ current.status \in {"betting", "armed"}
        /\ current' = [current EXCEPT !.status = "armed"]
             \/ current' = [current EXCEPT !.status = "racing"]
        /\ UNCHANGED <<marketVars, bets, onChainRaceId, request, opens, opened, result, untimely>>
    BY DEF Arm, Start
  <1>2. /\ current # NoCurrent /\ current.id = opens
        /\ current \in [id : LocalId, status : {"betting", "armed", "racing", "finished"}]
    BY <1>1 DEF RoomBase, RoomType, CurrentSound, NoCurrent
  <1>3. /\ current' \in [id : LocalId, status : {"betting", "armed", "racing", "finished"}]
        /\ current'.id = opens' /\ current' # NoCurrent
    BY <1>1, <1>2 DEF NoCurrent
  <1>4. nextRaceId' = nextRaceId
    BY <1>1 DEF marketVars
  <1>5. RoomType'
    BY <1>1, <1>3 DEF RoomBase, RoomType
  <1>6. \A h \in Handlers : RequestSound(request[h])'
    BY <1>1, <1>4 DEF RoomBase, RequestSound
  <1> QED BY <1>1, <1>3, <1>5, <1>6 DEF RoomBase, CurrentSound

LEMMA RestartBase ==
  ASSUME RoomBase, IInv, Restart
  PROVE  RoomBase'
  <1>1. /\ current' = NoCurrent /\ bets' = {} /\ onChainRaceId' = NoRace
        /\ UNCHANGED <<marketVars, opens, opened, result, untimely>>
        /\ request' = [h \in Handlers |-> IF request[h].pc \in {"sent", "orphan"}
                                          THEN [request[h] EXCEPT !.pc = "orphan"] ELSE Idle]
    BY DEF Restart
  <1>2. nextRaceId' = nextRaceId
    BY <1>1 DEF marketVars
  <1>3. ASSUME NEW h \in Handlers
        PROVE  request'[h] \in RequestRecord /\ RequestSound(request[h])'
    <2>1. CASE request[h].pc \in {"sent", "orphan"}
      <3>1. PICK q : q = [request[h] EXCEPT !.pc = "orphan"]
        OBVIOUS
      <3>2. request[h] \in RequestRecord
        BY RequestFacts
      <3>3. MovesTo(request[h], q, "orphan", request[h].race, request[h].took)
        <4>1. request[h].race \in RaceNumber /\ request[h].took \in BOOLEAN
          BY <3>2 DEF RequestRecord
        <4> QED BY <3>1, <3>2, <4>1, RequestMoves DEF Waiting
      <3>4. request'[h] = q
        BY <1>1, <2>1, <3>1
      <3>6. request[h].kind # "none" /\ RequestSound(request[h])
        BY <2>1, RequestFacts DEF RequestSound, Idle
      <3>5. RequestSound(q)'
        BY <1>2, <2>1, <3>3, <3>6 DEF RequestSound, MovesTo, Waiting
      <3> QED BY <3>3, <3>4, <3>5 DEF MovesTo
    <2>2. CASE request[h].pc \notin {"sent", "orphan"}
      BY <1>1, <2>2, IdleRequest
    <2> QED BY <2>1, <2>2
  <1>4. NoRace \in RaceNumber
    BY MarketAssumption DEF RaceNumber, NoRace
  <1>5. request' \in [Handlers -> RequestRecord]
    BY <1>1, <1>3
  <1>6. RoomType'
    BY <1>1, <1>4, <1>5 DEF RoomBase, RoomType
  <1> QED BY <1>1, <1>3, <1>6 DEF RoomBase, CurrentSound

(* A handler reads the market race the room believes it runs.              *)
LEMMA ReadsBase ==
  ASSUME RoomBase, IInv, NEW h \in Handlers, BetVerified(h) \/ FinishProved(h)
  PROVE  RoomBase'
  <1>1. RoomType /\ request[h] \in RequestRecord /\ RequestSound(request[h])
    BY RequestFacts
  <1>2. /\ request[h].kind \in {"bet", "finish"} /\ request[h].pc \in {"verifying", "camera"}
        /\ UNCHANGED <<marketVars, current, onChainRaceId, opens, opened, result, untimely>>
    BY DEF BetVerified, FinishProved
  <1>3. CASE Done(h) /\ bets' = bets
    <2>1. onChainRaceId' \in RaceNumber
      BY <1>1, <1>2 DEF RoomType
    <2> QED BY <1>2, <1>3, <2>1, IdleBase, MarketStays, BetsTyped
  <1>4. CASE BetVerified(h) /\ Done(h) /\ Mirror(h)
    <2>1. onChainRaceId' \in RaceNumber /\ request[h].kind = "bet"
      BY <1>1, <1>2, <1>4 DEF RoomType, BetVerified
    <2> QED BY <1>2, <1>4, <2>1, IdleBase, MarketStays, MirrorFacts
  <1>5. CASE /\ onChainRaceId # NoRace /\ request[h].racer # UnknownRacer /\ bets' = bets
             /\ request' = [request EXCEPT ![h] =
                              [request[h] EXCEPT !.pc = "sent", !.race = onChainRaceId]]
    <2>1. PICK q : q = [request[h] EXCEPT !.pc = "sent", !.race = onChainRaceId]
      OBVIOUS
    <2>2. MovesTo(request[h], q, "sent", onChainRaceId, request[h].took)
      BY <1>1, <2>1, RequestMoves DEF Waiting, RoomType
    <2>3. q \in RequestRecord /\ request' = [request EXCEPT ![h] = q]
      BY <1>5, <2>1, <2>2 DEF MovesTo
    <2>4. request[h].racer \in Racer
      BY <1>1, <1>5 DEF RequestRecord, Named
    <2>5. RequestSound(q)'
      BY <1>1, <1>2, <1>5, <2>2, <2>4 DEF RequestSound, MovesTo, Waiting
    <2> QED BY <1>2, <1>5, <2>3, <2>5, QuietBase, MarketStays, BetsTyped
  <1> QED BY <1>3, <1>4, <1>5 DEF BetVerified, FinishProved, Encodable, Done

LEMMA FailBase ==
  ASSUME RoomBase, IInv, NEW h \in Handlers, Fail(h)
  PROVE  RoomBase'
  <1>1. RoomType /\ request[h] \in RequestRecord /\ RequestSound(request[h])
    BY RequestFacts
  <1>2. UNCHANGED <<marketVars, current, bets, onChainRaceId, opens, opened, result, untimely>>
        /\ bets' = bets
    BY DEF Fail
  <1>3. CASE Done(h)
    <2>1. onChainRaceId' \in RaceNumber
      BY <1>1, <1>2 DEF RoomType
    <2> QED BY <1>2, <1>3, <2>1, IdleBase, MarketStays, BetsTyped
  <1>4. CASE request[h].pc = "sent" /\ Moved(h, "orphan")
    <2>1. PICK q : q = [request[h] EXCEPT !.pc = "orphan"]
      OBVIOUS
    <2>2. MovesTo(request[h], q, "orphan", request[h].race, request[h].took)
      <3>1. request[h].race \in RaceNumber /\ request[h].took \in BOOLEAN
        BY <1>1 DEF RequestRecord
      <3> QED BY <1>1, <2>1, <3>1, RequestMoves DEF Waiting
    <2>3. q \in RequestRecord /\ request' = [request EXCEPT ![h] = q]
      BY <1>4, <2>1, <2>2 DEF MovesTo, Moved
    <2>5. request[h].kind # "none"
      BY <1>1, <1>4 DEF RequestSound, Idle
    <2>4. RequestSound(q)'
      BY <1>1, <1>2, <1>4, <2>2, <2>5 DEF RequestSound, MovesTo, Waiting
    <2> QED BY <1>2, <2>3, <2>4, QuietBase, MarketStays, BetsTyped
  <1> QED BY <1>3, <1>4 DEF Fail
(* A transaction takes effect or reverts.  A bet is backed by a race that  *)
(* exists.                                                                 *)
LEMMA EffectFacts ==
  ASSUME RoomBase, IInv, NEW h \in Handlers, request[h].pc \in {"sent", "orphan"},
         Effect(request[h]) \/ (Reverts(request[h]) /\ UNCHANGED <<marketVars, opened>>)
  PROVE  /\ MarketGoesOn
         /\ opened' \in [LocalId -> RaceNumber]
         /\ Effect(request[h]) /\ request[h].kind = "bet" => request[h].race < nextRaceId
  <1>1. request[h] \in RequestRecord /\ RequestSound(request[h]) /\ RoomType
    BY RequestFacts
  <1>2. nextRaceId \in RaceNumber /\ nextRaceId \in 0..MaxRaces /\ opened \in [LocalId -> RaceNumber]
    BY <1>1, MarketFacts, MarketAssumption DEF RaceNumber, NoRace, RoomType
  <1>3. CASE Reverts(request[h]) /\ UNCHANGED <<marketVars, opened>> /\ ~Effect(request[h])
    BY <1>2, <1>3, MarketStays
  <1>4. CASE Effect(request[h]) /\ request[h].kind = "open"
    <2>1. openRace(Guard) /\ opened' = [opened EXCEPT ![request[h].id] = nextRaceId]
      BY <1>4 DEF Effect
    <2>2. nextRaceId' = nextRaceId + 1 /\ nextRaceId < MaxRaces
      BY <2>1 DEF openRace, CanOpen
    <2>3. MarketGoesOn
      BY <1>2, <2>2, MarketAssumption DEF MarketGoesOn
    <2>4. opened' \in [LocalId -> RaceNumber]
      BY <1>2, <2>1
    <2> QED BY <1>4, <2>3, <2>4
  <1>5. CASE Effect(request[h]) /\ request[h].kind = "bet"
    <2>1. /\ request[h].race \in RaceId /\ opened' = opened
          /\ bet(Relayer, request[h].race, request[h].racer, request[h].amount, request[h].human)
      BY <1>5 DEF Effect
    <2>2. nextRaceId' = nextRaceId /\ status[request[h].race] = "Open"
      BY <2>1 DEF bet, CanBet
    <2>3. request[h].race < nextRaceId
      BY <1>2, <2>1, <2>2, MarketFacts, MarketAssumption DEF RaceId
    <2> QED BY <1>2, <2>1, <2>2, <2>3 DEF MarketGoesOn
  <1>6. CASE Effect(request[h]) /\ request[h].kind = "finish"
    <2>1. settle(Guard, request[h].race, request[h].racer) /\ opened' = opened
      BY <1>6 DEF Effect
    <2>2. nextRaceId' = nextRaceId
      BY <2>1 DEF settle
    <2> QED BY <1>2, <1>6, <2>1, <2>2 DEF MarketGoesOn
  <1> QED BY <1>3, <1>4, <1>5, <1>6 DEF Effect

LEMMA AnswerFacts ==
  ASSUME RoomBase, IInv, NEW h \in Handlers, NEW took \in BOOLEAN, Answered(h, took),
         request[h].pc \in {"sent", "orphan"}
  PROVE  \E q \in RequestRecord :
           /\ request' = [request EXCEPT ![h] = q]
           /\ \/ q = Idle
              \/ request[h].pc = "sent"
                 /\ MovesTo(request[h], q, "mined", request[h].race, took)
  <1>1. request[h] \in RequestRecord
    BY RequestFacts
  <1>2. CASE request[h].pc = "sent"
    <2>1. PICK q : q = [request[h] EXCEPT !.pc = "mined", !.took = took]
      OBVIOUS
    <2>2. MovesTo(request[h], q, "mined", request[h].race, took)
      <3>1. request[h].race \in RaceNumber
        BY <1>1 DEF RequestRecord
      <3> QED BY <1>1, <2>1, <3>1, RequestMoves DEF Waiting
    <2>3. q \in RequestRecord /\ request' = [request EXCEPT ![h] = q]
      BY <1>2, <2>1, <2>2 DEF MovesTo, Answered
    <2> QED BY <1>2, <2>2, <2>3
  <1>3. CASE request[h].pc = "orphan"
    <2>1. request' = [request EXCEPT ![h] = Idle]
      BY <1>3 DEF Answered
    <2> QED BY <2>1, IdleRequest
  <1> QED BY <1>2, <1>3

LEMMA MinedBase ==
  ASSUME RoomBase, IInv, NEW h \in Handlers, Mined(h)
  PROVE  RoomBase'
  <1>1. PICK took \in BOOLEAN :
          /\ Answered(h, took)
          /\ \/ took /\ Effect(request[h])
             \/ ~took /\ Reverts(request[h]) /\ UNCHANGED <<marketVars, opened>>
    BY DEF Mined
  <1>2. /\ request[h].pc \in {"sent", "orphan"}
        /\ UNCHANGED <<current, bets, onChainRaceId, opens, result, untimely>>
    BY DEF Mined
  <1>3. /\ MarketGoesOn /\ opened' \in [LocalId -> RaceNumber]
        /\ took /\ request[h].kind = "bet" => request[h].race < nextRaceId
    BY <1>1, <1>2, EffectFacts
  <1>4. PICK q \in RequestRecord :
          /\ request' = [request EXCEPT ![h] = q]
          /\ \/ q = Idle
             \/ request[h].pc = "sent"
                /\ MovesTo(request[h], q, "mined", request[h].race, took)
    BY <1>1, <1>2, AnswerFacts
  <1>5. nextRaceId \in Nat /\ nextRaceId' \in Nat /\ nextRaceId' >= nextRaceId
    BY <1>3, MarketFacts, MarketAssumption DEF MarketGoesOn
  <1>6. request[h] \in RequestRecord /\ RequestSound(request[h]) /\ request[h].race \in Int
    BY RequestFacts DEF RequestRecord, RaceNumber, NoRace
  <1>7. RequestSound(q)'
    <2>1. CASE q = Idle
      BY <2>1, IdleRequest
    <2>2. CASE request[h].pc = "sent" /\ MovesTo(request[h], q, "mined", request[h].race, took)
      <3>1. request[h].kind # "none"
        BY <1>6, <2>2 DEF RequestSound, Idle
      <3> QED BY <1>3, <1>5, <1>6, <2>2, <3>1 DEF RequestSound, MovesTo, Waiting
    <2> QED BY <1>4, <2>1, <2>2
  <1>8. request' \in [Handlers -> RequestRecord] /\ \A g \in Handlers : RequestSound(request[g])'
    BY <1>4, <1>5, <1>7, RequestsKept
  <1> QED BY <1>2, <1>3, <1>8 DEF RoomBase, RoomType, CurrentSound

LEMMA StillBase ==
  ASSUME RoomBase, IInv, (\E key \in Keys : SetJudge(key)) \/ UNCHANGED vars
  PROVE  RoomBase'
  <1>1. UNCHANGED <<nextRaceId, current, bets, onChainRaceId, request, opens, opened, result,
                    untimely>>
    BY DEF SetJudge, setJudge, vars, roomVars
  <1> QED BY <1>1 DEF RoomBase, RoomType, RequestSound, CurrentSound

LEMMA NextBase == RoomBase /\ IInv /\ [Next]_vars => RoomBase'
  <1> SUFFICES ASSUME RoomBase, IInv, [Next]_vars PROVE RoomBase'
    OBVIOUS
  <1>1. ASSUME NEW h \in Handlers, Request(h) PROVE RoomBase'
    BY <1>1, OpenBase, BetBase, FinishBase DEF Request, Named
  <1>2. ASSUME NEW h \in Handlers, HandlerStep(h) PROVE RoomBase'
    BY <1>2, OpenSendBase, AnsweredBase, ReadsBase, MinedBase, FailBase DEF HandlerStep
  <1> QED BY <1>1, <1>2, ArmStartBase, RestartBase, StillBase DEF Next
-----------------------------------------------------------------------------
(* The room as a user of the market: whatever its requests do, the market  *)
(* makes a step of its own, or none.                                       *)

LEMMA EffectIsMarketStep ==
  ASSUME RoomBase, IInv, NEW h \in Handlers, request[h].pc \in {"sent", "orphan"},
         Effect(request[h])
  PROVE  MarketNext
  <1>1. request[h] \in RequestRecord /\ RequestSound(request[h])
    BY RequestFacts
  <1>2. request[h].kind # "open" => request[h].racer \in Racer /\ request[h].racer \in Verdict
    <2>1. Racer \subseteq Verdict
      BY MarketAssumption DEF Racer, Verdict
    <2> QED BY <1>1, <2>1 DEF RequestSound, Waiting
  <1>3. CASE request[h].kind = "open" /\ openRace(Guard)
    BY <1>3, RoomAssumption DEF MarketNext
  <1>4. CASE /\ request[h].kind = "bet" /\ request[h].race \in RaceId
             /\ bet(Relayer, request[h].race, request[h].racer, request[h].amount, request[h].human)
    <2>1. request[h].amount \in 0..MaxBet /\ request[h].human \in Nullifiers
      BY <1>1, <1>4 DEF RequestRecord, RequestSound
    <2> QED BY <1>2, <1>4, <2>1, RoomAssumption DEF MarketNext
  <1>5. CASE /\ request[h].kind = "finish" /\ request[h].race \in RaceId
             /\ settle(Guard, request[h].race, request[h].racer)
    BY <1>2, <1>5, RoomAssumption DEF MarketNext
  <1> QED BY <1>3, <1>4, <1>5 DEF Effect

LEMMA NextIsMarketStep == RoomBase /\ IInv /\ [Next]_vars => [MarketNext]_marketVars
  <1> SUFFICES ASSUME RoomBase, IInv, [Next]_vars PROVE [MarketNext]_marketVars
    OBVIOUS
  <1>1. ASSUME NEW h \in Handlers, Mined(h) PROVE [MarketNext]_marketVars
    BY <1>1, EffectIsMarketStep DEF Mined
  <1>2. ASSUME NEW h \in Handlers, Request(h) PROVE UNCHANGED marketVars
    BY <1>2 DEF Request, Open, Bet, Finish
  <1>3. ASSUME NEW h \in Handlers, HandlerStep(h), ~Mined(h) PROVE UNCHANGED marketVars
    BY <1>3 DEF HandlerStep, OpenSend, OpenAnswered, BetVerified, BetAnswered, FinishProved,
                FinishAnswered, Fail
  <1>4. ASSUME Arm \/ Start \/ Restart PROVE UNCHANGED marketVars
    BY <1>4 DEF Arm, Start, Restart
  <1>5. ASSUME NEW key \in Keys, SetJudge(key) PROVE MarketNext
    BY <1>5 DEF SetJudge, MarketNext
  <1>6. CASE UNCHANGED vars
    BY <1>6 DEF vars, marketVars
  <1> QED BY <1>1, <1>2, <1>3, <1>4, <1>5, <1>6 DEF Next

(* The room's market is RaceMarket: everything it promises holds of it,    *)
(* whatever transactions the sidecar sends, and however late.              *)
THEOREM RoomUsesMarket == Spec => MarketSpec
  <1>1. Init => MarketInit /\ RoomBase
    BY RoomInit DEF Init
  <1>2. MarketInit => IInv
    BY InitIInv
  <1>3. IInv /\ [MarketNext]_marketVars => IInv'
    BY NextIInv
  <1>4. RoomBase /\ IInv /\ [Next]_vars => RoomBase'
    BY NextBase
  <1>5. RoomBase /\ IInv /\ [Next]_vars => [MarketNext]_marketVars
    BY NextIsMarketStep
  <1> QED BY <1>1, <1>2, <1>3, <1>4, <1>5, PTL DEF Spec, MarketSpec

LEMMA RoomBaseHolds == Spec => []RoomBase /\ []IInv
  <1>1. Init => RoomBase
    BY RoomInit
  <1>2. RoomBase /\ IInv /\ [Next]_vars => RoomBase'
    BY NextBase
  <1>3. MarketSpec => []IInv
    BY InvariantHolds
  <1> QED BY <1>1, <1>2, <1>3, RoomUsesMarket, PTL DEF Spec

(* Every variable of the room and its market keeps its type.               *)
THEOREM RoomTypeCorrect == Spec => []TypeOK
  <1>1. RoomBase /\ IInv => TypeOK
    <2> SUFFICES ASSUME RoomBase, IInv PROVE TypeOK
      OBVIOUS
    <2>1. onChainRaceId \in RaceId \cup {NoRace, MaxRaces}
      <3>1. onChainRaceId \in NoRace..MaxRaces
        BY DEF RoomBase, RoomType, RaceNumber
      <3> QED BY <3>1, MarketAssumption DEF RaceId, NoRace
    <2>2. \A h \in Handlers : request[h].pc \in
            {"idle", "reading", "verifying", "camera", "sent", "mined", "orphan"}
      BY DEF RoomBase, RoomType, RequestRecord, Waiting
    <2> QED BY <2>1, <2>2 DEF TypeOK, RoomBase, RoomType, Named, IInv, MarketType
  <1> QED BY <1>1, RoomBaseHolds, PTL
-----------------------------------------------------------------------------
(* The room in time.  What was under way at an open changes only with the  *)
(* next open.                                                              *)

LEMMA ClearKept ==
  ASSUME UNCHANGED <<opens, untimely>>
  PROVE  (OpenClear' <=> OpenClear) /\ (BetClear' <=> BetClear) /\ (Timely' <=> Timely)
  BY DEF OpenClear, BetClear, Timely

LEMMA ClearFacts == (Timely => OpenClear) /\ (BetClear => OpenClear)
  BY DEF OpenClear, BetClear, Timely

LEMMA FinalKept == UNCHANGED <<opens, current>> => \A i : Final(i)' <=> Final(i)
  BY DEF Final

(* One request moves on and nothing else the invariant speaks of changes,  *)
(* but for the bets.                                                       *)
LEMMA QuietInTime ==
  ASSUME RoomBase, HandlersInTime, RoomInTime, NEW h \in Handlers, NEW q \in RequestRecord,
         request' = [request EXCEPT ![h] = q],
         UNCHANGED <<status, winner, nextRaceId, current, onChainRaceId, opens, opened, result,
                     untimely>>,
         OddsInTime',
         q.kind = "open" => request[h].kind = "open",
         Sound(q)
  PROVE  HandlersInTime' /\ RoomInTime'
  <1>1. \A g \in Handlers : request'[g] = IF g = h THEN q ELSE request[g]
    BY DEF RoomBase, RoomType
  <1>2. (\A r : Linked(r)' <=> Linked(r)) /\ (\A i : Final(i)' <=> Final(i))
    BY FinalKept DEF Linked
  <1>3. NoOpens => NoOpens'
    BY <1>1 DEF NoOpens
  <1>4. (OpenClear' <=> OpenClear) /\ (BetClear' <=> BetClear) /\ (Timely' <=> Timely)
    BY ClearKept
  <1>5. Sound(q)'
    BY <1>2, <1>3, <1>4 DEF Sound, OpenInTime, BetInTime, FinishInTime
  <1>6. ASSUME NEW g \in Handlers PROVE Sound(request[g])'
    <2>1. CASE g = h
      BY <1>1, <1>5, <2>1
    <2>2. CASE g # h
      <3>1. request'[g] = request[g] /\ Sound(request[g])
        BY <1>1, <2>2 DEF HandlersInTime
      <3> QED BY <1>2, <1>3, <1>4, <3>1 DEF Sound, OpenInTime, BetInTime, FinishInTime
    <2> QED BY <2>1, <2>2
  <1>7. OpenClear' => \A g, k \in Handlers :
                        request'[g].kind = "open" /\ request'[k].kind = "open" => g = k
    BY <1>1, <1>4 DEF HandlersInTime
  <1>8. HandlersInTime'
    BY <1>6, <1>7 DEF HandlersInTime
  <1>9. ResultsInTime'
    BY <1>2, <1>4 DEF RoomInTime, ResultsInTime
  <1>10. RoomInTime'
    BY <1>2, <1>3, <1>4, <1>9 DEF RoomInTime
  <1> QED BY <1>8, <1>10

LEMMA HandlerFacts ==
  ASSUME HandlersInTime, NEW h \in Handlers
  PROVE  OpenInTime(request[h]) /\ BetInTime(request[h]) /\ FinishInTime(request[h])
  BY DEF HandlersInTime, Sound

LEMMA IdleInTime == Sound(Idle) /\ Idle.kind = "none"
  BY DEF Sound, OpenInTime, BetInTime, FinishInTime, Idle

LEMMA OddsKept ==
  ASSUME RoomInTime, UNCHANGED <<bets, opened, opens, untimely>>
  PROVE  OddsInTime'
  BY ClearKept DEF RoomInTime, OddsInTime

LEMMA OpenSendInTime ==
  ASSUME RoomBase, IInv, HandlersInTime, RoomInTime, NEW h \in Handlers, OpenSend(h)
  PROVE  HandlersInTime' /\ RoomInTime'
  <1>1. nextRaceId \in RaceNumber
    BY MarketFacts, MarketAssumption DEF RaceNumber, NoRace
  <1>2. PICK q : q = [request[h] EXCEPT !.pc = "sent", !.race = nextRaceId]
    OBVIOUS
  <1>3. MovesTo(request[h], q, "sent", nextRaceId, request[h].took)
    <2>1. request[h] \in RequestRecord
      BY RequestFacts
    <2> QED BY <1>1, <1>2, <2>1, RequestMoves DEF Waiting
  <1>4. /\ request' = [request EXCEPT ![h] = q]
        /\ UNCHANGED <<status, winner, nextRaceId, current, bets, onChainRaceId, opens, opened,
                       result, untimely>>
    BY <1>2 DEF OpenSend, marketVars
  <1>5. Sound(q) /\ request[h].kind = "open"
    BY <1>3, HandlerFacts DEF OpenSend, Sound, OpenInTime, BetInTime, FinishInTime, MovesTo
  <1>6. q \in RequestRecord
    BY <1>3 DEF MovesTo
  <1>7. OddsInTime'
    BY <1>4, OddsKept
  <1> QED BY <1>4, <1>5, <1>6, <1>7, QuietInTime

LEMMA BetStepInTime ==
  ASSUME RoomBase, IInv, HandlersInTime, RoomInTime, NEW h \in Handlers, NEW human \in Nullifiers,
         NEW racer \in Named, NEW amount \in BetAmounts, Bet(h, human, racer, amount)
  PROVE  HandlersInTime' /\ RoomInTime'
  <1>1. PICK q : q = [Under("bet", "verifying") EXCEPT
                        !.human = human, !.racer = racer, !.amount = amount]
    OBVIOUS
  <1>2. NoRace \in RaceNumber /\ amount \in 0..MaxBet /\ 0 \in 0..MaxOpens
    BY MarketAssumption, RoomAssumption DEF RaceNumber, NoRace
  <1>3. q \in RequestRecord /\ q.kind = "bet" /\ q.pc = "verifying"
    BY <1>1, <1>2 DEF Under, Idle, RequestRecord
  <1>4. /\ request' = [request EXCEPT ![h] = q]
        /\ UNCHANGED <<status, winner, nextRaceId, current, bets, onChainRaceId, opens, opened,
                       result, untimely>>
    BY <1>1 DEF Bet, marketVars
  <1>5. Sound(q)
    BY <1>3 DEF Sound, OpenInTime, BetInTime, FinishInTime
  <1>6. OddsInTime'
    BY <1>4, OddsKept
  <1> QED BY <1>3, <1>4, <1>5, <1>6, QuietInTime

(* An answered bet is backed by the market race of the room's last race.   *)
LEMMA MirrorInTime ==
  ASSUME RoomBase, IInv, HandlersInTime, RoomInTime, NEW h \in Handlers,
         request[h].kind = "bet", Mirror(h), UNCHANGED <<opens, opened, untimely>>
  PROVE  OddsInTime'
  <1> SUFFICES ASSUME BetClear PROVE \A m \in bets' : m.backed \in {NoRace, opened[opens]}
    BY ClearKept DEF OddsInTime
  <1>1. request[h].took => request[h].race = opened[opens]
    <2>1. request[h].took => request[h].pc = "mined" /\ request[h].race < nextRaceId
      BY RequestFacts DEF RequestSound
    <2>2. request[h].took => Linked(request[h].race)
      BY <2>1, HandlerFacts DEF BetInTime
    <2>3. nextRaceId \in Nat
      BY MarketFacts, MarketAssumption
    <2> QED BY <2>1, <2>2, <2>3 DEF Linked
  <1>2. \A m \in bets : m.backed \in {NoRace, opened[opens]}
    BY DEF RoomInTime, OddsInTime
  <1> QED BY <1>1, <1>2, MirrorFacts

(* The handler is done.                                                    *)
LEMMA DoneInTime ==
  ASSUME RoomBase, IInv, HandlersInTime, RoomInTime, NEW h \in Handlers, Done(h),
         UNCHANGED <<marketVars, current, onChainRaceId, opens, opened, result, untimely>>,
         bets' = bets \/ (request[h].kind = "bet" /\ Mirror(h))
  PROVE  HandlersInTime' /\ RoomInTime'
  <1>1. request' = [request EXCEPT ![h] = Idle] /\ Idle \in RequestRecord
    BY IdleRequest DEF Done
  <1>2. UNCHANGED <<status, winner, nextRaceId, current, onChainRaceId, opens, opened, result,
                    untimely>>
    BY DEF marketVars
  <1>3. OddsInTime'
    BY <1>2, MirrorInTime, OddsKept
  <1>4. Idle.kind # "open" /\ Sound(Idle)
    BY IdleInTime
  <1> QED BY <1>1, <1>2, <1>3, <1>4, QuietInTime

(* A bet or a finish reads which market race the room runs.                *)
LEMMA ReadsInTime ==
  ASSUME RoomBase, IInv, HandlersInTime, RoomInTime, NEW h \in Handlers,
         BetVerified(h) \/ FinishProved(h)
  PROVE  HandlersInTime' /\ RoomInTime'
  <1>1. request[h] \in RequestRecord /\ RoomType
    BY RequestFacts
  <1>2. /\ request[h].kind = "bet" \/ (request[h].kind = "finish" /\ request[h].pc = "camera")
        /\ UNCHANGED <<marketVars, current, onChainRaceId, opens, opened, result, untimely>>
    BY DEF BetVerified, FinishProved
  <1>3. CASE Done(h) /\ (bets' = bets \/ (request[h].kind = "bet" /\ Mirror(h)))
    BY <1>2, <1>3, DoneInTime
  <1>4. CASE /\ onChainRaceId # NoRace /\ bets' = bets
             /\ request' = [request EXCEPT ![h] =
                              [request[h] EXCEPT !.pc = "sent", !.race = onChainRaceId]]
    <2>1. PICK q : q = [request[h] EXCEPT !.pc = "sent", !.race = onChainRaceId]
      OBVIOUS
    <2>2. MovesTo(request[h], q, "sent", onChainRaceId, request[h].took)
      BY <1>1, <2>1, RequestMoves DEF Waiting, RoomType
    <2>3. q \in RequestRecord /\ request' = [request EXCEPT ![h] = q] /\ q.kind = request[h].kind
      BY <1>4, <2>1, <2>2 DEF MovesTo
    <2>4. OpenClear => Linked(onChainRaceId) /\ NoOpens
      BY <1>4 DEF RoomInTime
    <2>5. OpenInTime(q)
      BY <1>2, <2>3 DEF OpenInTime
    <2>6. BetInTime(q)
      BY <2>2, <2>4, ClearFacts DEF BetInTime, MovesTo
    <2>7. FinishInTime(q)
      BY <1>2, <2>2, <2>4, HandlerFacts, ClearFacts DEF FinishInTime, MovesTo
    <2>8. UNCHANGED <<status, winner, nextRaceId, current, bets, onChainRaceId, opens, opened,
                      result, untimely>>
      BY <1>2, <1>4 DEF marketVars
    <2>9. OddsInTime'
      BY <2>8, OddsKept
    <2>10. q.kind # "open"
      BY <1>2, <2>3
    <2> QED BY <2>3, <2>5, <2>6, <2>7, <2>8, <2>9, <2>10, QuietInTime DEF Sound
  <1> QED BY <1>3, <1>4 DEF BetVerified, FinishProved, Done

(* The room learns which market race it runs: no other open is under way.  *)
LEMMA AnsweredInTime ==
  ASSUME RoomBase, IInv, HandlersInTime, RoomInTime, NEW h \in Handlers, OpenAnswered(h)
  PROVE  HandlersInTime' /\ RoomInTime'
  <1>1. /\ request' = [request EXCEPT ![h] = Idle] /\ onChainRaceId' = request[h].race
        /\ request[h].kind = "open" /\ request[h].pc = "mined"
        /\ UNCHANGED <<status, winner, nextRaceId, current, bets, opens, opened, result, untimely>>
    BY DEF OpenAnswered, Done, marketVars
  <1>2. \A g \in Handlers : request'[g] = IF g = h THEN Idle ELSE request[g]
    BY <1>1 DEF RoomBase, RoomType
  <1>3. (OpenClear' <=> OpenClear) /\ (BetClear' <=> BetClear) /\ (Timely' <=> Timely)
    BY <1>1, ClearKept
  <1>4. (\A r : Linked(r)' <=> Linked(r)) /\ (\A i : Final(i)' <=> Final(i))
    BY <1>1, FinalKept DEF Linked
  <1>5. ~NoOpens /\ (OpenClear => NoOpens')
    <2>1. OpenClear => \A g \in Handlers : request[g].kind = "open" => g = h
      BY <1>1 DEF HandlersInTime
    <2> QED BY <1>1, <1>2, <2>1, IdleInTime DEF NoOpens
  <1>6. OpenClear => Linked(request[h].race)
    BY <1>1, HandlerFacts DEF OpenInTime
  <1>7. OpenClear' => Linked(onChainRaceId)' /\ NoOpens'
    BY <1>1, <1>3, <1>5, <1>6 DEF Linked
  <1>8. ASSUME NEW g \in Handlers PROVE Sound(request[g])'
    <2>1. CASE g = h
      <3>1. request'[g].kind = "none"
        BY <1>2, <2>1, IdleInTime
      <3> QED BY <3>1 DEF Sound, OpenInTime, BetInTime, FinishInTime
    <2>2. CASE g # h
      <3>1. request'[g] = request[g]
        BY <1>2, <2>2
      <3>2. OpenInTime(request[g]) /\ BetInTime(request[g]) /\ FinishInTime(request[g])
        BY HandlerFacts
      <3>3. OpenInTime(request[g])'
        <4>1. OpenClear => request[g].kind # "open"
          BY <1>5, <3>1, <1>1 DEF NoOpens
        <4> QED BY <1>1, <1>3, <3>1, <3>2, <4>1 DEF OpenInTime
      <3>4. BetInTime(request[g])'
        BY <1>3, <1>5, <3>1, <3>2 DEF BetInTime
      <3>5. FinishInTime(request[g])'
        BY <1>1, <1>3, <1>4, <1>5, <3>1, <3>2 DEF FinishInTime
      <3> QED BY <3>3, <3>4, <3>5 DEF Sound
    <2> QED BY <2>1, <2>2
  <1>9. HandlersInTime'
    BY <1>3, <1>5, <1>8 DEF HandlersInTime, NoOpens
  <1>10. OddsInTime' /\ ResultsInTime'
    BY <1>1, <1>3, <1>4, OddsKept DEF RoomInTime, ResultsInTime
  <1>11. RoomInTime'
    BY <1>1, <1>7, <1>10 DEF RoomInTime
  <1> QED BY <1>9, <1>11

(* As long as the last race has no result, none has been sent for it.      *)
LEMMA ArmStartInTime ==
  ASSUME RoomBase, IInv, HandlersInTime, RoomInTime, Arm \/ Start
  PROVE  HandlersInTime' /\ RoomInTime'
  <1>1. /\ current.status \in {"betting", "armed"}
        /\ UNCHANGED <<status, winner, nextRaceId, bets, onChainRaceId, request, opens, opened,
                       result, untimely>>
    BY DEF Arm, Start, marketVars
  <1>2. (OpenClear' <=> OpenClear) /\ (BetClear' <=> BetClear) /\ (Timely' <=> Timely)
    BY <1>1, ClearKept
  <1>3. (\A r : Linked(r)' <=> Linked(r)) /\ (NoOpens' <=> NoOpens)
    BY <1>1 DEF Linked, NoOpens
  <1>4. \A i : Final(i) => Final(i)'
    BY <1>1 DEF Final
  <1>5. ASSUME NEW g \in Handlers PROVE Sound(request[g])'
    <2>1. Sound(request[g])
      BY DEF HandlersInTime
    <2> QED BY <1>1, <1>2, <1>3, <1>4, <2>1 DEF Sound, OpenInTime, BetInTime, FinishInTime
  <1>6. HandlersInTime'
    BY <1>1, <1>2, <1>5 DEF HandlersInTime
  <1>7. OddsInTime' /\ ResultsInTime'
    BY <1>1, <1>2, <1>4, OddsKept DEF RoomInTime, ResultsInTime
  <1>8. RoomInTime'
    BY <1>1, <1>2, <1>3, <1>7 DEF RoomInTime
  <1> QED BY <1>6, <1>8

LEMMA FinishStepInTime ==
  ASSUME RoomBase, IInv, HandlersInTime, RoomInTime, NEW h \in Handlers, NEW racer \in Named,
         Finish(h, racer)
  PROVE  HandlersInTime' /\ RoomInTime'
  <1>1. PICK q : q = [Under("finish", "camera") EXCEPT !.id = current.id, !.racer = racer]
    OBVIOUS
  <1>2. q.kind = "finish" /\ q.pc = "camera" /\ q.racer = racer /\ q.id = current.id
    BY <1>1 DEF Under, Idle
  <1>3. /\ request' = [request EXCEPT ![h] = q]
        /\ current' = [current EXCEPT !.status = "finished"]
        /\ result' = [result EXCEPT ![current.id] = racer]
        /\ UNCHANGED <<status, winner, nextRaceId, bets, onChainRaceId, opens, opened, untimely>>
        /\ current.status = "racing" /\ request[h] = Idle
    BY <1>1 DEF Finish, Finishable, marketVars
  <1>4. /\ current.id = opens /\ opens \in LocalId /\ opens <= opens
        /\ current'.status = "finished"
    BY <1>3 DEF RoomBase, RoomType, CurrentSound, NoCurrent, LocalId
  <1>5. \A g \in Handlers : request'[g] = IF g = h THEN q ELSE request[g]
    BY <1>3 DEF RoomBase, RoomType
  <1>6. \A i \in LocalId : result'[i] = IF i = opens THEN racer ELSE result[i]
    BY <1>3, <1>4 DEF RoomBase, RoomType
  <1>7. (OpenClear' <=> OpenClear) /\ (BetClear' <=> BetClear) /\ (Timely' <=> Timely)
    BY <1>3, ClearKept
  <1>8. (\A r : Linked(r)' <=> Linked(r)) /\ (NoOpens' <=> NoOpens)
    BY <1>2, <1>3, <1>5, IdleInTime DEF Linked, NoOpens
  <1>9. ASSUME NEW i, Final(i)
        PROVE  i # opens /\ Final(i)' /\ result'[i] = result[i]
    <2>1. i # opens
      BY <1>3, <1>9 DEF Final
    <2> QED BY <1>3, <1>6, <1>9, <2>1 DEF Final
  <1>10. Final(opens)'
    BY <1>3, <1>4 DEF Final
  <1>11. ASSUME NEW g \in Handlers PROVE Sound(request[g])'
    <2>1. CASE g = h
      <3>1. /\ request'[g].kind = "finish" /\ request'[g].pc = "camera"
            /\ request'[g].racer = racer /\ request'[g].id = opens
        BY <1>2, <1>4, <1>5, <2>1
      <3> QED BY <1>3, <1>4, <1>6, <1>10, <3>1 DEF Sound, OpenInTime, BetInTime, FinishInTime
    <2>2. CASE g # h
      <3>1. request'[g] = request[g]
        BY <1>5, <2>2
      <3>2. OpenInTime(request[g]) /\ BetInTime(request[g]) /\ FinishInTime(request[g])
        BY HandlerFacts
      <3>3. OpenInTime(request[g])' /\ BetInTime(request[g])'
        BY <1>3, <1>7, <1>8, <3>1, <3>2 DEF OpenInTime, BetInTime
      <3>4. FinishInTime(request[g])'
        <4>1. PICK p : p = request[g]
          OBVIOUS
        <4>2. FinishInTime(p) /\ request'[g] = p
          BY <3>1, <3>2, <4>1
        <4>3. FinishInTime(p)'
          <5>1. Timely /\ p.kind = "finish" =>
                  p.id # opens /\ Final(p.id)' /\ result'[p.id] = result[p.id]
            BY <1>9, <4>2 DEF FinishInTime
          <5> QED BY <1>3, <1>7, <4>2, <5>1 DEF FinishInTime
        <4> QED BY <4>2, <4>3 DEF FinishInTime
      <3> QED BY <3>3, <3>4 DEF Sound
    <2> QED BY <2>1, <2>2
  <1>12. OpenClear' => \A g, k \in Handlers :
                         request'[g].kind = "open" /\ request'[k].kind = "open" => g = k
    BY <1>2, <1>5, <1>7 DEF HandlersInTime
  <1>13. HandlersInTime'
    BY <1>11, <1>12 DEF HandlersInTime
  <1>14. ASSUME NEW r \in RaceId, Timely', status'[r] = "Settled"
         PROVE  \E i \in LocalId : Final(i)' /\ opened'[i] = r /\ result'[i] = winner'[r]
    <2>1. PICK i \in LocalId : Final(i) /\ opened[i] = r /\ result[i] = winner[r]
      BY <1>3, <1>7, <1>14 DEF RoomInTime, ResultsInTime
    <2>2. Final(i)' /\ result'[i] = result[i]
      BY <1>9, <2>1
    <2> QED BY <1>3, <2>1, <2>2
  <1>15. OddsInTime'
    BY <1>3, OddsKept
  <1>16. RoomInTime'
    BY <1>3, <1>7, <1>8, <1>14, <1>15 DEF RoomInTime, ResultsInTime
  <1> QED BY <1>13, <1>16

(* A new race is opened: what is outstanding for the one before belongs to *)
(* that race or, if it counts as under way, nothing is claimed any more.   *)
LEMMA OpenInTimeStep ==
  ASSUME RoomBase, IInv, HandlersInTime, RoomInTime, NEW h \in Handlers, Open(h)
  PROVE  HandlersInTime' /\ RoomInTime'
  <1>1. PICK q : q = [Under("open", "reading") EXCEPT !.id = opens + 1]
    OBVIOUS
  <1>2. q.kind = "open" /\ q.pc = "reading" /\ q.id = opens + 1
    BY <1>1 DEF Under, Idle
  <1>3. /\ request' = [request EXCEPT ![h] = q]
        /\ opens' = opens + 1 /\ bets' = {} /\ onChainRaceId' = NoRace
        /\ current' = [id |-> opens + 1, status |-> "betting"]
        /\ untimely' = [untimely EXCEPT ![opens + 1] = UnderWay]
        /\ UNCHANGED <<status, winner, nextRaceId, opened, result>>
    BY <1>1 DEF Open, RaceForgotten, marketVars
  <1>4. /\ opens + 1 \in LocalId /\ opens + 1 > opens /\ opens \in Nat /\ opens + 1 <= opens + 1
        /\ \A i \in LocalId : i <= opens => i <= opens + 1 /\ i # opens + 1
        /\ \A i \in LocalId : i > opens + 1 => i > opens
    BY RoomAssumption DEF Open, RoomBase, RoomType, LocalId
  <1>5. opened'[opens'] = NoRace
    BY <1>3, <1>4 DEF RoomInTime
  <1>6. \A g \in Handlers : request'[g] = IF g = h THEN q ELSE request[g]
    BY <1>3 DEF RoomBase, RoomType
  <1>7. untimely'[opens'] = UnderWay /\ opens' \in LocalId
    BY <1>3, <1>4 DEF RoomBase, RoomType
  <1>8. OpenClear' => NoOpens
    BY <1>7 DEF OpenClear, UnderWay, NoOpens, Circumstance
  <1>9. BetClear' => \A g \in Handlers : request[g].kind = "bet" =>
                                           request[g].pc \notin {"sent", "mined"}
    BY <1>7 DEF BetClear, UnderWay, Circumstance
  <1>10. Timely' => /\ Timely
                    /\ \A g \in Handlers : request[g].kind = "finish" =>
                         /\ request[g].pc # "camera"
                         /\ request[g].pc \in {"sent", "orphan"} => request[g].race # nextRaceId
    <2> SUFFICES ASSUME Timely'
                 PROVE  /\ Timely
                        /\ \A g \in Handlers : request[g].kind = "finish" =>
                             /\ request[g].pc # "camera"
                             /\ request[g].pc \in {"sent", "orphan"} => request[g].race # nextRaceId
      OBVIOUS
    <2>1. UnderWay \subseteq {"bet"}
      BY <1>7 DEF Timely
    <2>2. Timely
      <3>2. \A i \in LocalId : i # opens + 1 => untimely[i] = untimely'[i]
        BY <1>3 DEF RoomBase, RoomType
      <3>3. untimely[opens + 1] = {}
        BY <1>4 DEF RoomInTime
      <3> QED BY <1>4, <3>2, <3>3 DEF Timely
    <2>3. "photo" \notin UnderWay /\ "settlement" \notin UnderWay
      BY <2>1
    <2> QED BY <2>2, <2>3 DEF UnderWay, Circumstance
  <1>11. \A i : Final(i) => Final(i)'
    BY <1>3, <1>4 DEF Final
  <1>12. ASSUME NEW g \in Handlers PROVE Sound(request[g])'
    <2>1. CASE g = h
      <3>1. request'[g].kind = "open" /\ request'[g].pc = "reading" /\ request'[g].id = opens + 1
        BY <1>2, <1>6, <2>1
      <3> QED BY <1>3, <1>4, <1>5, <3>1 DEF Sound, OpenInTime, BetInTime, FinishInTime
    <2>2. CASE g # h
      <3>1. request'[g] = request[g]
        BY <1>6, <2>2
      <3>2. OpenInTime(request[g]) /\ FinishInTime(request[g]) /\ request[g].id \in 0..MaxOpens
        BY HandlerFacts, RequestFacts DEF RequestRecord
      <3>3. OpenInTime(request[g])'
        <4>1. request[g].kind = "open" => request[g].id <= opens + 1
          BY <1>4, <3>2 DEF OpenInTime
        <4> QED BY <1>3, <1>8, <3>1, <4>1 DEF OpenInTime, NoOpens
      <3>4. BetInTime(request[g])'
        BY <1>9, <3>1 DEF BetInTime
      <3>5. FinishInTime(request[g])'
        <4>1. PICK p : p = request[g]
          OBVIOUS
        <4>2. FinishInTime(p) /\ request'[g] = p
          BY <3>1, <3>2, <4>1
        <4>3. FinishInTime(p)'
          <5> SUFFICES ASSUME Timely', p.kind = "finish"
                       PROVE  /\ Final(p.id)' /\ p.racer = result[p.id] /\ p.pc # "camera"
                              /\ p.pc \in {"sent", "orphan"} => p.race = opened[p.id]
            BY <1>3 DEF FinishInTime
          <5>1. Timely /\ p.pc # "camera"
                /\ (p.pc \in {"sent", "orphan"} => p.race # nextRaceId)
            BY <1>10, <4>1
          <5>2. Final(p.id)'
            BY <1>11, <4>2, <5>1 DEF FinishInTime
          <5> QED BY <4>2, <5>1, <5>2 DEF FinishInTime, Linked
        <4> QED BY <4>2, <4>3 DEF FinishInTime
      <3> QED BY <3>3, <3>4, <3>5 DEF Sound
    <2> QED BY <2>1, <2>2
  <1>13. OpenClear' => \A g, k \in Handlers :
                         request'[g].kind = "open" /\ request'[k].kind = "open" => g = k
    BY <1>6, <1>8 DEF NoOpens
  <1>14. HandlersInTime'
    BY <1>12, <1>13 DEF HandlersInTime
  <1>15. OddsInTime'
    BY <1>3 DEF OddsInTime
  <1>16. ResultsInTime'
    BY <1>3, <1>10, <1>11 DEF RoomInTime, ResultsInTime
  <1>17. \A i \in LocalId : i > opens' => opened'[i] = NoRace /\ untimely'[i] = {}
    <2>1. \A i \in LocalId : i > opens + 1 => untimely'[i] = untimely[i]
      BY <1>3, <1>4 DEF RoomBase, RoomType
    <2> QED BY <1>3, <1>4, <2>1 DEF RoomInTime
  <1>18. RoomInTime'
    BY <1>3, <1>15, <1>16, <1>17 DEF RoomInTime
  <1> QED BY <1>14, <1>18

LEMMA RestartInTime ==
  ASSUME RoomBase, IInv, HandlersInTime, RoomInTime, Restart
  PROVE  HandlersInTime' /\ RoomInTime'
  <1>1. /\ current' = NoCurrent /\ bets' = {} /\ onChainRaceId' = NoRace
        /\ UNCHANGED <<status, winner, nextRaceId, opens, opened, result, untimely>>
        /\ request' = [h \in Handlers |-> IF request[h].pc \in {"sent", "orphan"}
                                          THEN [request[h] EXCEPT !.pc = "orphan"] ELSE Idle]
    BY DEF Restart, marketVars
  <1>2. ASSUME NEW h \in Handlers
        PROVE  \/ request'[h] = Idle
               \/ /\ request[h].pc \in {"sent", "orphan"}
                  /\ MovesTo(request[h], request'[h], "orphan", request[h].race, request[h].took)
    <2>1. request[h] \in RequestRecord
      BY RequestFacts
    <2>2. request[h].race \in RaceNumber /\ request[h].took \in BOOLEAN
      BY <2>1 DEF RequestRecord
    <2>3. MovesTo(request[h], [request[h] EXCEPT !.pc = "orphan"], "orphan",
                  request[h].race, request[h].took)
      BY <2>1, <2>2, RequestMoves DEF Waiting
    <2> QED BY <1>1, <2>3
  <1>3. \A h \in Handlers : request'[h].kind # "none" => request'[h].kind = request[h].kind
    BY <1>2, IdleInTime DEF MovesTo
  <1>4. NoOpens => NoOpens'
    BY <1>3 DEF NoOpens
  <1>5. \A r : Linked(r)' <=> Linked(r)
    BY <1>1 DEF Linked
  <1>6. (OpenClear' <=> OpenClear) /\ (BetClear' <=> BetClear) /\ (Timely' <=> Timely)
    BY <1>1, ClearKept
  <1>7. \A i : Final(i) => Final(i)'
    BY <1>1 DEF Final, NoCurrent
  <1>8. ASSUME NEW h \in Handlers PROVE Sound(request[h])'
    <2>1. CASE request'[h] = Idle
      <3>1. request'[h].kind = "none"
        BY <2>1, IdleInTime
      <3> QED BY <3>1 DEF Sound, OpenInTime, BetInTime, FinishInTime
    <2>2. CASE /\ request[h].pc \in {"sent", "orphan"}
               /\ MovesTo(request[h], request'[h], "orphan", request[h].race, request[h].took)
      <3>1. PICK p, q : p = request[h] /\ q = request'[h]
        OBVIOUS
      <3>2. /\ q.kind = p.kind /\ q.pc = "orphan" /\ q.race = p.race /\ q.id = p.id
            /\ q.racer = p.racer /\ p.pc \in {"sent", "orphan"}
        BY <2>2, <3>1 DEF MovesTo
      <3>3. OpenInTime(p) /\ BetInTime(p) /\ FinishInTime(p)
        BY <3>1, HandlerFacts
      <3>4. OpenInTime(q)'
        BY <1>1, <1>6, <3>2, <3>3 DEF OpenInTime
      <3>5. BetInTime(q)'
        BY <3>2 DEF BetInTime
      <3>6. FinishInTime(q)'
        <4>1. Timely /\ p.kind = "finish" => Final(p.id)'
          BY <1>7, <3>3 DEF FinishInTime
        <4> QED BY <1>1, <1>4, <1>5, <1>6, <3>2, <3>3, <4>1 DEF FinishInTime
      <3>7. Sound(q)'
        BY <3>4, <3>5, <3>6 DEF Sound
      <3> QED BY <3>1, <3>7 DEF Sound, OpenInTime, BetInTime, FinishInTime
    <2> QED BY <1>2, <2>1, <2>2
  <1>9. HandlersInTime'
    BY <1>3, <1>6, <1>8 DEF HandlersInTime
  <1>10. OddsInTime' /\ ResultsInTime'
    BY <1>1, <1>6, <1>7 DEF RoomInTime, OddsInTime, ResultsInTime
  <1>11. RoomInTime'
    BY <1>1, <1>10 DEF RoomInTime
  <1> QED BY <1>9, <1>11

(* A transaction that has reverted, or a bet that is placed, changes       *)
(* nothing a handler believes.                                             *)
LEMMA FailInTime ==
  ASSUME RoomBase, IInv, HandlersInTime, RoomInTime, NEW h \in Handlers,
         NEW q \in RequestRecord, NEW pc \in {"mined", "orphan"}, NEW took \in BOOLEAN,
         request[h].pc = "sent", MovesTo(request[h], q, pc, request[h].race, took),
         request' = [request EXCEPT ![h] = q],
         UNCHANGED <<status, winner, nextRaceId, current, bets, onChainRaceId, opens, opened,
                     result, untimely>>
  PROVE  HandlersInTime' /\ RoomInTime'
  <1>1. /\ OpenInTime(request[h]) /\ BetInTime(request[h]) /\ FinishInTime(request[h])
        /\ RequestSound(request[h])
    BY HandlerFacts, RequestFacts
  <1>2. /\ q.kind = request[h].kind /\ q.pc = pc /\ q.race = request[h].race
        /\ q.id = request[h].id /\ q.racer = request[h].racer
    BY DEF MovesTo
  <1>3. OpenInTime(q)
    BY <1>1, <1>2 DEF OpenInTime, Linked, RequestSound
  <1>4. BetInTime(q) /\ FinishInTime(q)
    BY <1>1, <1>2 DEF BetInTime, FinishInTime
  <1>5. OddsInTime'
    BY OddsKept
  <1> QED BY <1>2, <1>3, <1>4, <1>5, QuietInTime DEF Sound

LEMMA IdleStepInTime ==
  ASSUME RoomBase, IInv, HandlersInTime, RoomInTime, NEW h \in Handlers,
         request' = [request EXCEPT ![h] = Idle],
         UNCHANGED <<status, winner, nextRaceId, current, bets, onChainRaceId, opens, opened,
                     result, untimely>>
  PROVE  HandlersInTime' /\ RoomInTime'
  <1>1. Idle \in RequestRecord /\ Idle.kind # "open"
    BY IdleRequest, IdleInTime
  <1>2. OddsInTime'
    BY OddsKept
  <1> QED BY <1>1, <1>2, IdleInTime, QuietInTime

(* The room's race is opened on the market.                                *)
LEMMA OpenedInTime ==
  ASSUME RoomBase, IInv, HandlersInTime, RoomInTime, NEW h \in Handlers, NEW q \in RequestRecord,
         request[h].pc \in {"sent", "orphan"}, request[h].kind = "open", openRace(Guard),
         opened' = [opened EXCEPT ![request[h].id] = nextRaceId],
         request' = [request EXCEPT ![h] = q],
         \/ q = Idle
         \/ request[h].pc = "sent" /\ MovesTo(request[h], q, "mined", request[h].race, TRUE),
         UNCHANGED <<current, bets, onChainRaceId, opens, result, untimely>>
  PROVE  HandlersInTime' /\ RoomInTime'
  <1>1. PICK x : x = request[h].id
    OBVIOUS
  <1>2. /\ x \in LocalId /\ x <= opens /\ opens \in 0..MaxOpens
        /\ OpenClear => /\ x = opens /\ onChainRaceId = NoRace
                        /\ opened[opens] = NoRace /\ request[h].race = nextRaceId
    BY <1>1, HandlerFacts, RequestFacts DEF OpenInTime, RequestSound, RoomType
  <1>3. /\ nextRaceId' = nextRaceId + 1 /\ nextRaceId < MaxRaces /\ winner' = winner
        /\ status' = [status EXCEPT ![nextRaceId] = "Open"]
    BY DEF openRace, CanOpen
  <1>4. nextRaceId \in RaceId /\ nextRaceId # NoRace
    BY <1>3, MarketFacts, MarketAssumption DEF RaceId, NoRace
  <1>5. /\ opened'[x] = nextRaceId
        /\ \A i \in LocalId : i # x => opened'[i] = opened[i]
    BY <1>1, <1>2 DEF RoomBase, RoomType
  <1>6. /\ status'[nextRaceId] = "Open"
        /\ \A r \in RaceId : r # nextRaceId => status'[r] = status[r]
    BY <1>3, <1>4, MarketFacts
  <1>7. \A g \in Handlers : request'[g] = IF g = h THEN q ELSE request[g]
    BY DEF RoomBase, RoomType
  <1>8. (OpenClear' <=> OpenClear) /\ (BetClear' <=> BetClear) /\ (Timely' <=> Timely)
    BY ClearKept
  <1>9. OpenClear => \A g \in Handlers : g # h => request[g].kind # "open"
    BY DEF HandlersInTime
  <1>10. q.kind # "open" \/ /\ q.kind = "open" /\ q.pc = "mined"
                            /\ q.id = x /\ q.race = request[h].race
    BY <1>1, IdleInTime DEF MovesTo
  <1>11. q.kind \notin {"bet", "finish"}
    BY IdleInTime DEF MovesTo
  <1>12. \A i : Final(i)' <=> Final(i)
    BY FinalKept
  <1>13. ~NoOpens
    BY DEF NoOpens
  <1>14. ASSUME OpenClear, NEW i \in LocalId, opened[i] # NoRace
         PROVE  opened'[i] = opened[i]
    BY <1>2, <1>5, <1>14
  <1>15. ASSUME NEW g \in Handlers PROVE Sound(request[g])'
    <2>1. CASE g = h
      <3>1. request'[g] = q
        BY <1>7, <2>1
      <3>2. OpenInTime(q)'
        BY <1>2, <1>4, <1>5, <1>8, <1>10 DEF OpenInTime, Linked
      <3>3. Sound(q)'
        BY <1>11, <3>2 DEF Sound, BetInTime, FinishInTime
      <3> QED BY <3>1, <3>3 DEF Sound, OpenInTime, BetInTime, FinishInTime
    <2>2. CASE g # h
      <3>1. PICK p : p = request[g]
        OBVIOUS
      <3>2. /\ OpenInTime(p) /\ BetInTime(p) /\ FinishInTime(p)
            /\ p.race # NoRace \/ p.pc \notin {"sent", "orphan"}
            /\ request'[g] = p
        BY <1>7, <2>2, <3>1, HandlerFacts, RequestFacts DEF RequestSound, Waiting
      <3>3. OpenInTime(p)'
        <4>1. OpenClear => p.kind # "open"
          BY <1>9, <2>2, <3>1
        <4> QED BY <1>8, <3>2, <4>1 DEF OpenInTime
      <3>4. BetInTime(p)'
        BY <1>8, <1>13, <3>2 DEF BetInTime
      <3>5. FinishInTime(p)'
        <4> SUFFICES ASSUME Timely, p.kind = "finish"
                     PROVE  /\ Final(p.id)' /\ p.racer = result[p.id]
                            /\ p.pc = "camera" => p.id = opens
                            /\ p.pc \in {"sent", "orphan"} => p.race = opened'[p.id]
          BY <1>8 DEF FinishInTime
        <4>1. Final(p.id) /\ p.racer = result[p.id] /\ (p.pc = "camera" => p.id = opens)
          BY <3>2 DEF FinishInTime
        <4>2. ASSUME p.pc \in {"sent", "orphan"} PROVE p.race = opened'[p.id]
          <5>1. p.race = opened[p.id] /\ p.race # NoRace
            BY <1>13, <3>2, <4>2 DEF FinishInTime
          <5>2. p.id \in LocalId /\ OpenClear
            BY <4>1, ClearFacts DEF Final
          <5> QED BY <1>14, <5>1, <5>2
        <4> QED BY <1>12, <4>1, <4>2
      <3>6. Sound(p)'
        BY <3>3, <3>4, <3>5 DEF Sound
      <3> QED BY <3>2, <3>6 DEF Sound, OpenInTime, BetInTime, FinishInTime
    <2> QED BY <2>1, <2>2
  <1>16. OpenClear' => \A g, k \in Handlers :
                         request'[g].kind = "open" /\ request'[k].kind = "open" => g = k
    BY <1>7, <1>8, <1>9
  <1>17. HandlersInTime'
    BY <1>15, <1>16 DEF HandlersInTime
  <1>18. ASSUME NEW r \in RaceId, Timely', status'[r] = "Settled"
         PROVE  \E i \in LocalId : Final(i)' /\ opened'[i] = r /\ result'[i] = winner'[r]
    <2>1. status[r] = "Settled" /\ r # NoRace
      BY <1>6, <1>18, MarketAssumption DEF RaceId, NoRace
    <2>2. PICK i \in LocalId : Final(i) /\ opened[i] = r /\ result[i] = winner[r]
      BY <1>8, <1>18, <2>1 DEF RoomInTime, ResultsInTime
    <2>3. opened'[i] = opened[i]
      BY <1>8, <1>14, <1>18, <2>1, <2>2, ClearFacts
    <2> QED BY <1>3, <1>12, <2>2, <2>3
  <1>19. \A i \in LocalId : i > opens => opened'[i] = NoRace /\ untimely'[i] = {}
    <2>1. \A i \in LocalId : i > opens => i # x
      BY <1>2 DEF LocalId
    <2> QED BY <1>5, <2>1 DEF RoomInTime
  <1>20. OddsInTime'
    <2> SUFFICES ASSUME BetClear, NEW m \in bets PROVE m.backed \in {NoRace, opened'[opens]}
      BY <1>8 DEF OddsInTime
    <2>1. m.backed \in {NoRace, opened[opens]} /\ opened[opens] = NoRace
      BY <1>2, ClearFacts DEF RoomInTime, OddsInTime
    <2> QED BY <2>1
  <1>21. OpenClear' => onChainRaceId' = NoRace
    BY <1>2, <1>8
  <1>22. RoomInTime'
    BY <1>18, <1>19, <1>20, <1>21 DEF RoomInTime, ResultsInTime
  <1> QED BY <1>17, <1>22

(* A race is settled on the market: it is the one the result was recorded  *)
(* for, because one that nobody has opened cannot be settled.              *)
LEMMA SettledInTime ==
  ASSUME RoomBase, IInv, HandlersInTime, RoomInTime, NEW h \in Handlers, NEW q \in RequestRecord,
         request[h].pc \in {"sent", "orphan"}, request[h].kind = "finish",
         request[h].race \in RaceId, settle(Guard, request[h].race, request[h].racer),
         request' = [request EXCEPT ![h] = q],
         \/ q = Idle
         \/ request[h].pc = "sent" /\ MovesTo(request[h], q, "mined", request[h].race, TRUE),
         UNCHANGED <<current, bets, onChainRaceId, opens, opened, result, untimely>>
  PROVE  HandlersInTime' /\ RoomInTime'
  <1>1. PICK f : f = request[h]
    OBVIOUS
  <1>2. f.race \in RaceId /\ f.kind = "finish" /\ f.pc \in {"sent", "orphan"} /\ FinishInTime(f)
    BY <1>1, HandlerFacts
  <1>3. /\ status[f.race] = "Open" /\ nextRaceId' = nextRaceId
        /\ status' = [status EXCEPT ![f.race] = "Settled"]
        /\ winner' = [winner EXCEPT ![f.race] = f.racer]
    BY <1>1 DEF settle, CanSettle
  <1>4. f.race # nextRaceId
    BY <1>2, <1>3, MarketFacts, MarketAssumption
  <1>5. Timely => Final(f.id) /\ opened[f.id] = f.race /\ f.racer = result[f.id]
    BY <1>2, <1>4 DEF FinishInTime, Linked
  <1>6. winner'[f.race] = f.racer
    BY <1>2, <1>3, MarketFacts
  <1>7. \A x \in RaceId : x # f.race => status'[x] = status[x] /\ winner'[x] = winner[x]
    BY <1>3, MarketFacts
  <1>8. (\A x : Linked(x)' <=> Linked(x)) /\ (\A i : Final(i)' <=> Final(i))
    BY <1>3, FinalKept DEF Linked
  <1>9. (OpenClear' <=> OpenClear) /\ (BetClear' <=> BetClear) /\ (Timely' <=> Timely)
    BY ClearKept
  <1>10. \A g \in Handlers : request'[g] = IF g = h THEN q ELSE request[g]
    BY DEF RoomBase, RoomType
  <1>11. q.kind = "none" \/ /\ q.kind = "finish" /\ q.pc = "mined"
                            /\ q.id = f.id /\ q.racer = f.racer
    BY <1>1, <1>2, IdleInTime DEF MovesTo
  <1>12. NoOpens => NoOpens'
    BY <1>10, <1>11 DEF NoOpens
  <1>13. ASSUME NEW g \in Handlers PROVE Sound(request[g])'
    <2>1. CASE g = h
      <3>1. Sound(q)'
        BY <1>5, <1>8, <1>9, <1>11 DEF Sound, OpenInTime, BetInTime, FinishInTime
      <3>2. request'[g] = q
        BY <1>10, <2>1
      <3> QED BY <3>1, <3>2 DEF Sound, OpenInTime, BetInTime, FinishInTime
    <2>2. CASE g # h
      <3>1. request'[g] = request[g] /\ Sound(request[g])
        BY <1>10, <2>2 DEF HandlersInTime
      <3> QED BY <1>3, <1>8, <1>9, <1>12, <3>1 DEF Sound, OpenInTime, BetInTime, FinishInTime
    <2> QED BY <2>1, <2>2
  <1>14. OpenClear' => \A g, k \in Handlers :
                         request'[g].kind = "open" /\ request'[k].kind = "open" => g = k
    BY <1>9, <1>10, <1>11 DEF HandlersInTime
  <1>15. HandlersInTime'
    BY <1>13, <1>14 DEF HandlersInTime
  <1>16. ASSUME NEW x \in RaceId, Timely', status'[x] = "Settled"
         PROVE  \E i \in LocalId : Final(i)' /\ opened'[i] = x /\ result'[i] = winner'[x]
    <2>1. CASE x = f.race
      <3>1. Final(f.id)' /\ opened'[f.id] = x /\ result'[f.id] = winner'[x] /\ f.id \in LocalId
        BY <1>5, <1>6, <1>8, <1>9, <1>16, <2>1 DEF Final
      <3> QED BY <3>1
    <2>2. CASE x # f.race
      <3>1. status[x] = "Settled" /\ winner'[x] = winner[x]
        BY <1>7, <1>16, <2>2
      <3> QED BY <1>8, <1>9, <1>16, <3>1 DEF RoomInTime, ResultsInTime
    <2> QED BY <2>1, <2>2
  <1>17. OddsInTime'
    BY OddsKept
  <1>18. RoomInTime'
    BY <1>8, <1>9, <1>12, <1>16, <1>17 DEF RoomInTime, ResultsInTime
  <1> QED BY <1>15, <1>18

LEMMA MinedInTime ==
  ASSUME RoomBase, IInv, HandlersInTime, RoomInTime, NEW h \in Handlers, Mined(h)
  PROVE  HandlersInTime' /\ RoomInTime'
  <1>1. PICK took \in BOOLEAN :
          /\ Answered(h, took)
          /\ \/ took /\ Effect(request[h])
             \/ ~took /\ Reverts(request[h]) /\ UNCHANGED <<marketVars, opened>>
    BY DEF Mined
  <1>2. /\ request[h].pc \in {"sent", "orphan"}
        /\ UNCHANGED <<current, bets, onChainRaceId, opens, result, untimely>>
    BY DEF Mined
  <1>3. PICK q \in RequestRecord :
          /\ request' = [request EXCEPT ![h] = q]
          /\ \/ q = Idle
             \/ request[h].pc = "sent"
                /\ MovesTo(request[h], q, "mined", request[h].race, took)
    BY <1>1, <1>2, AnswerFacts
  <1>4. CASE UNCHANGED <<status, winner, nextRaceId, opened>>
    <2>1. CASE q = Idle
      BY <1>2, <1>3, <1>4, <2>1, IdleStepInTime
    <2>2. CASE request[h].pc = "sent" /\ MovesTo(request[h], q, "mined", request[h].race, took)
      BY <1>2, <1>3, <1>4, <2>2, FailInTime
    <2> QED BY <1>3, <2>1, <2>2
  <1>5. CASE took /\ request[h].kind = "open" /\ Effect(request[h])
    <2>1. openRace(Guard) /\ opened' = [opened EXCEPT ![request[h].id] = nextRaceId] /\ took = TRUE
      BY <1>5 DEF Effect
    <2> QED BY <1>2, <1>3, <1>5, <2>1, OpenedInTime
  <1>6. CASE took /\ request[h].kind = "finish" /\ Effect(request[h])
    <2>1. /\ request[h].race \in RaceId /\ settle(Guard, request[h].race, request[h].racer)
          /\ opened' = opened /\ took = TRUE
      BY <1>6 DEF Effect
    <2> QED BY <1>2, <1>3, <1>6, <2>1, SettledInTime
  <1>7. ~took \/ (took /\ request[h].kind = "bet") => UNCHANGED <<status, winner, nextRaceId, opened>>
    BY <1>1 DEF Effect, bet, marketVars
  <1>8. Effect(request[h]) => request[h].kind \in {"open", "bet", "finish"}
    BY DEF Effect
  <1> QED BY <1>1, <1>4, <1>5, <1>6, <1>7, <1>8

LEMMA FailStepInTime ==
  ASSUME RoomBase, IInv, HandlersInTime, RoomInTime, NEW h \in Handlers, Fail(h)
  PROVE  HandlersInTime' /\ RoomInTime'
  <1>1. UNCHANGED <<status, winner, nextRaceId, current, bets, onChainRaceId, opens, opened,
                     result, untimely>>
    BY DEF Fail, marketVars
  <1>2. CASE Done(h)
    BY <1>1, <1>2, IdleStepInTime DEF Done
  <1>3. CASE request[h].pc = "sent" /\ Moved(h, "orphan")
    <2>1. request[h] \in RequestRecord
      BY RequestFacts
    <2>2. PICK q : q = [request[h] EXCEPT !.pc = "orphan"]
      OBVIOUS
    <2>3. request[h].race \in RaceNumber /\ request[h].took \in BOOLEAN
      BY <2>1 DEF RequestRecord
    <2>4. MovesTo(request[h], q, "orphan", request[h].race, request[h].took)
      BY <2>1, <2>2, <2>3, RequestMoves DEF Waiting
    <2>5. q \in RequestRecord /\ request' = [request EXCEPT ![h] = q]
      BY <1>3, <2>2, <2>4 DEF MovesTo, Moved
    <2> QED BY <1>1, <1>3, <2>3, <2>4, <2>5, FailInTime
  <1> QED BY <1>2, <1>3 DEF Fail

LEMMA StillInTime ==
  ASSUME HandlersInTime, RoomInTime, (\E key \in Keys : SetJudge(key)) \/ UNCHANGED vars
  PROVE  HandlersInTime' /\ RoomInTime'
  <1>1. UNCHANGED <<status, winner, nextRaceId, current, bets, onChainRaceId, request, opens,
                    opened, result, untimely>>
    BY DEF SetJudge, setJudge, vars, roomVars
  <1>2. (\A r : Linked(r)' <=> Linked(r)) /\ (NoOpens' <=> NoOpens) /\ (\A i : Final(i)' <=> Final(i))
    BY <1>1, FinalKept DEF Linked, NoOpens
  <1>3. (OpenClear' <=> OpenClear) /\ (BetClear' <=> BetClear) /\ (Timely' <=> Timely)
    BY <1>1, ClearKept
  <1>4. HandlersInTime'
    BY <1>1, <1>2, <1>3 DEF HandlersInTime, Sound, OpenInTime, BetInTime, FinishInTime
  <1>5. OddsInTime' /\ ResultsInTime'
    BY <1>1, <1>2, <1>3, OddsKept DEF RoomInTime, ResultsInTime
  <1>6. RoomInTime'
    BY <1>1, <1>2, <1>3, <1>5 DEF RoomInTime
  <1> QED BY <1>4, <1>6

LEMMA NextInTime == RoomBase /\ IInv /\ InTime /\ [Next]_vars => InTime'
  <1> SUFFICES ASSUME RoomBase, IInv, InTime, [Next]_vars
               PROVE  HandlersInTime' /\ RoomInTime'
    BY DEF InTime
  <1>1. HandlersInTime /\ RoomInTime
    BY DEF InTime
  <1>2. ASSUME NEW h \in Handlers, Request(h) PROVE HandlersInTime' /\ RoomInTime'
    BY <1>1, <1>2, OpenInTimeStep, BetStepInTime, FinishStepInTime DEF Request, Named
  <1>3. ASSUME NEW h \in Handlers, HandlerStep(h) PROVE HandlersInTime' /\ RoomInTime'
    <2>1. CASE BetAnswered(h) \/ FinishAnswered(h)
      <3>1. /\ Done(h)
            /\ UNCHANGED <<marketVars, current, onChainRaceId, opens, opened, result, untimely>>
            /\ bets' = bets \/ (request[h].kind = "bet" /\ Mirror(h))
        BY <2>1 DEF BetAnswered, FinishAnswered
      <3> QED BY <1>1, <3>1, DoneInTime
    <2> QED BY <1>1, <1>3, <2>1, OpenSendInTime, AnsweredInTime, ReadsInTime, MinedInTime,
               FailStepInTime DEF HandlerStep
  <1> QED BY <1>1, <1>2, <1>3, ArmStartInTime, RestartInTime, StillInTime DEF Next

(* The invariant of the room: types, the shape of requests, and that every *)
(* answer a handler waits for, or that is still to come after it is gone,  *)
(* belongs to the race it was asked for, where that race was opened in     *)
(* time (index.ts, the /race routes).                                      *)
THEOREM RoomInvariantHolds == Spec => [](RoomBase /\ InTime)
  <1>1. Init => InTime
    BY RoomInit
  <1>2. RoomBase /\ IInv /\ InTime /\ [Next]_vars => InTime'
    BY NextInTime DEF InTime
  <1> QED BY <1>1, <1>2, RoomBaseHolds, PTL DEF Spec

(* Unless some race was opened while another open, its transaction, a      *)
(* finish photo or the settlement of a race never opened was outstanding,  *)
(* the market's winner of every settled race is the one the room recorded  *)
(* for the race it opened it for: transactions may fail, be mined late,    *)
(* after a restart or while a later race runs, and the judge may change    *)
(* (finish handler, openRaceOnChain and settleRaceOnChain).                *)
THEOREM RacesSettledAsRaced == Spec => []SettledAsRaced
  <1>1. RoomBase /\ InTime => SettledAsRaced
    BY DEF InTime, RoomInTime, ResultsInTime, Timely, SettledAsRaced, WinnersMatch
  <1> QED BY <1>1, RoomInvariantHolds, PTL

(* Unless the present race was opened while another open, its transaction  *)
(* or the transaction of a bet was outstanding, every bet in the room's    *)
(* odds that has a stake has it in the market's race of the present race,  *)
(* whatever happened to earlier races (bet handler, placeBet).             *)
THEOREM BetsStayWithRace == Spec => []BetsFollowRace
  <1>1. RoomBase /\ InTime => BetsFollowRace
    BY DEF InTime, RoomInTime, OddsInTime, BetClear, BetsFollowRace, StakesMatch, RoomBase,
           CurrentSound
  <1> QED BY <1>1, RoomInvariantHolds, PTL

(* The market behind the room can pay every claim, whatever the handlers   *)
(* of race.ts and settle.ts do, when they fail and after a restart.        *)
THEOREM RoomClaimsPayable == Spec => []ClaimsCovered
  BY RoomUsesMarket, ClaimsPayable, PTL
=============================================================================
