----------------------- MODULE Clanker500Escrow_proofs -----------------------
(* Theorems about Clanker500Escrow, for every set of drivers and keys,     *)
(* every amount and every number of races.                                 *)
EXTENDS Clanker500Escrow, TLAPS

(* What a race has before it runs: a slot is taken exactly when it has a   *)
(* driver, an open race asks for a stake, a race that left "Joined" for the*)
(* track has both stakes, and a race not yet opened has none.              *)
RacesStaked ==
  \A r \in RaceId :
    /\ \A s \in Slot : joined[r][s] <=> entrant[r][s] \in Drivers
    /\ status[r] # "None" => stakeWei[r] > 0
    /\ status[r] \in {"Locked", "Started", "Finished", "Settled"} => \A s \in Slot : joined[r][s]
    /\ r >= nextRaceId => status[r] = "None" /\ \A s \in Slot : ~joined[r][s]

(* The invariant the proofs carry through every step.  Balances keep their *)
(* type only because a payout goes to a driver, which the taken slots of a *)
(* race at its finish ensure.                                              *)
IInv == TypeOK /\ RacesStaked /\ TwoDrivers
-----------------------------------------------------------------------------
(* Payments.                                                               *)

(* A payment between two accounts leaves natural balances and moves exactly*)
(* the amount.                                                             *)
LEMMA PaidFacts ==
  ASSUME NEW bal \in [Account -> Nat], NEW from \in Account, NEW to \in Account, from # to,
         NEW amount \in Nat, amount <= bal[from]
  PROVE  /\ Paid(bal, from, to, amount) \in [Account -> Nat]
         /\ \A a \in Account : Paid(bal, from, to, amount)[a] =
              IF a = from THEN bal[a] - amount ELSE IF a = to THEN bal[a] + amount ELSE bal[a]
  BY DEF Paid

(* What a refund of one slot does to the balances (cancelRace).            *)
LEMMA RefundFacts ==
  ASSUME IInv, NEW bal \in [Account -> Nat], NEW r \in RaceId, NEW s \in Slot,
         RefundDue(r, s) <= bal[Escrow]
  PROVE  /\ RefundDue(r, s) \in Nat
         /\ Refunded(bal, r, s) \in [Account -> Nat]
         /\ Refunded(bal, r, s)[Escrow] = bal[Escrow] - RefundDue(r, s)
         /\ \A d \in Drivers : Refunded(bal, r, s)[d] =
              bal[d] + (IF entrant[r][s] = d THEN RefundDue(r, s) ELSE 0)
  <1>1. /\ stakeWei[r] \in Nat /\ joined[r][s] \in BOOLEAN
        /\ joined[r][s] <=> entrant[r][s] \in Drivers
    BY DEF IInv, TypeOK, RacesStaked
  <1>2. RefundDue(r, s) \in Nat
    BY <1>1 DEF RefundDue
  <1>3. Escrow \in Account /\ bal[Escrow] \in Nat /\ Drivers \subseteq Account /\ Escrow \notin Drivers
    BY NativeAssumption DEF Account
  <1>4. CASE joined[r][s]
    <2>1. entrant[r][s] \in Account /\ entrant[r][s] # Escrow
      BY <1>1, <1>3, <1>4
    <2>2. Refunded(bal, r, s) = Paid(bal, Escrow, entrant[r][s], RefundDue(r, s))
      BY <1>4 DEF Refunded
    <2>3. /\ Refunded(bal, r, s) \in [Account -> Nat]
          /\ \A a \in Account : Refunded(bal, r, s)[a] =
               IF a = Escrow THEN bal[a] - RefundDue(r, s)
               ELSE IF a = entrant[r][s] THEN bal[a] + RefundDue(r, s) ELSE bal[a]
      BY <1>2, <1>3, <2>1, <2>2, PaidFacts
    <2> QED BY <1>2, <1>3, <2>1, <2>3
  <1>5. CASE ~joined[r][s]
    <2>1. RefundDue(r, s) = 0 /\ Refunded(bal, r, s) = bal
      BY <1>5 DEF RefundDue, Refunded
    <2> QED BY <1>1, <1>3, <1>5, <2>1
  <1> QED BY <1>4, <1>5

(* The balances cancelRace leaves: both refunds.                           *)
LEMMA CancelBalances ==
  ASSUME IInv, NEW sender \in Keys, NEW r \in RaceId, cancelRace(sender, r)
  PROVE  /\ balances' \in [Account -> Nat]
         /\ balances'[Escrow] = balances[Escrow] - (RefundDue(r, 0) + RefundDue(r, 1))
         /\ \A d \in Drivers : balances'[d] =
              balances[d] + (IF entrant[r][0] = d THEN RefundDue(r, 0) ELSE 0)
                          + (IF entrant[r][1] = d THEN RefundDue(r, 1) ELSE 0)
  <1> DEFINE mid == Refunded(balances, r, 0)
  <1>1. 0 \in Slot /\ 1 \in Slot /\ Drivers \subseteq Account /\ Escrow \in Account
    BY DEF Slot, Account
  <1>2. balances \in [Account -> Nat] /\ balances[Escrow] \in Nat
    BY <1>1 DEF IInv, TypeOK
  <1>3. /\ RefundDue(r, 0) + RefundDue(r, 1) <= balances[Escrow]
        /\ balances' = Refunded(mid, r, 1)
    BY DEF cancelRace
  <1>4. RefundDue(r, 0) \in Nat /\ RefundDue(r, 1) \in Nat
    BY <1>1 DEF IInv, TypeOK, RefundDue
  <1>5. RefundDue(r, 0) <= balances[Escrow]
    BY <1>2, <1>3, <1>4
  <1>6. /\ mid \in [Account -> Nat]
        /\ mid[Escrow] = balances[Escrow] - RefundDue(r, 0)
        /\ \A d \in Drivers : mid[d] =
              balances[d] + (IF entrant[r][0] = d THEN RefundDue(r, 0) ELSE 0)
    BY <1>1, <1>2, <1>5, RefundFacts
  <1>7. RefundDue(r, 1) <= mid[Escrow]
    BY <1>2, <1>3, <1>4, <1>6
  <1>8. /\ Refunded(mid, r, 1) \in [Account -> Nat]
        /\ Refunded(mid, r, 1)[Escrow] = mid[Escrow] - RefundDue(r, 1)
        /\ \A d \in Drivers : Refunded(mid, r, 1)[d] =
              mid[d] + (IF entrant[r][1] = d THEN RefundDue(r, 1) ELSE 0)
    BY <1>1, <1>6, <1>7, RefundFacts
  <1> HIDE DEF mid
  <1> QED BY <1>1, <1>2, <1>3, <1>4, <1>6, <1>8

(* The balances settleRace leaves: both stakes to the winner, a driver.    *)
LEMMA SettleBalances ==
  ASSUME IInv, NEW sender \in Keys, NEW r \in RaceId, settleRace(sender, r)
  PROVE  /\ winnerSlot[r] \in Slot /\ entrant[r][winnerSlot[r]] \in Drivers
         /\ stakeWei[r] \in Nat /\ stakeWei[r] > 0 /\ \A s \in Slot : joined[r][s]
         /\ balances' \in [Account -> Nat]
         /\ balances'[Escrow] = balances[Escrow] - 2 * stakeWei[r]
         /\ \A d \in Drivers : balances'[d] =
              IF d = entrant[r][winnerSlot[r]] THEN balances[d] + 2 * stakeWei[r] ELSE balances[d]
  <1> DEFINE w == entrant[r][winnerSlot[r]]
  <1>1. winnerSlot[r] \in Slot /\ stakeWei[r] \in Nat /\ balances \in [Account -> Nat]
    BY DEF IInv, TypeOK
  <1>2. status[r] = "Finished"
    BY DEF settleRace
  <1>3. w \in Drivers /\ stakeWei[r] > 0 /\ \A s \in Slot : joined[r][s]
    BY <1>1, <1>2 DEF IInv, RacesStaked
  <1>4. /\ w \in Account /\ Escrow \in Account /\ Escrow # w /\ Drivers \subseteq Account
        /\ Escrow \notin Drivers
    BY <1>3, NativeAssumption DEF Account
  <1>5. /\ 2 * stakeWei[r] \in Nat /\ 2 * stakeWei[r] = Payout(r)
        /\ 2 * stakeWei[r] <= balances[Escrow]
        /\ balances' = Paid(balances, Escrow, w, 2 * stakeWei[r])
    BY <1>1 DEF settleRace, Payout
  <1>6. /\ balances' \in [Account -> Nat]
        /\ \A a \in Account : balances'[a] =
             IF a = Escrow THEN balances[a] - 2 * stakeWei[r]
             ELSE IF a = w THEN balances[a] + 2 * stakeWei[r] ELSE balances[a]
    BY <1>1, <1>4, <1>5, PaidFacts
  <1> QED BY <1>1, <1>3, <1>4, <1>6

(* The balances joinRace leaves: the stake in the escrow.                  *)
LEMMA JoinBalances ==
  ASSUME IInv, NEW d \in Drivers, NEW r \in RaceId, NEW s \in Slot, NEW value \in Stakes,
         joinRace(d, r, s, value)
  PROVE  /\ value \in Nat /\ value > 0 /\ value = stakeWei[r]
         /\ balances' \in [Account -> Nat]
         /\ balances'[Escrow] = balances[Escrow] + value
         /\ \A e \in Drivers : balances'[e] = IF e = d THEN balances[e] - value ELSE balances[e]
  <1>1. value \in Nat /\ value = stakeWei[r] /\ stakeWei[r] > 0
    BY NativeAssumption DEF joinRace, IInv, RacesStaked
  <1>2. /\ d \in Account /\ Escrow \in Account /\ d # Escrow /\ Drivers \subseteq Account
        /\ Escrow \notin Drivers /\ balances \in [Account -> Nat] /\ value <= balances[d]
        /\ balances' = Paid(balances, d, Escrow, value)
    BY NativeAssumption DEF Account, IInv, TypeOK, joinRace
  <1>3. /\ balances' \in [Account -> Nat]
        /\ \A a \in Account : balances'[a] =
             IF a = d THEN balances[a] - value
             ELSE IF a = Escrow THEN balances[a] + value ELSE balances[a]
    BY <1>1, <1>2, PaidFacts
  <1> QED BY <1>1, <1>2, <1>3
-----------------------------------------------------------------------------
(* The inductive invariant.                                                *)

LEMMA InitIInv == Init => IInv
  <1> SUFFICES ASSUME Init PROVE IInv
    OBVIOUS
  <1>1. TypeOK
    BY NativeAssumption DEF Init, TypeOK, RaceId, Slot, Status, Account
  <1>2. RacesStaked /\ TwoDrivers
    BY NativeAssumption DEF Init, RacesStaked, TwoDrivers, RaceId, Slot
  <1> QED BY <1>1, <1>2 DEF IInv

LEMMA JoinIInv ==
  ASSUME IInv, NEW d \in Drivers, NEW r \in RaceId, NEW s \in Slot, NEW value \in Stakes,
         joinRace(d, r, s, value)
  PROVE  IInv'
  <1>1. 1 - s \in Slot /\ joined[r][1 - s] \in BOOLEAN /\ (s = 0 \/ s = 1)
    BY DEF Slot, IInv, TypeOK
  <1>2. TypeOK'
    BY <1>1, JoinBalances DEF IInv, TypeOK, joinRace, StatusAfterJoin, Status, roleVars
  <1>3. RacesStaked'
    BY <1>1 DEF IInv, TypeOK, RacesStaked, joinRace, SlotOpenTo, StatusAfterJoin
  <1>4. TwoDrivers'
    BY <1>1 DEF IInv, TypeOK, TwoDrivers, joinRace, SlotOpenTo, Slot
  <1> QED BY <1>2, <1>3, <1>4 DEF IInv

LEMMA PayIInv ==
  ASSUME IInv, NEW sender \in Keys, NEW r \in RaceId, settleRace(sender, r) \/ cancelRace(sender, r)
  PROVE  IInv'
  <1>1. balances' \in [Account -> Nat]
    BY SettleBalances, CancelBalances
  <1>2. TypeOK'
    BY <1>1 DEF IInv, TypeOK, settleRace, cancelRace, Status, roleVars
  <1>3. RacesStaked'
    BY DEF IInv, TypeOK, RacesStaked, settleRace, cancelRace, Cancelable
  <1>4. TwoDrivers'
    BY DEF IInv, TwoDrivers, settleRace, cancelRace
  <1> QED BY <1>2, <1>3, <1>4 DEF IInv

LEMMA StatusIInv ==
  ASSUME IInv, NEW sender \in Keys, NEW r \in RaceId,
         \/ lockRace(sender, r)
         \/ startRace(sender, r)
         \/ \E winner \in 0..2 : finishRace(sender, r, winner)
  PROVE  IInv'
  <1>1. CASE lockRace(sender, r)
    BY <1>1 DEF IInv, TypeOK, RacesStaked, TwoDrivers, Status, lockRace, roleVars
  <1>2. CASE startRace(sender, r)
    BY <1>2 DEF IInv, TypeOK, RacesStaked, TwoDrivers, Status, startRace, roleVars
  <1>3. CASE \E winner \in 0..2 : finishRace(sender, r, winner)
    BY <1>3 DEF IInv, TypeOK, RacesStaked, TwoDrivers, Status, finishRace, WinnerSlotValid, Slot, roleVars
  <1> QED BY <1>1, <1>2, <1>3

LEMMA OpenIInv ==
  ASSUME IInv, NEW sender \in Keys, NEW stake \in Stakes \cup {0}, openRace(sender, stake)
  PROVE  IInv'
  <1>1. /\ stake \in Nat /\ stake > 0 /\ MaxRaces \in Nat
        /\ nextRaceId \in RaceId /\ nextRaceId + 1 \in 0..MaxRaces
    BY NativeAssumption DEF openRace, IInv, TypeOK, RaceId
  <1>2. TypeOK'
    BY <1>1 DEF IInv, TypeOK, openRace, Status, roleVars
  <1>3. RacesStaked' /\ TwoDrivers'
    BY <1>1 DEF IInv, TypeOK, RacesStaked, TwoDrivers, openRace, RaceId
  <1> QED BY <1>2, <1>3 DEF IInv

LEMMA OtherIInv ==
  ASSUME IInv, \/ \E d \in Drivers : Refuse(d)
               \/ \E sender, key \in Keys : setFacilitator(sender, key) \/ setOperator(sender, key)
               \/ UNCHANGED vars
  PROVE  IInv'
  BY DEF IInv, TypeOK, RacesStaked, TwoDrivers, Refuse, setFacilitator, setOperator, raceVars, roleVars, vars

LEMMA NextIInv == IInv /\ [Next]_vars => IInv'
  BY JoinIInv, PayIInv, StatusIInv, OpenIInv, OtherIInv DEF Next

-----------------------------------------------------------------------------
(* The invariant, in every behaviour of the contract.                      *)
THEOREM InvariantHolds == Spec => []IInv
  BY InitIInv, NextIInv, PTL DEF Spec

(* Every variable keeps its type for any drivers, amounts and races: no    *)
(* balance is ever negative and a payout goes to a real account.           *)
THEOREM TypeCorrect == Spec => []TypeOK
  <1>1. IInv => TypeOK
    BY DEF IInv
  <1> QED BY <1>1, InvariantHolds, PTL

(* The two slots of a race are never one driver's, in whichever order they *)
(* are taken (SameDriver in joinRace).                                     *)
THEOREM DriversDiffer == Spec => []TwoDrivers
  <1>1. IInv => TwoDrivers
    BY DEF IInv
  <1> QED BY <1>1, InvariantHolds, PTL
-----------------------------------------------------------------------------
(* The contract implements StakePool.                                      *)

Outcome(r) == CASE status[r] = "Settled" -> "paid"
                [] status[r] = "Canceled" -> "refunded"
                [] OTHER -> "open"

MappedPool == [r \in RaceId |-> [s \in Slot |-> Held(r, s)]]
MappedOutcome == [r \in RaceId |-> Outcome(r)]
MappedPurse == [d \in Drivers |-> balances[d]]

LEMMA HeldType ==
  ASSUME TypeOK
  PROVE  \A q \in RaceId, t \in Slot : Held(q, t) \in Nat
  BY DEF TypeOK, Held, RefundDue

LEMMA InitPool == Init => Pool!Init
  <1> SUFFICES ASSUME Init PROVE Pool!Init
    OBVIOUS
  <1>1. MappedPool = [r \in RaceId |-> [s \in Pool!Slot |-> 0]]
    BY DEF MappedPool, Held, Init, Slot, Pool!Slot
  <1>2. MappedOutcome = [r \in RaceId |-> "open"]
    BY DEF MappedOutcome, Outcome, Init
  <1>3. MappedPurse \in [Drivers -> Nat] /\ balances[Escrow] = 0
    BY NativeAssumption DEF MappedPurse, Init, Account
  <1>4. entrant = [r \in RaceId |-> [s \in Pool!Slot |-> NoDriver]]
    BY DEF Init, Slot, Pool!Slot
  <1> QED BY <1>1, <1>2, <1>3, <1>4 DEF Pool!Init, MappedPool, MappedOutcome, Outcome, MappedPurse

(* A step that moves no stake. *)
Still ==
  /\ \A q \in RaceId, t \in Slot : Held(q, t)' = Held(q, t)
  /\ \A q \in RaceId : Outcome(q)' = Outcome(q)
  /\ balances' = balances
  /\ entrant' = entrant

LEMMA StillSteps ==
  ASSUME IInv, NEW sender \in Keys,
         \/ \E d \in Drivers : Refuse(d)
         \/ \E stake \in Stakes \cup {0} : openRace(sender, stake)
         \/ \E r \in RaceId : lockRace(sender, r) \/ startRace(sender, r)
         \/ \E r \in RaceId, winner \in 0..2 : finishRace(sender, r, winner)
         \/ \E key \in Keys : setFacilitator(sender, key) \/ setOperator(sender, key)
  PROVE  Still
  <1> USE DEF Still, Held, RefundDue, Outcome, raceVars, roleVars
  <1>1. CASE \E d \in Drivers : Refuse(d)
    BY <1>1 DEF Refuse
  <1>2. CASE \E stake \in Stakes \cup {0} : openRace(sender, stake)
    <2>1. PICK stake \in Stakes \cup {0} : openRace(sender, stake)
      BY <1>2
    <2>2. nextRaceId \in RaceId
      BY <2>1, NativeAssumption DEF openRace, IInv, TypeOK, RaceId
    <2>3. status[nextRaceId] = "None" /\ \A t \in Slot : ~joined[nextRaceId][t]
      BY <2>2, NativeAssumption DEF IInv, TypeOK, RacesStaked, RaceId
    <2> QED BY <2>1, <2>2, <2>3 DEF openRace, IInv, TypeOK
  <1>3. ASSUME NEW r \in RaceId, lockRace(sender, r) \/ startRace(sender, r)
        PROVE  Still
    BY <1>3 DEF lockRace, startRace, IInv, TypeOK
  <1>4. ASSUME NEW r \in RaceId, NEW winner \in 0..2, finishRace(sender, r, winner)
        PROVE  Still
    BY <1>4 DEF finishRace, WinnerSlotValid, IInv, TypeOK
  <1>5. CASE \E key \in Keys : setFacilitator(sender, key) \/ setOperator(sender, key)
    BY <1>5 DEF setFacilitator, setOperator
  <1> QED BY <1>1, <1>2, <1>3, <1>4, <1>5

LEMMA StillPool == IInv /\ Still => UNCHANGED Pool!poolVars
  <1> SUFFICES ASSUME IInv, Still PROVE UNCHANGED Pool!poolVars
    OBVIOUS
  <1>1. MappedPool' = MappedPool /\ MappedOutcome' = MappedOutcome /\ MappedPurse' = MappedPurse
    BY DEF Still, MappedPool, MappedOutcome, MappedPurse
  <1> QED BY <1>1 DEF Still, Pool!poolVars, MappedPool, MappedOutcome, Outcome, MappedPurse

(* A join enters one stake, without a fee.                                 *)
LEMMA JoinPool ==
  ASSUME IInv, NEW d \in Drivers, NEW r \in RaceId, NEW s \in Slot, NEW value \in Stakes,
         joinRace(d, r, s, value)
  PROVE  Pool!Enter(r, s, d, value, 0)
  <1>1. /\ value \in Nat /\ value > 0 /\ value = stakeWei[r]
        /\ balances'[Escrow] = balances[Escrow] + value
        /\ \A e \in Drivers : balances'[e] = IF e = d THEN balances[e] - value ELSE balances[e]
    BY JoinBalances
  <1>2. 1 - s \in Slot /\ ~joined[r][s] /\ status[r] \in {"Created", "Joined"}
        /\ status'[r] \in {"Created", "Joined"} /\ \A q \in RaceId \ {r} : status'[q] = status[q]
    BY DEF joinRace, SlotOpenTo, Slot, StatusAfterJoin, IInv, TypeOK
  <1>3. \A q \in RaceId, t \in Slot : RefundDue(q, t)' =
          IF q = r /\ t = s THEN value ELSE RefundDue(q, t)
    BY <1>1, <1>2 DEF IInv, TypeOK, joinRace, RefundDue
  <1>4. \A q \in RaceId, t \in Slot : Held(q, t)' = IF q = r /\ t = s THEN value ELSE Held(q, t)
    BY <1>2, <1>3 DEF Held
  <1>5. \A q \in RaceId : Outcome(q)' = Outcome(q)
    BY <1>2 DEF Outcome
  <1>6. Outcome(r) = "open"
    BY <1>2 DEF Outcome
  <1>7. entrant[r][s] = NoDriver
    BY <1>2 DEF IInv, TypeOK, RacesStaked
  <1>8. MappedPool[r][1 - s] \in {0, value}
    BY <1>1, <1>2 DEF MappedPool, Held, RefundDue
  <1>9. value + 0 <= MappedPurse[d]
    BY <1>1 DEF MappedPurse, joinRace
  <1>10. MappedPool' = [MappedPool EXCEPT ![r][s] = value]
    BY <1>4 DEF MappedPool
  <1>11. MappedPurse' = [MappedPurse EXCEPT ![d] = @ - (value + 0)]
    <2>1. value + 0 = value
      BY <1>1
    <2>2. MappedPurse' = [MappedPurse EXCEPT ![d] = @ - value]
      BY <1>1 DEF MappedPurse
    <2> QED BY <2>1, <2>2
  <1>12. MappedOutcome' = MappedOutcome /\ MappedOutcome[r] = "open"
    BY <1>5, <1>6 DEF MappedOutcome
  <1>13. entrant' = [entrant EXCEPT ![r][s] = d]
    BY DEF joinRace
  <1> QED BY <1>1, <1>7, <1>8, <1>9, <1>10, <1>11, <1>12, <1>13
          DEF Pool!Enter, MappedPool, MappedOutcome, Outcome, MappedPurse

(* What a payout or a cancellation leaves in the pools: an empty one for   *)
(* its race, the others as they were.                                      *)
LEMMA PayHeld ==
  ASSUME IInv, NEW sender \in Keys, NEW r \in RaceId, settleRace(sender, r) \/ cancelRace(sender, r)
  PROVE  /\ \A t \in Slot : Held(r, t) = RefundDue(r, t) /\ Held(r, t) \in Nat
         /\ \A q \in RaceId, t \in Slot : Held(q, t)' = IF q = r THEN 0 ELSE Held(q, t)
         /\ entrant' = entrant
  <1>1. \A q \in RaceId, t \in Slot : RefundDue(q, t)' = RefundDue(q, t)
    BY DEF RefundDue, settleRace, cancelRace
  <1>2. /\ status'[r] \in {"Settled", "Canceled"} /\ status[r] \notin {"None", "Settled", "Canceled"}
        /\ \A q \in RaceId \ {r} : status'[q] = status[q]
    BY DEF IInv, TypeOK, settleRace, cancelRace, Cancelable
  <1>3. \A t \in Slot : Held(r, t) = RefundDue(r, t) /\ Held(r, t) \in Nat
    BY <1>2 DEF Held, RefundDue, IInv, TypeOK
  <1>4. \A q \in RaceId, t \in Slot : Held(q, t)' = IF q = r THEN 0 ELSE Held(q, t)
    BY <1>1, <1>2 DEF Held
  <1> QED BY <1>3, <1>4 DEF settleRace, cancelRace

LEMMA SettlePool ==
  ASSUME IInv, NEW sender \in Keys, NEW r \in RaceId, settleRace(sender, r),
         NEW w \in Slot, winnerSlot[r] = w
  PROVE  Pool!PayWinner(r, w)
  <1> DEFINE won == 2 * stakeWei[r]
  <1>1. /\ entrant[r][w] \in Drivers
        /\ stakeWei[r] \in Nat /\ stakeWei[r] > 0
        /\ \A t \in Slot : joined[r][t]
        /\ balances'[Escrow] = balances[Escrow] - won
        /\ \A e \in Drivers : balances'[e] =
             IF e = entrant[r][w] THEN balances[e] + won ELSE balances[e]
    BY SettleBalances
  <1>2. /\ \A t \in Slot : Held(r, t) = stakeWei[r]
        /\ \A q \in RaceId, t \in Slot : Held(q, t)' = IF q = r THEN 0 ELSE Held(q, t)
        /\ entrant' = entrant
    BY <1>1, PayHeld DEF RefundDue
  <1>3. /\ \A t \in Slot : MappedPool[r][t] = stakeWei[r]
        /\ MappedPool[r][0] + MappedPool[r][1] = won
    BY <1>1, <1>2 DEF MappedPool, Slot
  <1>4. MappedOutcome[r] = "open" /\ MappedOutcome' = [MappedOutcome EXCEPT ![r] = "paid"]
    BY DEF MappedOutcome, Outcome, settleRace, IInv, TypeOK
  <1>5. MappedPurse' = [MappedPurse EXCEPT ![entrant[r][w]] = @ + MappedPool[r][0] + MappedPool[r][1]]
    <2>1. MappedPurse' = [MappedPurse EXCEPT ![entrant[r][w]] = @ + won]
      BY <1>1 DEF MappedPurse
    <2>2. MappedPurse[entrant[r][w]] \in Nat
      BY <1>1 DEF MappedPurse, IInv, TypeOK, Account
    <2>3. MappedPurse[entrant[r][w]] + won
            = MappedPurse[entrant[r][w]] + MappedPool[r][0] + MappedPool[r][1]
      BY <1>1, <1>3, <2>2 DEF Slot
    <2> QED BY <2>1, <2>3
  <1>6. MappedPool' = [MappedPool EXCEPT ![r] = [t \in Slot |-> 0]]
    BY <1>2 DEF MappedPool
  <1> QED BY <1>1, <1>2, <1>3, <1>4, <1>5, <1>6
          DEF Pool!PayWinner, Pool!Emptied, Pool!Slot, Slot, MappedPool, MappedOutcome, Outcome, MappedPurse

LEMMA CancelPool ==
  ASSUME IInv, NEW sender \in Keys, NEW r \in RaceId, cancelRace(sender, r)
  PROVE  Pool!Refund(r)
  <1>1. /\ Held(r, 0) = RefundDue(r, 0) /\ Held(r, 1) = RefundDue(r, 1)
        /\ \A q \in RaceId, t \in Slot : Held(q, t)' = IF q = r THEN 0 ELSE Held(q, t)
        /\ entrant' = entrant
    BY PayHeld DEF Slot
  <1>2. MappedPool[r][0] = Held(r, 0) /\ MappedPool[r][1] = Held(r, 1)
    BY DEF MappedPool, Slot
  <1>3. MappedOutcome[r] = "open" /\ MappedOutcome' = [MappedOutcome EXCEPT ![r] = "refunded"]
    BY DEF MappedOutcome, Outcome, cancelRace, Cancelable, IInv, TypeOK
  <1>4. MappedPurse' = [d \in Drivers |->
          MappedPurse[d] + (IF entrant[r][0] = d THEN MappedPool[r][0] ELSE 0)
                         + (IF entrant[r][1] = d THEN MappedPool[r][1] ELSE 0)]
    BY <1>1, <1>2, CancelBalances DEF MappedPurse
  <1>5. balances'[Escrow] = balances[Escrow] - (MappedPool[r][0] + MappedPool[r][1])
    BY <1>1, <1>2, CancelBalances
  <1>6. MappedPool' = [MappedPool EXCEPT ![r] = [t \in Slot |-> 0]]
    BY <1>1 DEF MappedPool
  <1> QED BY <1>1, <1>3, <1>4, <1>5, <1>6
          DEF Pool!Refund, Pool!Emptied, Pool!Slot, Slot, MappedPool, MappedOutcome, Outcome, MappedPurse

LEMMA NextPool == IInv /\ [Next]_vars => [Pool!Next]_(Pool!poolVars)
  <1> SUFFICES ASSUME IInv, [Next]_vars PROVE [Pool!Next]_(Pool!poolVars)
    OBVIOUS
  <1>1. CASE UNCHANGED vars
    BY <1>1 DEF vars, Pool!poolVars, Held, RefundDue
  <1>2. ASSUME NEW sender \in Keys,
               \/ \E d \in Drivers : Refuse(d)
               \/ \E stake \in Stakes \cup {0} : openRace(sender, stake)
               \/ \E r \in RaceId : lockRace(sender, r) \/ startRace(sender, r)
               \/ \E r \in RaceId, winner \in 0..2 : finishRace(sender, r, winner)
               \/ \E key \in Keys : setFacilitator(sender, key) \/ setOperator(sender, key)
        PROVE  [Pool!Next]_(Pool!poolVars)
    BY <1>2, StillSteps, StillPool
  <1>3. ASSUME NEW d \in Drivers, NEW r \in RaceId, NEW s \in Slot, NEW value \in Stakes,
               joinRace(d, r, s, value)
        PROVE  Pool!Next
    BY <1>3, JoinPool DEF Pool!Next, Slot, Pool!Slot
  <1>4. ASSUME NEW sender \in Keys, NEW r \in RaceId, settleRace(sender, r)
        PROVE  Pool!Next
    <2>1. PICK w \in Slot : winnerSlot[r] = w
      BY DEF IInv, TypeOK
    <2>2. Pool!PayWinner(r, w)
      BY <1>4, <2>1, SettlePool
    <2> QED BY <2>2 DEF Pool!Next, Slot, Pool!Slot
  <1>5. ASSUME NEW sender \in Keys, NEW r \in RaceId, cancelRace(sender, r)
        PROVE  Pool!Next
    BY <1>5, CancelPool DEF Pool!Next
  <1>6. \E sender \in Keys : TRUE
    BY DEF IInv, TypeOK
  <1> QED BY <1>1, <1>2, <1>3, <1>4, <1>5, <1>6 DEF Next

(* For any drivers, races and amounts the contract implements the stake    *)
(* pool: each stake enters once and leaves once, to an entrant of its own  *)
(* race, also when an account refuses to be paid.                          *)
THEOREM Refinement == Spec => ImplementsStakePool
  BY InitPool, NextPool, InvariantHolds, PTL DEF Spec, ImplementsStakePool, Pool!Spec
-----------------------------------------------------------------------------
(* The contract implements RaceLedger.                                     *)

LEMMA JoinLedger ==
  ASSUME IInv, NEW d \in Drivers, NEW r \in RaceId, NEW s \in Slot, NEW value \in Stakes,
         joinRace(d, r, s, value)
  PROVE  Ledger!Join(r, s, d)
  <1>1. 1 - s \in Slot /\ (s = 1 => 1 - s = 0)
    BY DEF Slot
  <1>2. \A t \in Slot : joined[r][t] <=> entrant[r][t] # NoDriver
    BY NativeAssumption DEF IInv, TypeOK, RacesStaked
  <1> QED BY <1>1, <1>2 DEF joinRace, SlotOpenTo, StatusAfterJoin, Ledger!Join

LEMMA NextLedger == IInv /\ [Next]_vars => [Ledger!Next]_(Ledger!ledgerVars)
  <1> SUFFICES ASSUME IInv, [Next]_vars PROVE [Ledger!Next]_(Ledger!ledgerVars)
    OBVIOUS
  <1> USE DEF Ledger!RaceId, Ledger!Slot, RaceId, Slot
  <1>1. ASSUME \/ UNCHANGED vars
               \/ \E d \in Drivers : Refuse(d)
               \/ \E sender, key \in Keys : setFacilitator(sender, key) \/ setOperator(sender, key)
        PROVE  UNCHANGED Ledger!ledgerVars
    BY <1>1 DEF vars, Refuse, setFacilitator, setOperator, raceVars, Ledger!ledgerVars
  <1>2. ASSUME NEW d \in Drivers, NEW r \in RaceId, NEW s \in Slot, NEW value \in Stakes,
               joinRace(d, r, s, value)
        PROVE  Ledger!Next
    BY <1>2, JoinLedger DEF Ledger!Next
  <1>3. ASSUME NEW sender \in Keys, NEW stake \in Stakes \cup {0}, openRace(sender, stake)
        PROVE  Ledger!Next
    BY <1>3 DEF openRace, Ledger!Next, Ledger!OpenRace
  <1>4. ASSUME NEW sender \in Keys, NEW r \in RaceId,
               lockRace(sender, r) \/ startRace(sender, r) \/ settleRace(sender, r) \/ cancelRace(sender, r)
        PROVE  Ledger!Next
    <2>1. Ledger!Lock(r) \/ Ledger!Start(r) \/ Ledger!Settle(r) \/ Ledger!Cancel(r)
      BY <1>4 DEF lockRace, startRace, settleRace, cancelRace, Cancelable,
           Ledger!Lock, Ledger!Start, Ledger!Settle, Ledger!Cancel, Ledger!Advance
    <2> QED BY <2>1 DEF Ledger!Next
  <1>5. ASSUME NEW sender \in Keys, NEW r \in RaceId, NEW winner \in 0..2, finishRace(sender, r, winner)
        PROVE  Ledger!Next
    <2>1. winner \in Slot /\ Ledger!Finish(r, winner)
      BY <1>5 DEF finishRace, WinnerSlotValid, Ledger!Finish, Ledger!Advance
    <2> QED BY <2>1 DEF Ledger!Next
  <1> QED BY <1>1, <1>2, <1>3, <1>4, <1>5 DEF Next

(* For any drivers, races and amounts the contract implements the same     *)
(* RaceLedger as the token escrow: the sidecar can rely on either.         *)
THEOREM LedgerRefinement == Spec => ImplementsRaceLedger
  <1>1. Init => Ledger!Init
    BY DEF Init, Ledger!Init, Ledger!RaceId, Ledger!Slot, RaceId, Slot
  <1> QED BY <1>1, NextLedger, InvariantHolds, PTL DEF Spec, ImplementsRaceLedger, Ledger!Spec
=============================================================================
