-------------------------- MODULE RaceEscrow_proofs --------------------------
(* Theorems about RaceEscrow, for every value of its constants.            *)
EXTENDS RaceEscrow, SumLemmas, TLAPS

(* A transfer between two accounts keeps every balance a natural number as *)
(* long as the sender can afford it, and moves exactly the amount.         *)
LEMMA TransferType ==
  ASSUME NEW bal \in [Account -> Nat], NEW from \in Account, NEW to \in Account,
         NEW amount \in Nat, bal[from] >= amount
  PROVE  Transferred(bal, from, to, amount) \in [Account -> Nat]
  BY DEF Transferred

LEMMA TransferValue ==
  ASSUME NEW bal \in [Account -> Nat], NEW from \in Account, NEW to \in Account,
         NEW amount \in Nat, bal[from] >= amount, from # to, NEW a \in Account
  PROVE  Transferred(bal, from, to, amount)[a] =
           IF a = from THEN bal[a] - amount ELSE IF a = to THEN bal[a] + amount ELSE bal[a]
  BY DEF Transferred

(* The invariant the proofs carry through every step: types, and that      *)
(* stakes are in before a race runs.  Neither is inductive alone: a payout *)
(* goes to a real account only because the slots of a full race are taken. *)
IInv == TypeOK /\ StakedBeforeRun

LEMMA InitIInv == Init => IInv
  <1> SUFFICES ASSUME Init PROVE IInv
    OBVIOUS
  <1> USE DEF Init
  <1>1. TypeOK
    BY AccountsAssumption, AmountsAssumption
       DEF TypeOK, RaceId, Slot, Status, Account
  <1>2. StakedBeforeRun
    BY AccountsAssumption, AmountsAssumption DEF StakedBeforeRun, RaceId, Slot
  <1> QED BY <1>1, <1>2 DEF IInv

(* Every entry an authorization can make, with the facts a join rests on.  *)
LEMMA JoinIInv ==
  ASSUME IInv, NEW sender \in Keys, NEW entry \in signed, NEW granted \in Nat,
         JoinEntry(sender, entry, granted), permits' \in [Drivers -> SUBSET Nat]
  PROVE  IInv'
  <1> DEFINE r == entry.race
             s == entry.slot
             d == entry.driver
             mid == Transferred(balances, d, Escrow, entry.stakeAmount)
  <1>1. /\ r \in RaceId /\ s \in Slot /\ d \in Drivers
        /\ entry.stakeAmount \in Nat /\ entry.feeAmount \in Nat
        /\ 1 - s \in Slot
    <2>1. entry \in Entry
      BY DEF IInv, TypeOK
    <2>2. /\ r \in RaceId /\ s \in Slot /\ d \in Drivers
          /\ entry.stakeAmount \in Stakes /\ entry.feeAmount \in Fees
      BY <2>1 DEF Entry
    <2>3. entry.stakeAmount \in Nat /\ entry.feeAmount \in Nat
      BY <2>2, AmountsAssumption
    <2>4. 1 - s \in Slot
      BY <2>2 DEF Slot
    <2> QED BY <2>2, <2>3, <2>4
  <1>2. TypeOK'
    <2>1. balances' \in [Account -> Nat]
      <3>1. /\ balances \in [Account -> Nat]
            /\ d \in Account /\ Escrow \in Account /\ treasury \in Account
            /\ d # Escrow /\ d # treasury
        <4>1. balances \in [Account -> Nat] /\ treasury \in Treasuries
          BY DEF IInv, TypeOK
        <4> QED BY <1>1, <4>1, AccountsAssumption DEF Account
      <3>2. /\ balances[d] >= entry.stakeAmount + entry.feeAmount
            /\ balances[d] \in Nat
        BY <1>1, <3>1 DEF JoinEntry, FeesAdded
      <3>3. /\ mid \in [Account -> Nat]
            /\ mid[d] = balances[d] - entry.stakeAmount
        BY <1>1, <3>1, <3>2, TransferType, TransferValue
      <3>4. mid[d] >= entry.feeAmount
        BY <1>1, <3>2, <3>3
      <3>5. balances' = Transferred(mid, d, treasury, entry.feeAmount)
        BY DEF JoinEntry, FeesAdded
      <3> QED BY <1>1, <3>1, <3>3, <3>4, <3>5, TransferType
    <2>2. status' \in [RaceId -> Status]
      BY <1>1 DEF IInv, TypeOK, JoinEntry, FeesAdded, StatusAfterJoin, Status
    <2>3. /\ entrant' \in [RaceId -> [Slot -> Drivers \cup {NoDriver}]]
          /\ joined' \in [RaceId -> [Slot -> BOOLEAN]]
      BY <1>1 DEF IInv, TypeOK, JoinEntry, FeesAdded
    <2>4. /\ nonces' \in [Drivers -> Nat]
          /\ allowance' \in [Drivers -> Nat]
          /\ feesCollected' \in [RaceId -> Nat]
          /\ totalFeesCollected' \in Nat
      BY <1>1 DEF IInv, TypeOK, JoinEntry, FeesAdded, NonceUsed
    <2> QED BY <2>1, <2>2, <2>3, <2>4
            DEF IInv, TypeOK, JoinEntry, FeesAdded, roleVars, offChainVars
  <1>3. StakedBeforeRun'
    BY <1>1 DEF IInv, TypeOK, StakedBeforeRun, JoinEntry, FeesAdded, SlotOpenTo, StatusAfterJoin, Slot
  <1> QED BY <1>2, <1>3 DEF IInv

(* Settling and cancelling pay out of the escrow to drivers who joined.    *)
LEMMA SettleIInv ==
  ASSUME IInv, NEW sender \in Keys, NEW r \in RaceId, SettleRace(sender, r)
  PROVE  IInv'
  <1> DEFINE w == entrant[r][winnerSlot[r]]
  <1>1. /\ balances \in [Account -> Nat]
        /\ w \in Account /\ Escrow \in Account
        /\ 2 * stakeAmount[r] \in Nat
    <2>1. winnerSlot[r] \in Slot /\ stakeAmount[r] \in Nat /\ balances \in [Account -> Nat]
      BY DEF IInv, TypeOK
    <2>2. w \in Drivers
      BY <2>1 DEF IInv, StakedBeforeRun, SettleRace, Payout
    <2> QED BY <2>1, <2>2 DEF Account
  <1>2. balances' \in [Account -> Nat]
    BY <1>1, TransferType DEF SettleRace, Payout
  <1>3. TypeOK'
    BY <1>2 DEF IInv, TypeOK, SettleRace, Payout, Status, roleVars, offChainVars
  <1>4. StakedBeforeRun'
    BY DEF IInv, TypeOK, StakedBeforeRun, SettleRace, Payout
  <1> QED BY <1>3, <1>4 DEF IInv

LEMMA RefundType ==
  ASSUME IInv, NEW bal \in [Account -> Nat], NEW r \in RaceId, NEW s \in Slot,
         bal[Escrow] >= RefundDue(r, s)
  PROVE  /\ RefundDue(r, s) \in Nat
         /\ Refunded(bal, r, s) \in [Account -> Nat]
         /\ Refunded(bal, r, s)[Escrow] = bal[Escrow] - RefundDue(r, s)
         /\ \A d \in Drivers : Refunded(bal, r, s)[d] =
              bal[d] + (IF entrant[r][s] = d THEN RefundDue(r, s) ELSE 0)
  <1>1. stakeAmount[r] \in Nat /\ (joined[r][s] <=> entrant[r][s] \in Drivers)
        /\ joined[r][s] \in BOOLEAN
    BY DEF IInv, TypeOK, StakedBeforeRun
  <1>2. RefundDue(r, s) \in Nat
    BY <1>1 DEF RefundDue
  <1>3. Escrow \in Account /\ bal[Escrow] \in Nat /\ Drivers \subseteq Account /\ Escrow \notin Drivers
    BY AccountsAssumption DEF Account
  <1>4. CASE joined[r][s]
    <2>1. entrant[r][s] \in Account /\ entrant[r][s] # Escrow
      BY <1>1, <1>3, <1>4
    <2>2. Refunded(bal, r, s) = Transferred(bal, Escrow, entrant[r][s], RefundDue(r, s))
      BY <1>4 DEF Refunded
    <2>3. Refunded(bal, r, s) \in [Account -> Nat]
      BY <1>2, <1>3, <2>1, <2>2, TransferType
    <2>4. \A a \in Account : Refunded(bal, r, s)[a] =
            IF a = Escrow THEN bal[a] - RefundDue(r, s)
            ELSE IF a = entrant[r][s] THEN bal[a] + RefundDue(r, s) ELSE bal[a]
      BY <1>2, <1>3, <2>1, <2>2, TransferValue
    <2> QED BY <1>2, <1>3, <2>1, <2>3, <2>4
  <1>5. CASE ~joined[r][s]
    <2>1. RefundDue(r, s) = 0 /\ Refunded(bal, r, s) = bal
      BY <1>5 DEF RefundDue, Refunded
    <2> QED BY <1>3, <2>1, <1>1, <1>5
  <1> QED BY <1>4, <1>5

(* The balances cancelRace leaves: both refunds, in either order.          *)
LEMMA CancelBalances ==
  ASSUME IInv, NEW sender \in Keys, NEW r \in RaceId, CancelRace(sender, r)
  PROVE  /\ balances' \in [Account -> Nat]
         /\ balances'[Escrow] = balances[Escrow] - (RefundDue(r, 0) + RefundDue(r, 1))
         /\ \A d \in Drivers : balances'[d] =
              balances[d] + (IF entrant[r][0] = d THEN RefundDue(r, 0) ELSE 0)
                          + (IF entrant[r][1] = d THEN RefundDue(r, 1) ELSE 0)
  <1> DEFINE mid == Refunded(balances, r, 0)
  <1>1. 0 \in Slot /\ 1 \in Slot /\ Drivers \subseteq Account /\ Escrow \in Account
    BY DEF Slot, Account
  <1>2. balances \in [Account -> Nat] /\ balances[Escrow] \in Nat
    BY <1>1 DEF IInv, TypeOK
  <1>3. /\ balances[Escrow] >= RefundDue(r, 0) + RefundDue(r, 1)
        /\ balances' = Refunded(mid, r, 1)
    BY DEF CancelRace, Cancelable
  <1>4. RefundDue(r, 0) \in Nat /\ RefundDue(r, 1) \in Nat
    BY <1>1 DEF IInv, TypeOK, RefundDue
  <1>5. balances[Escrow] >= RefundDue(r, 0)
    BY <1>2, <1>3, <1>4
  <1>6. /\ mid \in [Account -> Nat]
        /\ mid[Escrow] = balances[Escrow] - RefundDue(r, 0)
        /\ \A d \in Drivers : mid[d] =
              balances[d] + (IF entrant[r][0] = d THEN RefundDue(r, 0) ELSE 0)
    BY <1>1, <1>2, <1>5, RefundType
  <1>7. mid[Escrow] >= RefundDue(r, 1)
    BY <1>2, <1>3, <1>4, <1>6
  <1>8. /\ Refunded(mid, r, 1) \in [Account -> Nat]
        /\ Refunded(mid, r, 1)[Escrow] = mid[Escrow] - RefundDue(r, 1)
        /\ \A d \in Drivers : Refunded(mid, r, 1)[d] =
              mid[d] + (IF entrant[r][1] = d THEN RefundDue(r, 1) ELSE 0)
    BY <1>1, <1>6, <1>7, RefundType
  <1> HIDE DEF mid
  <1> QED BY <1>1, <1>2, <1>3, <1>4, <1>6, <1>8

LEMMA CancelIInv ==
  ASSUME IInv, NEW sender \in Keys, NEW r \in RaceId, CancelRace(sender, r)
  PROVE  IInv'
  <1>1. TypeOK'
    BY CancelBalances DEF IInv, TypeOK, CancelRace, Cancelable, Status, roleVars, offChainVars
  <1>2. StakedBeforeRun'
    BY DEF IInv, TypeOK, StakedBeforeRun, CancelRace, Cancelable
  <1> QED BY <1>1, <1>2 DEF IInv

(* The steps that move no money and fill no slot.                          *)
LEMMA OffChainIInv ==
  ASSUME IInv, Tick \/ DriverStep
  PROVE  IInv'
  <1> SUFFICES TypeOK' /\ StakedBeforeRun'
    BY DEF IInv
  <1> USE DEF IInv, TypeOK, StakedBeforeRun, raceVars, roleVars, tokenVars, offChainVars
  <1>1. CASE Tick
    BY <1>1, AmountsAssumption DEF Tick
  <1>2. ASSUME NEW d \in Drivers, NEW amount \in Grants, Approve(d, amount) \/ SignPermit(d, amount)
        PROVE  TypeOK' /\ StakedBeforeRun'
    <2>1. amount \in Nat
      BY AmountsAssumption
    <2> QED BY <1>2, <2>1 DEF Approve, SignPermit
  <1>3. ASSUME NEW entry \in Entry, SignEntry(entry)
        PROVE  TypeOK' /\ StakedBeforeRun'
    BY <1>3 DEF SignEntry
  <1>4. ASSUME NEW r \in RaceId, NEW d \in Drivers, NEW s \in Slot, NEW stake \in Stakes,
               NEW fee \in Fees, NEW t \in 0..MaxTime
        PROVE  [race |-> r, driver |-> d, slot |-> s, stakeAmount |-> stake,
                feeAmount |-> fee, nonce |-> nonces[d], deadline |-> t] \in Entry
    BY DEF Entry
  <1> QED BY <1>1, <1>2, <1>3, <1>4 DEF DriverStep

LEMMA StatusIInv ==
  ASSUME IInv, NEW sender \in Keys, NEW r \in RaceId,
         \/ LockRace(sender, r)
         \/ StartRace(sender, r)
         \/ \E winner \in 0..2 : FinishRace(sender, r, winner)
  PROVE  IInv'
  <1> SUFFICES TypeOK' /\ StakedBeforeRun'
    BY DEF IInv
  <1> USE DEF IInv, TypeOK, StakedBeforeRun, Status, roleVars, tokenVars, offChainVars
  <1>1. CASE LockRace(sender, r)
    BY <1>1 DEF LockRace
  <1>2. CASE StartRace(sender, r)
    BY <1>2 DEF StartRace
  <1>3. CASE \E winner \in 0..2 : FinishRace(sender, r, winner)
    BY <1>3 DEF FinishRace, WinnerSlotValid, Slot
  <1> QED BY <1>1, <1>2, <1>3

LEMMA OpenIInv ==
  ASSUME IInv, NEW sender \in Keys, NEW stake \in Stakes \cup {0}, NEW fee \in Fees,
         OpenRace(sender, stake, fee)
  PROVE  IInv'
  <1>1. /\ stake \in Nat /\ fee \in Nat /\ stake > 0 /\ MaxRaces \in Nat
        /\ nextRaceId \in RaceId /\ nextRaceId + 1 \in 0..MaxRaces
    BY AmountsAssumption DEF OpenRace, IInv, TypeOK, RaceId
  <1>2. TypeOK'
    BY <1>1 DEF IInv, TypeOK, OpenRace, Status, roleVars, tokenVars, offChainVars
  <1>3. StakedBeforeRun'
    BY <1>1 DEF IInv, TypeOK, StakedBeforeRun, OpenRace, RaceId, Slot
  <1> QED BY <1>2, <1>3 DEF IInv

LEMMA RoleIInv ==
  ASSUME IInv, NEW sender \in Keys,
         \/ \E key \in Keys : SetFacilitator(sender, key)
         \/ \E account \in Treasuries : SetTreasury(sender, account)
  PROVE  IInv'
  BY DEF IInv, TypeOK, StakedBeforeRun, SetFacilitator, SetTreasury, raceVars, tokenVars, offChainVars

LEMMA JoinStepIInv ==
  ASSUME IInv, NEW sender \in Keys, NEW entry \in signed,
         JoinWithAuthorization(sender, entry) \/ JoinWithAuthorizationAndPermit(sender, entry)
  PROVE  IInv'
  <1>1. entry \in Entry
    BY DEF IInv, TypeOK
  <1>2. entry.driver \in Drivers /\ entry.stakeAmount \in Nat /\ entry.feeAmount \in Nat
    BY <1>1, AmountsAssumption DEF Entry
  <1>3. allowance[entry.driver] \in Nat /\ entry.stakeAmount + entry.feeAmount \in Nat
    BY <1>2 DEF IInv, TypeOK
  <1>4. permits' \in [Drivers -> SUBSET Nat]
    BY <1>2 DEF IInv, TypeOK, JoinWithAuthorization, JoinWithAuthorizationAndPermit
  <1> QED BY <1>3, <1>4, JoinIInv DEF JoinWithAuthorization, JoinWithAuthorizationAndPermit

LEMMA NextIInv == IInv /\ [Next]_vars => IInv'
  <1> SUFFICES ASSUME IInv, [Next]_vars PROVE IInv'
    OBVIOUS
  <1>1. CASE Tick \/ DriverStep
    BY <1>1, OffChainIInv
  <1>2. ASSUME NEW sender \in Keys, ContractCall(sender) PROVE IInv'
    <2>1. CASE \E stake \in Stakes \cup {0}, fee \in Fees : OpenRace(sender, stake, fee)
      BY <2>1, OpenIInv
    <2>2. CASE \E entry \in signed : \/ JoinWithAuthorization(sender, entry)
                                     \/ JoinWithAuthorizationAndPermit(sender, entry)
      BY <2>2, JoinStepIInv
    <2>3. CASE \E r \in RaceId : \/ LockRace(sender, r)
                                 \/ StartRace(sender, r)
                                 \/ \E winner \in 0..2 : FinishRace(sender, r, winner)
      BY <2>3, StatusIInv
    <2>4. CASE \E r \in RaceId : SettleRace(sender, r)
      BY <2>4, SettleIInv
    <2>5. CASE \E r \in RaceId : CancelRace(sender, r)
      BY <2>5, CancelIInv
    <2>6. CASE \/ \E key \in Keys : SetFacilitator(sender, key)
               \/ \E account \in Treasuries : SetTreasury(sender, account)
      BY <2>6, RoleIInv
    <2> QED BY <1>2, <2>1, <2>2, <2>3, <2>4, <2>5, <2>6 DEF ContractCall
  <1>3. CASE UNCHANGED vars
    BY <1>3 DEF vars, IInv, TypeOK, StakedBeforeRun
  <1> QED BY <1>1, <1>2, <1>3 DEF Next

(* Types are kept and races are staked before they run, together, in every *)
(* behaviour of the contract.                                              *)
THEOREM InvariantHolds == Spec => []IInv
  BY InitIInv, NextIInv, PTL DEF Spec

(* Every balance, counter and record keeps its type whatever the number of *)
(* drivers, races and amounts: in particular no account is ever overdrawn. *)
THEOREM TypeCorrect == Spec => []TypeOK
  <1>1. IInv => TypeOK
    BY DEF IInv
  <1> QED BY <1>1, InvariantHolds, PTL

(* No race is locked, run, finished or settled with a stake missing.       *)
THEOREM RacesAreStaked == Spec => []StakedBeforeRun
  <1>1. IInv => StakedBeforeRun
    BY DEF IInv
  <1> QED BY <1>1, InvariantHolds, PTL

-----------------------------------------------------------------------------
(* What each step owes and moves.                                          *)

(* A join adds one stake to its own race and to the escrow.                *)
LEMMA JoinMoves ==
  ASSUME IInv, NEW sender \in Keys, NEW entry \in signed, NEW granted \in Nat,
         JoinEntry(sender, entry, granted)
  PROVE  LET r == entry.race
             s == entry.slot
             d == entry.driver
         IN /\ r \in RaceId /\ s \in Slot /\ d \in Drivers
            /\ entry.stakeAmount \in Nat /\ entry.feeAmount \in Nat
            /\ entry.stakeAmount = stakeAmount[r] /\ stakeAmount[r] > 0
            /\ \A q \in RaceId, t \in Slot : Held(q, t)' =
                 IF q = r /\ t = s THEN entry.stakeAmount ELSE Held(q, t)
            /\ Held(r, s) = 0
            /\ balances'[Escrow] = balances[Escrow] + entry.stakeAmount
            /\ \A e \in Drivers : balances'[e] =
                 IF e = d THEN balances[e] - (entry.stakeAmount + entry.feeAmount) ELSE balances[e]
  <1> DEFINE r == entry.race
             s == entry.slot
             d == entry.driver
             mid == Transferred(balances, d, Escrow, entry.stakeAmount)
  <1>1. entry \in Entry
    BY DEF IInv, TypeOK
  <1>2. /\ r \in RaceId /\ s \in Slot /\ d \in Drivers
        /\ entry.stakeAmount \in Nat /\ entry.feeAmount \in Nat
    BY <1>1, AmountsAssumption DEF Entry
  <1>3. entry.stakeAmount = stakeAmount[r]
    BY DEF JoinEntry, FeesAdded, EntryAuthorized
  <1>4. stakeAmount[r] > 0
    BY <1>2 DEF IInv, StakedBeforeRun, JoinEntry, FeesAdded
  <1>5. \A q \in RaceId, t \in Slot : RefundDue(q, t)' =
          IF q = r /\ t = s THEN entry.stakeAmount ELSE RefundDue(q, t)
    BY <1>2, <1>3 DEF IInv, TypeOK, JoinEntry, FeesAdded, RefundDue
  <1>6. \A q \in RaceId : Closed(q)' = Closed(q)
    BY <1>2 DEF IInv, TypeOK, JoinEntry, FeesAdded, StatusAfterJoin, Closed
  <1>7. ~Closed(r) /\ RefundDue(r, s) = 0
    BY <1>2 DEF JoinEntry, FeesAdded, SlotOpenTo, Closed, RefundDue
  <1>8. /\ \A q \in RaceId, t \in Slot : Held(q, t)' =
             IF q = r /\ t = s THEN entry.stakeAmount ELSE Held(q, t)
        /\ Held(r, s) = 0
    BY <1>2, <1>5, <1>6, <1>7 DEF Held
  <1>9. /\ balances'[Escrow] = balances[Escrow] + entry.stakeAmount
        /\ \A e \in Drivers : balances'[e] =
             IF e = d THEN balances[e] - (entry.stakeAmount + entry.feeAmount) ELSE balances[e]
    <2>1. balances \in [Account -> Nat] /\ treasury \in Treasuries
      BY DEF IInv, TypeOK
    <2>2. /\ d \in Account /\ Escrow \in Account /\ treasury \in Account /\ Drivers \subseteq Account
          /\ d # Escrow /\ d # treasury /\ treasury # Escrow
          /\ Escrow \notin Drivers /\ treasury \notin Drivers
      BY <1>2, <2>1, AccountsAssumption DEF Account
    <2>3. balances[d] >= entry.stakeAmount + entry.feeAmount /\ balances[d] \in Nat
      BY <2>1, <2>2 DEF JoinEntry, FeesAdded
    <2>4. balances[d] >= entry.stakeAmount
      BY <1>2, <2>3
    <2>5. /\ mid \in [Account -> Nat]
          /\ \A a \in Account : mid[a] =
               IF a = d THEN balances[a] - entry.stakeAmount
               ELSE IF a = Escrow THEN balances[a] + entry.stakeAmount ELSE balances[a]
      BY <1>2, <2>1, <2>2, <2>4, TransferType, TransferValue
    <2>6. mid[d] >= entry.feeAmount
      BY <1>2, <2>2, <2>3, <2>5
    <2>7. balances' = Transferred(mid, d, treasury, entry.feeAmount)
      BY DEF JoinEntry, FeesAdded
    <2> HIDE DEF mid
    <2>8. \A a \in Account : balances'[a] =
            IF a = d THEN mid[a] - entry.feeAmount
            ELSE IF a = treasury THEN mid[a] + entry.feeAmount ELSE mid[a]
      BY <1>2, <2>2, <2>5, <2>6, <2>7, TransferValue
    <2>9. balances'[Escrow] = balances[Escrow] + entry.stakeAmount
      BY <2>2, <2>5, <2>8
    <2>10. ASSUME NEW e \in Drivers
           PROVE  balances'[e] = IF e = d THEN balances[e] - (entry.stakeAmount + entry.feeAmount)
                                 ELSE balances[e]
      <3>1. balances[e] \in Nat /\ e \in Account /\ e # Escrow /\ e # treasury
        BY <2>1, <2>2
      <3> QED BY <1>2, <2>2, <2>5, <2>8, <3>1
    <2> QED BY <2>9, <2>10
  <1> QED BY <1>2, <1>3, <1>4, <1>8, <1>9

(* A payout empties its own race of both stakes, all to the winner.        *)
LEMMA SettleMoves ==
  ASSUME IInv, NEW sender \in Keys, NEW r \in RaceId, SettleRace(sender, r)
  PROVE  /\ winnerSlot[r] \in Slot /\ entrant[r][winnerSlot[r]] \in Drivers
         /\ stakeAmount[r] \in Nat /\ stakeAmount[r] > 0
         /\ \A t \in Slot : Held(r, t) = stakeAmount[r]
         /\ \A q \in RaceId, t \in Slot : Held(q, t)' = IF q = r THEN 0 ELSE Held(q, t)
         /\ balances'[Escrow] = balances[Escrow] - 2 * stakeAmount[r]
         /\ \A e \in Drivers : balances'[e] =
              IF e = entrant[r][winnerSlot[r]] THEN balances[e] + 2 * stakeAmount[r] ELSE balances[e]
  <1> DEFINE w == entrant[r][winnerSlot[r]]
  <1>1. winnerSlot[r] \in Slot /\ stakeAmount[r] \in Nat /\ balances \in [Account -> Nat]
    BY DEF IInv, TypeOK
  <1>2. w \in Drivers /\ stakeAmount[r] > 0 /\ \A t \in Slot : joined[r][t]
    BY <1>1 DEF IInv, StakedBeforeRun, SettleRace, Payout
  <1>3. \A t \in Slot : Held(r, t) = stakeAmount[r]
    BY <1>2 DEF Held, RefundDue, Closed, SettleRace, Payout
  <1>4. \A q \in RaceId, t \in Slot : RefundDue(q, t)' = RefundDue(q, t)
    BY DEF RefundDue, SettleRace, Payout
  <1>5. Closed(r)' /\ \A q \in RaceId \ {r} : Closed(q)' = Closed(q)
    BY DEF IInv, TypeOK, Closed, SettleRace, Payout
  <1>6. \A q \in RaceId, t \in Slot : Held(q, t)' = IF q = r THEN 0 ELSE Held(q, t)
    BY <1>4, <1>5 DEF Held
  <1>7. /\ w \in Account /\ Escrow \in Account /\ w # Escrow /\ Drivers \subseteq Account
        /\ Escrow \notin Drivers
        /\ 2 * stakeAmount[r] \in Nat
        /\ balances[Escrow] >= 2 * stakeAmount[r]
        /\ balances' = Transferred(balances, Escrow, w, 2 * stakeAmount[r])
    BY <1>1, <1>2, AccountsAssumption DEF Account, SettleRace, Payout
  <1>8. \A a \in Account : balances'[a] =
          IF a = Escrow THEN balances[a] - 2 * stakeAmount[r]
          ELSE IF a = w THEN balances[a] + 2 * stakeAmount[r] ELSE balances[a]
    BY <1>1, <1>7, TransferValue
  <1> QED BY <1>1, <1>2, <1>3, <1>6, <1>7, <1>8

(* A cancellation empties its own race, each stake to its own driver.      *)
LEMMA CancelMoves ==
  ASSUME IInv, NEW sender \in Keys, NEW r \in RaceId, CancelRace(sender, r)
  PROVE  /\ \A t \in Slot : Held(r, t) = RefundDue(r, t) /\ Held(r, t) \in Nat
         /\ \A q \in RaceId, t \in Slot : Held(q, t)' = IF q = r THEN 0 ELSE Held(q, t)
         /\ balances'[Escrow] = balances[Escrow] - (Held(r, 0) + Held(r, 1))
         /\ \A d \in Drivers : balances'[d] =
              balances[d] + (IF entrant[r][0] = d THEN Held(r, 0) ELSE 0)
                          + (IF entrant[r][1] = d THEN Held(r, 1) ELSE 0)
  <1>1. \A q \in RaceId, t \in Slot : RefundDue(q, t)' = RefundDue(q, t)
    BY DEF RefundDue, CancelRace, Cancelable
  <1>2. Closed(r)' /\ ~Closed(r) /\ \A q \in RaceId \ {r} : Closed(q)' = Closed(q)
    BY DEF IInv, TypeOK, Closed, CancelRace, Cancelable
  <1>3. \A t \in Slot : Held(r, t) = RefundDue(r, t) /\ Held(r, t) \in Nat
    BY <1>2 DEF Held, RefundDue, IInv, TypeOK
  <1>4. \A q \in RaceId, t \in Slot : Held(q, t)' = IF q = r THEN 0 ELSE Held(q, t)
    BY <1>1, <1>2 DEF Held
  <1>5. Held(r, 0) = RefundDue(r, 0) /\ Held(r, 1) = RefundDue(r, 1)
    BY <1>3 DEF Slot
  <1> QED BY <1>3, <1>4, <1>5, CancelBalances

(* What a step does to the money and to the pool of every race when it is  *)
(* neither a join, nor a payout, nor a cancellation: nothing.              *)
Still ==
  /\ \A q \in RaceId, t \in Slot : Held(q, t)' = Held(q, t)
  /\ balances' = balances
  /\ entrant' = entrant
  /\ \A q \in RaceId : Outcome(q)' = Outcome(q)

LEMMA StillMoves ==
  ASSUME IInv, NEW sender \in Keys,
         \/ Tick \/ DriverStep
         \/ \E stake \in Stakes \cup {0}, fee \in Fees : OpenRace(sender, stake, fee)
         \/ \E r \in RaceId : LockRace(sender, r) \/ StartRace(sender, r)
         \/ \E r \in RaceId, winner \in 0..2 : FinishRace(sender, r, winner)
         \/ \E key \in Keys : SetFacilitator(sender, key)
         \/ \E account \in Treasuries : SetTreasury(sender, account)
         \/ UNCHANGED vars
  PROVE  Still
  <1> USE DEF Still, Held, RefundDue, Closed, Outcome, raceVars, roleVars, tokenVars, offChainVars
  <1>1. CASE Tick
    BY <1>1 DEF Tick
  <1>2. CASE DriverStep
    BY <1>2 DEF DriverStep, Approve, SignPermit, SignEntry
  <1>3. CASE \E stake \in Stakes \cup {0}, fee \in Fees : OpenRace(sender, stake, fee)
    <2>1. PICK stake \in Stakes \cup {0}, fee \in Fees : OpenRace(sender, stake, fee)
      BY <1>3
    <2>2. nextRaceId \in RaceId
      BY <2>1, AmountsAssumption DEF OpenRace, IInv, TypeOK, RaceId
    <2>3. status[nextRaceId] = "None" /\ \A t \in Slot : ~joined[nextRaceId][t]
      BY <2>2, AmountsAssumption DEF IInv, TypeOK, StakedBeforeRun, RaceId
    <2> QED BY <2>1, <2>2, <2>3 DEF OpenRace, IInv, TypeOK
  <1>4. ASSUME NEW r \in RaceId, LockRace(sender, r) \/ StartRace(sender, r)
        PROVE  Still
    BY <1>4 DEF LockRace, StartRace, IInv, TypeOK
  <1>5. ASSUME NEW r \in RaceId, NEW winner \in 0..2, FinishRace(sender, r, winner)
        PROVE  Still
    BY <1>5 DEF FinishRace, WinnerSlotValid, IInv, TypeOK
  <1>6. CASE \/ \E key \in Keys : SetFacilitator(sender, key)
             \/ \E account \in Treasuries : SetTreasury(sender, account)
    BY <1>6 DEF SetFacilitator, SetTreasury
  <1>7. CASE UNCHANGED vars
    BY <1>7 DEF vars
  <1> QED BY <1>1, <1>2, <1>3, <1>4, <1>5, <1>6, <1>7

(* A call either moves no money, or is a join, a payout or a refund.       *)
LEMMA StepCases ==
  ASSUME IInv, [Next]_vars
  PROVE  \/ Still
         \/ \E sender \in Keys, entry \in signed, granted \in Nat : JoinEntry(sender, entry, granted)
         \/ \E sender \in Keys, r \in RaceId : SettleRace(sender, r) \/ CancelRace(sender, r)
  <1>1. ASSUME NEW sender \in Keys, NEW entry \in signed,
               JoinWithAuthorization(sender, entry) \/ JoinWithAuthorizationAndPermit(sender, entry)
        PROVE  \E granted \in Nat : JoinEntry(sender, entry, granted)
    <2>1. entry \in Entry
      BY DEF IInv, TypeOK
    <2>2. entry.driver \in Drivers /\ entry.stakeAmount \in Nat /\ entry.feeAmount \in Nat
      BY <2>1, AmountsAssumption DEF Entry
    <2>3. allowance[entry.driver] \in Nat /\ entry.stakeAmount + entry.feeAmount \in Nat
      BY <2>2 DEF IInv, TypeOK
    <2> QED BY <1>1, <2>3 DEF JoinWithAuthorization, JoinWithAuthorizationAndPermit
  <1>2. CASE Tick \/ DriverStep \/ UNCHANGED vars
    BY <1>2, StillMoves, AccountsAssumption
  <1>3. ASSUME NEW sender \in Keys, ContractCall(sender)
        PROVE  \/ Still
               \/ \E entry \in signed, granted \in Nat : JoinEntry(sender, entry, granted)
               \/ \E r \in RaceId : SettleRace(sender, r) \/ CancelRace(sender, r)
    <2>1. CASE \/ \E stake \in Stakes \cup {0}, fee \in Fees : OpenRace(sender, stake, fee)
               \/ \E r \in RaceId : LockRace(sender, r) \/ StartRace(sender, r)
               \/ \E r \in RaceId, winner \in 0..2 : FinishRace(sender, r, winner)
               \/ \E key \in Keys : SetFacilitator(sender, key)
               \/ \E account \in Treasuries : SetTreasury(sender, account)
      BY <2>1, StillMoves
    <2>2. CASE \E entry \in signed : \/ JoinWithAuthorization(sender, entry)
                                     \/ JoinWithAuthorizationAndPermit(sender, entry)
      BY <2>2, <1>1
    <2> QED BY <1>3, <2>1, <2>2 DEF ContractCall
  <1> QED BY <1>2, <1>3 DEF Next

LEMMA HeldType ==
  ASSUME TypeOK
  PROVE  \A q \in RaceId, t \in Slot : Held(q, t) \in Nat
  BY DEF TypeOK, Held, RefundDue

LEMMA StepMovesByRace == IInv /\ IInv' /\ [Next]_vars => [LedgerStep]_vars
  <1> SUFFICES ASSUME IInv, IInv', [Next]_vars PROVE LedgerStep
    OBVIOUS
  <1> USE DEF Owed
  <1>1. /\ \A q \in RaceId, t \in Slot : Held(q, t) \in Nat /\ Held(q, t)' \in Nat
        /\ 0 \in Slot /\ 1 \in Slot
        /\ balances[Escrow] \in Nat /\ balances'[Escrow] \in Nat
    BY HeldType DEF IInv, TypeOK, Account, Slot, Held, RefundDue
  <1>2. CASE Still
    <2>1. 0 \in RaceId
      BY AmountsAssumption DEF RaceId
    <2> QED BY <1>1, <1>2, <2>1 DEF Still, LedgerStep
  <1>3. ASSUME NEW sender \in Keys, NEW entry \in signed, NEW granted \in Nat,
               JoinEntry(sender, entry, granted)
        PROVE  LedgerStep
    <2> DEFINE r == entry.race
    <2>1. /\ r \in RaceId /\ entry.slot \in Slot /\ entry.stakeAmount \in Nat
          /\ \A q \in RaceId, t \in Slot : Held(q, t)' =
               IF q = r /\ t = entry.slot THEN entry.stakeAmount ELSE Held(q, t)
          /\ Held(r, entry.slot) = 0
          /\ balances'[Escrow] = balances[Escrow] + entry.stakeAmount
      BY <1>3, JoinMoves
    <2>2. entry.slot = 0 \/ entry.slot = 1
      BY <2>1 DEF Slot
    <2>3. \A q \in RaceId \ {r} : Owed(q)' = Owed(q)
      BY <1>1, <2>1
    <2>4. Owed(r)' - Owed(r) = entry.stakeAmount
      BY <1>1, <2>1, <2>2
    <2> QED BY <1>1, <2>1, <2>3, <2>4 DEF LedgerStep
  <1>4. ASSUME NEW sender \in Keys, NEW r \in RaceId, SettleRace(sender, r)
        PROVE  LedgerStep
    <2>1. /\ stakeAmount[r] \in Nat
          /\ \A t \in Slot : Held(r, t) = stakeAmount[r]
          /\ \A q \in RaceId, t \in Slot : Held(q, t)' = IF q = r THEN 0 ELSE Held(q, t)
          /\ balances'[Escrow] = balances[Escrow] - 2 * stakeAmount[r]
      BY <1>4, SettleMoves
    <2>2. \A q \in RaceId \ {r} : Owed(q)' = Owed(q)
      BY <1>1, <2>1
    <2>3. Owed(r)' - Owed(r) = 0 - 2 * stakeAmount[r]
      BY <1>1, <2>1
    <2> QED BY <1>1, <2>1, <2>2, <2>3 DEF LedgerStep
  <1>5. ASSUME NEW sender \in Keys, NEW r \in RaceId, CancelRace(sender, r)
        PROVE  LedgerStep
    <2>1. /\ \A q \in RaceId, t \in Slot : Held(q, t)' = IF q = r THEN 0 ELSE Held(q, t)
          /\ balances'[Escrow] = balances[Escrow] - (Held(r, 0) + Held(r, 1))
      BY <1>5, CancelMoves
    <2> QED BY <1>1, <2>1 DEF LedgerStep
  <1> QED BY <1>2, <1>3, <1>4, <1>5, StepCases

(* Every step of the contract moves the escrow's balance by exactly what   *)
(* it changes in the debt to one race: stakes of different races never     *)
(* mix, whatever the number of races, drivers and amounts.                 *)
THEOREM LedgerByRace == Spec => MoneyMovesByRace
  BY InvariantHolds, StepMovesByRace, PTL DEF Spec, MoneyMovesByRace

-----------------------------------------------------------------------------
(* The sum of all debts.                                                   *)

OwedTo == [r \in RaceId |-> Owed(r)]

LEMMA RacesFinite == IsFiniteSet(RaceId)
  BY AmountsAssumption, FS_Interval DEF RaceId

(* The fold in Solvency is a sum over a function, which SumLemmas knows.   *)
LEMMA OwedIsSum == MapThenSumSet(Owed, RaceId) = SumOver(OwedTo, RaceId)
  <1> DEFINE P(f) == f = [s \in SUBSET RaceId |->
                            IF s = {} THEN 0 ELSE Owed(Pick(s)) + f[s \ {Pick(s)}]]
             own == CHOOSE f : P(f)
  <1>1. MapThenSumSet(Owed, RaceId) = own[RaceId]
    BY Zenon DEF MapThenSumSet, MapThenFoldSet, Pick
  <1>2. \A s \in SUBSET RaceId : s # {} => Owed(Pick(s)) = OwedTo[Pick(s)]
    BY PickIn DEF OwedTo
  <1>3. \A f : P(f) <=> IsFold(f, OwedTo, RaceId)
    <2> SUFFICES ASSUME NEW f
                 PROVE  [s \in SUBSET RaceId |-> IF s = {} THEN 0 ELSE Owed(Pick(s)) + f[s \ {Pick(s)}]]
                      = [s \in SUBSET RaceId |-> IF s = {} THEN 0 ELSE OwedTo[Pick(s)] + f[s \ {Pick(s)}]]
      BY DEF IsFold
    <2> HIDE DEF P, own
    <2> QED BY <1>2
  <1>4. \E f : P(f)
    BY <1>3, FoldExists, RacesFinite
  <1>5. P(own)
    BY <1>4, Zenon
  <1> HIDE DEF P, own
  <1>6. IsFold(own, OwedTo, RaceId)
    BY <1>3, <1>5
  <1> QED BY <1>1, <1>6, SumIsFold, RacesFinite

LEMMA SolvencyIsSum == Solvency <=> balances[Escrow] = SumOver(OwedTo, RaceId)
  BY OwedIsSum DEF Solvency

LEMMA OwedType == TypeOK => \A q \in RaceId : Owed(q) \in Nat /\ OwedTo[q] \in Nat
  BY HeldType DEF Owed, OwedTo, Slot

(* The debt of one race and the balance move together, so the balance      *)
(* stays the sum of all of them.                                           *)
LEMMA StepSolvent == IInv /\ IInv' /\ [Next]_vars /\ Solvency => Solvency'
  <1> SUFFICES ASSUME IInv, IInv', [Next]_vars, Solvency PROVE Solvency'
    OBVIOUS
  <1>1. PICK r \in RaceId : /\ \A q \in RaceId \ {r} : Owed(q)' = Owed(q)
                            /\ balances'[Escrow] - balances[Escrow] = Owed(r)' - Owed(r)
    <2>1. CASE UNCHANGED vars
      <3>1. 0 \in RaceId
        BY AmountsAssumption DEF RaceId
      <3>2. balances' = balances /\ \A q \in RaceId : Owed(q)' = Owed(q)
        BY <2>1 DEF vars, Owed, Held, RefundDue, Closed
      <3>3. \A q \in RaceId : Owed(q) \in Nat
        BY OwedType DEF IInv
      <3>4. balances[Escrow] \in Nat
        BY DEF IInv, TypeOK, Account
      <3> QED BY <3>1, <3>2, <3>3, <3>4
    <2> QED BY <2>1, StepMovesByRace DEF LedgerStep
  <1>2. \A q \in RaceId : OwedTo[q] \in Nat /\ OwedTo'[q] \in Nat
    BY DEF IInv, TypeOK, OwedTo, Owed, Held, RefundDue, Slot
  <1>3. \A q \in RaceId \ {r} : OwedTo'[q] = OwedTo[q]
    BY <1>1 DEF OwedTo
  <1>4. SumOver(OwedTo', RaceId) - SumOver(OwedTo, RaceId) = OwedTo'[r] - OwedTo[r]
    <2> DEFINE g == OwedTo
               k == OwedTo'
    <2>1. /\ \A q \in RaceId : g[q] \in Nat /\ k[q] \in Nat
          /\ \A q \in RaceId \ {r} : k[q] = g[q]
      BY <1>2, <1>3
    <2> HIDE DEF g, k
    <2>2. SumOver(k, RaceId) - SumOver(g, RaceId) = k[r] - g[r]
      BY <2>1, SumUpdate, RacesFinite
    <2> QED BY <2>2 DEF g, k
  <1>5. SumOver(OwedTo, RaceId) \in Nat /\ SumOver(OwedTo', RaceId) \in Nat
    BY <1>2, SumType, RacesFinite
  <1>6. OwedTo'[r] - OwedTo[r] = Owed(r)' - Owed(r)
    BY DEF OwedTo
  <1>7. balances[Escrow] = SumOver(OwedTo, RaceId)
    BY SolvencyIsSum
  <1>8. balances'[Escrow] = SumOver(OwedTo', RaceId)
    <2>1. balances[Escrow] \in Nat /\ balances'[Escrow] \in Nat
      BY DEF IInv, TypeOK, Account
    <2> HIDE DEF OwedTo
    <2> QED BY <1>1, <1>4, <1>5, <1>6, <1>7, <2>1
  <1>9. (Solvency <=> balances[Escrow] = SumOver(OwedTo, RaceId))'
    BY SolvencyIsSum, PTL
  <1> QED BY <1>8, <1>9

LEMMA InitSolvent == Init => Solvency
  <1> SUFFICES ASSUME Init PROVE Solvency
    OBVIOUS
  <1>1. \A r \in RaceId : OwedTo[r] = 0
    BY DEF OwedTo, Owed, Held, Closed, Init
  <1>2. balances[Escrow] = 0
    BY AccountsAssumption DEF Init, Account
  <1> QED BY <1>1, <1>2, SumZero, RacesFinite, SolvencyIsSum

(* The escrow owns exactly what it still owes to its unfinished races,     *)
(* for any number of races, drivers and amounts.                           *)
THEOREM AlwaysSolvent == Spec => []Solvency
  <1>1. Spec => [](IInv /\ Solvency)
    <2>1. Init => IInv /\ Solvency
      BY InitIInv, InitSolvent
    <2>2. IInv /\ Solvency /\ [Next]_vars => (IInv /\ Solvency)'
      BY NextIInv, StepSolvent
    <2> QED BY <2>1, <2>2, PTL DEF Spec
  <1> QED BY <1>1, PTL

-----------------------------------------------------------------------------
(* Results stand.                                                          *)

LEMMA StepKeepsResult ==
  ASSUME IInv, [Next]_vars, NEW r \in RaceId
  PROVE  /\ status[r] \in {"Locked", "Started", "Finished", "Settled", "Canceled"} =>
              entrant'[r] = entrant[r] /\ stakeAmount'[r] = stakeAmount[r]
         /\ status[r] \in {"Finished", "Settled"} =>
              status'[r] \in {"Finished", "Settled"} /\ winnerSlot'[r] = winnerSlot[r]
  <1> DEFINE Kept ==
        /\ status[r] \in {"Locked", "Started", "Finished", "Settled", "Canceled"} =>
             entrant'[r] = entrant[r] /\ stakeAmount'[r] = stakeAmount[r]
        /\ status[r] \in {"Finished", "Settled"} =>
             status'[r] \in {"Finished", "Settled"} /\ winnerSlot'[r] = winnerSlot[r]
  <1> SUFFICES Kept
    OBVIOUS
  <1> USE DEF IInv, TypeOK, raceVars
  <1>1. CASE Tick \/ DriverStep
    BY <1>1 DEF Tick, DriverStep, Approve, SignPermit, SignEntry
  <1>2. ASSUME NEW sender \in Keys, ContractCall(sender) PROVE Kept
    <2>1. ASSUME NEW stake \in Stakes \cup {0}, NEW fee \in Fees, OpenRace(sender, stake, fee)
          PROVE  Kept
      <3>1. nextRaceId \in RaceId /\ status[nextRaceId] = "None"
        BY <2>1, AmountsAssumption DEF OpenRace, RaceId, StakedBeforeRun
      <3> QED BY <2>1, <3>1 DEF OpenRace
    <2>2. ASSUME NEW entry \in signed, NEW granted, JoinEntry(sender, entry, granted)
          PROVE  Kept
      <3>1. entry.race \in RaceId /\ entry.slot \in Slot
        BY DEF Entry
      <3> QED BY <2>2, <3>1 DEF JoinEntry
    <2>3. ASSUME NEW q \in RaceId,
                 LockRace(sender, q) \/ StartRace(sender, q) \/ SettleRace(sender, q) \/ CancelRace(sender, q)
          PROVE  Kept
      BY <2>3 DEF LockRace, StartRace, SettleRace, CancelRace, Cancelable
    <2>4. ASSUME NEW q \in RaceId, NEW winner \in 0..2, FinishRace(sender, q, winner)
          PROVE  Kept
      BY <2>4 DEF FinishRace
    <2>5. ASSUME \/ \E key \in Keys : SetFacilitator(sender, key)
                 \/ \E account \in Treasuries : SetTreasury(sender, account)
          PROVE  Kept
      BY <2>5 DEF SetFacilitator, SetTreasury
    <2> QED BY <1>2, <2>1, <2>2, <2>3, <2>4, <2>5
            DEF ContractCall, JoinWithAuthorization, JoinWithAuthorizationAndPermit
  <1>3. CASE UNCHANGED vars
    BY <1>3 DEF vars
  <1> QED BY <1>1, <1>2, <1>3 DEF Next

(* Once a race is locked nobody enters, leaves or changes its stake, and   *)
(* once a result is recorded no call overwrites or cancels it.             *)
THEOREM ResultsFinal == Spec => ResultStands
  <1>1. IInv /\ [Next]_vars =>
          [\A r \in RaceId :
             /\ status[r] \in {"Locked", "Started", "Finished", "Settled", "Canceled"} =>
                  entrant'[r] = entrant[r] /\ stakeAmount'[r] = stakeAmount[r]
             /\ status[r] \in {"Finished", "Settled"} =>
                  status'[r] \in {"Finished", "Settled"} /\ winnerSlot'[r] = winnerSlot[r]]_vars
    BY StepKeepsResult
  <1> QED BY <1>1, InvariantHolds, PTL DEF Spec, ResultStands

-----------------------------------------------------------------------------
(* Entries and fees.                                                       *)

(* The contract's joins are the only steps that take a slot, use a nonce   *)
(* or pay a treasury; and the amounts of a race that was opened are fixed. *)
Quiet ==
  /\ entrant' = entrant /\ joined' = joined /\ nonces' = nonces
  /\ feesCollected' = feesCollected /\ totalFeesCollected' = totalFeesCollected
  /\ \A a \in Treasuries : balances'[a] = balances[a]

AmountsKept ==
  /\ signed \subseteq signed'
  /\ \A r \in RaceId : status[r] # "None" =>
       stakeAmount'[r] = stakeAmount[r] /\ feeAmount'[r] = feeAmount[r]

LEMMA RefundTreasury ==
  ASSUME IInv, NEW bal \in [Account -> Nat], NEW r \in RaceId, NEW s \in Slot,
         NEW a \in Treasuries
  PROVE  Refunded(bal, r, s)[a] = bal[a]
  <1>1. joined[r][s] => entrant[r][s] \in Drivers
    BY DEF IInv, StakedBeforeRun
  <1>2. /\ a \in Account /\ Escrow \in Account /\ Drivers \subseteq Account
        /\ a # Escrow /\ a \notin Drivers
    BY AccountsAssumption DEF Account
  <1> QED BY <1>1, <1>2 DEF Refunded, Transferred

LEMMA StepEntries ==
  ASSUME IInv, [Next]_vars
  PROVE  /\ AmountsKept
         /\ \/ Quiet
            \/ \E sender \in Keys, entry \in signed, granted \in Nat : JoinEntry(sender, entry, granted)
  <1> USE DEF IInv, TypeOK, raceVars, roleVars, tokenVars, offChainVars
  <1>1. CASE Tick \/ DriverStep
    BY <1>1 DEF Tick, DriverStep, Approve, SignPermit, SignEntry, Quiet, AmountsKept
  <1>2. ASSUME NEW sender \in Keys, ContractCall(sender)
        PROVE  /\ AmountsKept
               /\ Quiet \/ \E entry \in signed, granted \in Nat : JoinEntry(sender, entry, granted)
    <2>1. ASSUME NEW stake \in Stakes \cup {0}, NEW fee \in Fees, OpenRace(sender, stake, fee)
          PROVE  AmountsKept /\ Quiet
      <3>1. nextRaceId \in RaceId /\ status[nextRaceId] = "None"
        BY <2>1, AmountsAssumption DEF OpenRace, RaceId, StakedBeforeRun
      <3> QED BY <2>1, <3>1 DEF OpenRace, Quiet, AmountsKept
    <2>2. ASSUME NEW entry \in signed,
                 \/ JoinWithAuthorization(sender, entry)
                 \/ JoinWithAuthorizationAndPermit(sender, entry)
          PROVE  AmountsKept /\ \E granted \in Nat : JoinEntry(sender, entry, granted)
      <3>1. entry.driver \in Drivers /\ entry.stakeAmount \in Nat /\ entry.feeAmount \in Nat
        BY AmountsAssumption DEF Entry
      <3>2. allowance[entry.driver] \in Nat /\ entry.stakeAmount + entry.feeAmount \in Nat
        BY <3>1
      <3>3. PICK granted \in Nat : JoinEntry(sender, entry, granted)
        BY <2>2, <3>2 DEF JoinWithAuthorization, JoinWithAuthorizationAndPermit
      <3>4. AmountsKept
        BY <3>3 DEF JoinEntry, AmountsKept
      <3> QED BY <3>3, <3>4
    <2>3. ASSUME NEW r \in RaceId,
                 \/ LockRace(sender, r) \/ StartRace(sender, r)
                 \/ \E winner \in 0..2 : FinishRace(sender, r, winner)
          PROVE  AmountsKept /\ Quiet
      BY <2>3 DEF LockRace, StartRace, FinishRace, AmountsKept, Quiet
    <2>4. ASSUME NEW r \in RaceId, SettleRace(sender, r)
          PROVE  AmountsKept /\ Quiet
      <3>1. /\ AmountsKept
            /\ UNCHANGED <<entrant, joined, nonces, feesCollected, totalFeesCollected>>
        BY <2>4 DEF SettleRace, AmountsKept
      <3>2. entrant[r][winnerSlot[r]] \in Drivers
        BY <2>4, SettleMoves
      <3>3. \A a \in Treasuries : balances'[a] = balances[a]
        BY <2>4, <3>2, AccountsAssumption DEF SettleRace, Transferred, Account
      <3> QED BY <3>1, <3>3 DEF Quiet
    <2>5. ASSUME NEW r \in RaceId, CancelRace(sender, r)
          PROVE  AmountsKept /\ Quiet
      <3> DEFINE mid == Refunded(balances, r, 0)
      <3>1. /\ AmountsKept
            /\ UNCHANGED <<entrant, joined, nonces, feesCollected, totalFeesCollected>>
            /\ balances' = Refunded(mid, r, 1)
            /\ balances[Escrow] >= RefundDue(r, 0) + RefundDue(r, 1)
        BY <2>5 DEF CancelRace, AmountsKept
      <3>2. 0 \in Slot /\ 1 \in Slot /\ balances[Escrow] \in Nat
        BY DEF Slot, Account
      <3>3. RefundDue(r, 0) \in Nat /\ RefundDue(r, 1) \in Nat
        BY <3>2 DEF RefundDue
      <3>4. mid \in [Account -> Nat]
        <4>1. balances \in [Account -> Nat] /\ balances[Escrow] >= RefundDue(r, 0)
          BY <3>1, <3>2, <3>3
        <4> HIDE DEF IInv, TypeOK
        <4> QED BY <3>2, <4>1, RefundType
      <3> HIDE DEF mid
      <3>5. \A a \in Treasuries : balances'[a] = mid[a]
        BY <3>1, <3>2, <3>4, RefundTreasury
      <3>6. \A a \in Treasuries : mid[a] = balances[a]
        BY <3>2, RefundTreasury DEF mid
      <3> QED BY <3>1, <3>5, <3>6 DEF Quiet
    <2>6. ASSUME \/ \E key \in Keys : SetFacilitator(sender, key)
                 \/ \E account \in Treasuries : SetTreasury(sender, account)
          PROVE  AmountsKept /\ Quiet
      BY <2>6 DEF SetFacilitator, SetTreasury, AmountsKept, Quiet
    <2> QED BY <1>2, <2>1, <2>2, <2>3, <2>4, <2>5, <2>6 DEF ContractCall
  <1>3. CASE UNCHANGED vars
    BY <1>3 DEF vars, Quiet, AmountsKept
  <1> QED BY <1>1, <1>2, <1>3 DEF Next

(* How many slots of a race are taken. *)
LEMMA SlotCount ==
  ASSUME NEW j \in [Slot -> BOOLEAN]
  PROVE  /\ Cardinality({s \in Slot : j[s]})
              = (IF j[0] THEN 1 ELSE 0) + (IF j[1] THEN 1 ELSE 0)
         /\ Cardinality({s \in Slot : j[s]}) \in Nat
  <1>1. Cardinality({}) = 0 /\ IsFiniteSet({})
    BY FS_EmptySet
  <1>2. \A x : Cardinality({x}) = 1 /\ IsFiniteSet({x})
    BY FS_Singleton
  <1>3. Cardinality({0} \cup {1}) = 2
    <2>1. IsFiniteSet({0}) /\ Cardinality({0}) = 1
      BY <1>2, Zenon
    <2>2. 1 \notin {0}
      OBVIOUS
    <2>3. Cardinality({0} \cup {1}) = Cardinality({0}) + 1
      BY <2>1, <2>2, FS_AddElement
    <2> QED BY <2>1, <2>3
  <1>4. CASE j[0] /\ j[1]
    <2>1. {s \in Slot : j[s]} = {0} \cup {1}
      BY <1>4 DEF Slot
    <2> QED BY <1>3, <1>4, <2>1
  <1>5. CASE j[0] /\ ~j[1]
    <2>1. {s \in Slot : j[s]} = {0}
      BY <1>5 DEF Slot
    <2> QED BY <1>2, <1>5, <2>1
  <1>6. CASE ~j[0] /\ j[1]
    <2>1. {s \in Slot : j[s]} = {1}
      BY <1>6 DEF Slot
    <2> QED BY <1>2, <1>6, <2>1
  <1>7. CASE ~j[0] /\ ~j[1]
    <2>1. {s \in Slot : j[s]} = {}
      BY <1>7 DEF Slot
    <2> QED BY <1>1, <1>7, <2>1
  <1> QED BY <1>4, <1>5, <1>6, <1>7

Taken(r) == (IF joined[r][0] THEN 1 ELSE 0) + (IF joined[r][1] THEN 1 ELSE 0)

(* FeesAccounted with the count and the two folds in the form the lemmas   *)
(* speak about.                                                            *)
FeeSums ==
  /\ \A r \in RaceId : feesCollected[r] = feeAmount[r] * Taken(r)
  /\ totalFeesCollected = SumOver(feesCollected, RaceId)
  /\ totalFeesCollected = SumOver(balances, Treasuries)

LEMMA FeesAreSums == TypeOK => (FeesAccounted <=> FeeSums)
  <1> SUFFICES ASSUME TypeOK PROVE FeesAccounted <=> FeeSums
    OBVIOUS
  <1>1. \A r \in RaceId : Cardinality({s \in Slot : joined[r][s]}) = Taken(r)
    BY SlotCount DEF TypeOK, Taken
  <1>2. /\ MapThenSumSet(LAMBDA r : feesCollected[r], RaceId) = SumOver(feesCollected, RaceId)
        /\ MapThenSumSet(LAMBDA a : balances[a], Treasuries) = SumOver(balances, Treasuries)
    BY DEF SumOver
  <1> QED BY <1>1, <1>2 DEF FeesAccounted, FeeSums

LEMMA InitFees == Init => FeeSums
  <1> SUFFICES ASSUME Init PROVE FeeSums
    OBVIOUS
  <1>1. /\ \A r \in RaceId : feesCollected[r] = 0 /\ feeAmount[r] = 0 /\ Taken(r) = 0
        /\ totalFeesCollected = 0
    BY DEF Init, Taken, Slot
  <1>2. \A a \in Treasuries : balances[a] = 0
    BY AccountsAssumption DEF Init, Account
  <1>3. SumOver(feesCollected, RaceId) = 0
    BY <1>1, SumZero, RacesFinite
  <1>4. SumOver(balances, Treasuries) = 0
    BY <1>2, SumZero, AccountsAssumption
  <1> QED BY <1>1, <1>3, <1>4 DEF FeeSums

(* A join collects the race's fee once, for the treasury of the moment.    *)
LEMMA JoinFees ==
  ASSUME IInv, FeeSums, NEW sender \in Keys, NEW entry \in signed, NEW granted \in Nat,
         JoinEntry(sender, entry, granted)
  PROVE  FeeSums'
  <1> DEFINE r == entry.race
             s == entry.slot
             d == entry.driver
             fee == entry.feeAmount
             mid == Transferred(balances, d, Escrow, entry.stakeAmount)
  <1>1. /\ r \in RaceId /\ s \in Slot /\ d \in Drivers
        /\ fee \in Nat /\ entry.stakeAmount \in Nat
        /\ fee = feeAmount[r] /\ ~joined[r][s]
    BY AmountsAssumption DEF IInv, TypeOK, Entry, JoinEntry, EntryAuthorized, SlotOpenTo
  <1>2. /\ joined' = [joined EXCEPT ![r][s] = TRUE]
        /\ feesCollected' = [feesCollected EXCEPT ![r] = @ + fee]
        /\ totalFeesCollected' = totalFeesCollected + fee
        /\ feeAmount' = feeAmount
        /\ balances' = Transferred(mid, d, treasury, fee)
    BY DEF JoinEntry, FeesAdded
  <1>3. /\ feesCollected \in [RaceId -> Nat] /\ feeAmount \in [RaceId -> Nat]
        /\ joined \in [RaceId -> [Slot -> BOOLEAN]]
        /\ balances \in [Account -> Nat] /\ treasury \in Treasuries
        /\ totalFeesCollected \in Nat
    BY DEF IInv, TypeOK
  <1>4. \A q \in RaceId : feesCollected'[q] = feeAmount'[q] * Taken(q)'
    <2>1. \A q \in RaceId \ {r} : Taken(q)' = Taken(q) /\ feesCollected'[q] = feesCollected[q]
      BY <1>1, <1>2, <1>3 DEF Taken
    <2>2. /\ Taken(r)' = Taken(r) + 1
          /\ Taken(r) \in Nat
      BY <1>1, <1>2, <1>3 DEF Taken, Slot
    <2>3. feesCollected'[r] = feesCollected[r] + feeAmount[r]
      BY <1>1, <1>2, <1>3
    <2>4. feeAmount[r] * (Taken(r) + 1) = feeAmount[r] * Taken(r) + feeAmount[r]
      BY <1>1, <2>2
    <2>5. feesCollected[r] = feeAmount[r] * Taken(r)
      BY <1>1 DEF FeeSums
    <2>6. feesCollected'[r] = feeAmount'[r] * Taken(r)'
      BY <1>2, <2>2, <2>3, <2>4, <2>5
    <2> QED BY <1>2, <2>1, <2>6 DEF FeeSums
  <1>5. totalFeesCollected' = SumOver(feesCollected', RaceId)
    <2> DEFINE g == feesCollected
               k == feesCollected'
    <2>1. /\ \A q \in RaceId : g[q] \in Nat /\ k[q] \in Nat
          /\ \A q \in RaceId \ {r} : k[q] = g[q]
          /\ k[r] = g[r] + fee
      BY <1>1, <1>2, <1>3
    <2>2. totalFeesCollected = SumOver(g, RaceId)
      BY DEF FeeSums
    <2> HIDE DEF g, k
    <2>3. SumOver(k, RaceId) - SumOver(g, RaceId) = k[r] - g[r]
      <3>1. r \in RaceId /\ IsFiniteSet(RaceId)
        BY <1>1, RacesFinite
      <3>2. \A q \in RaceId : g[q] \in Nat /\ k[q] \in Nat
        BY <2>1
      <3>3. \A q \in RaceId \ {r} : k[q] = g[q]
        BY <2>1
      <3> HIDE DEF r
      <3> QED BY <3>1, <3>2, <3>3, SumUpdate
    <2>4. SumOver(k, RaceId) \in Nat /\ SumOver(g, RaceId) \in Nat
      BY <2>1, SumType, RacesFinite
    <2>5. totalFeesCollected + fee = SumOver(k, RaceId)
      BY <1>1, <2>1, <2>2, <2>3, <2>4
    <2> QED BY <1>2, <2>5 DEF k
  <1>6. totalFeesCollected' = SumOver(balances', Treasuries)
    <2> DEFINE g == balances
               k == balances'
    <2>1. /\ Escrow \in Account /\ d \in Account /\ treasury \in Account /\ Treasuries \subseteq Account
          /\ Escrow \notin Treasuries /\ d \notin Treasuries
      BY <1>1, <1>3, AccountsAssumption DEF Account
    <2>2. /\ mid \in [Account -> Int]
          /\ \A a \in Treasuries : mid[a] = balances[a]
      BY <1>1, <1>3, <2>1 DEF Transferred
    <2> HIDE DEF mid
    <2>3. /\ \A a \in Treasuries : g[a] \in Nat /\ k[a] \in Nat
          /\ \A a \in Treasuries \ {treasury} : k[a] = g[a]
          /\ k[treasury] = g[treasury] + fee
      BY <1>1, <1>2, <1>3, <2>1, <2>2 DEF Transferred
    <2>4. totalFeesCollected = SumOver(g, Treasuries)
      BY DEF FeeSums
    <2> HIDE DEF g, k
    <2>5. SumOver(k, Treasuries) - SumOver(g, Treasuries) = k[treasury] - g[treasury]
      <3>1. IsFiniteSet(Treasuries) /\ treasury \in Treasuries
        BY <1>3, AccountsAssumption
      <3> QED BY <2>3, <3>1, SumUpdate
    <2>6. SumOver(k, Treasuries) \in Nat /\ SumOver(g, Treasuries) \in Nat
      BY <2>3, SumType, AccountsAssumption
    <2>7. g[treasury] \in Nat
      BY <1>3, <2>3
    <2>8. totalFeesCollected + fee = SumOver(k, Treasuries)
      BY <1>1, <2>3, <2>4, <2>5, <2>6, <2>7
    <2> QED BY <1>2, <2>8 DEF k
  <1> QED BY <1>4, <1>5, <1>6 DEF FeeSums

LEMMA StepFees == IInv /\ [Next]_vars /\ FeeSums => FeeSums'
  <1> SUFFICES ASSUME IInv, [Next]_vars, FeeSums PROVE FeeSums'
    OBVIOUS
  <1>1. CASE Quiet
    <2>1. \A r \in RaceId : feesCollected'[r] = feeAmount'[r] * Taken(r)'
      <3> SUFFICES ASSUME NEW r \in RaceId
                   PROVE  feesCollected[r] = feeAmount'[r] * Taken(r)
        BY <1>1 DEF Quiet, Taken
      <3>1. CASE status[r] # "None"
        BY <3>1, StepEntries DEF AmountsKept, FeeSums
      <3>2. CASE status[r] = "None"
        <4>1. Taken(r) = 0
          BY <3>2 DEF IInv, StakedBeforeRun, Taken, Slot
        <4>2. feeAmount[r] \in Nat /\ feeAmount'[r] \in Nat
          BY NextIInv DEF IInv, TypeOK
        <4> QED BY <4>1, <4>2 DEF FeeSums
      <3> QED BY <3>1, <3>2
    <2>2. SumOver(balances', Treasuries) = SumOver(balances, Treasuries)
      BY <1>1, SumEqual, AccountsAssumption DEF Quiet
    <2> QED BY <1>1, <2>1, <2>2 DEF Quiet, FeeSums
  <1>2. ASSUME NEW sender \in Keys, NEW entry \in signed, NEW granted \in Nat,
               JoinEntry(sender, entry, granted)
        PROVE  FeeSums'
    BY <1>2, JoinFees
  <1> QED BY <1>1, <1>2, StepEntries

(* The fees a race collected, the contract's total and the treasuries'     *)
(* money agree for any number of races, treasuries and treasury changes.   *)
THEOREM FeesAgree == Spec => []FeesAccounted
  <1>1. Spec => [](IInv /\ FeeSums)
    <2>1. Init => IInv /\ FeeSums
      BY InitIInv, InitFees
    <2>2. IInv /\ FeeSums /\ [Next]_vars => (IInv /\ FeeSums)'
      BY NextIInv, StepFees
    <2> QED BY <2>1, <2>2, PTL DEF Spec
  <1>2. IInv /\ FeeSums => FeesAccounted
    BY FeesAreSums DEF IInv
  <1> QED BY <1>1, <1>2, PTL

-----------------------------------------------------------------------------
(* Consent.                                                                *)

Entries(d) == {e \in RaceId \X Slot : joined[e[1]][e[2]] /\ entrant[e[1]][e[2]] = d}

(* The authorization a of driver d that stands behind the entry e. *)
Behind(a, e, d) ==
  /\ a.driver = d /\ <<a.race, a.slot>> = e
  /\ a.stakeAmount = stakeAmount[a.race] /\ a.feeAmount = feeAmount[a.race]
  /\ a.nonce < nonces[d]

Consent(d) ==
  /\ Cardinality(Entries(d)) = nonces[d]
  /\ \A e \in Entries(d) : \E a \in signed : Behind(a, e, d)
  /\ \A n \in 0..(nonces[d] - 1) : \E a \in signed :
       a.driver = d /\ a.nonce = n /\ <<a.race, a.slot>> \in Entries(d)

LEMMA ConsentByDriver == EntriesConsented <=> \A d \in Drivers : Consent(d)
  BY DEF EntriesConsented, Consent, Entries, Behind

LEMMA EntriesFinite ==
  ASSUME NEW d \in Drivers
  PROVE  IsFiniteSet(Entries(d))
  <1>1. IsFiniteSet(Slot)
    <2>1. 0 \in Int /\ 1 \in Int
      OBVIOUS
    <2>2. IsFiniteSet(0..1)
      BY <2>1, FS_Interval, Zenon
    <2> QED BY <2>2 DEF Slot
  <1>2. IsFiniteSet(RaceId \X Slot)
    BY <1>1, RacesFinite, FS_Product
  <1>3. Entries(d) \in SUBSET (RaceId \X Slot)
    BY DEF Entries
  <1> QED BY <1>2, <1>3, FS_Subset

(* An entry's race has been opened, so its amounts do not change again.    *)
LEMMA BehindKept ==
  ASSUME IInv, AmountsKept, NEW d \in Drivers, NEW e \in Entries(d), NEW a \in signed,
         Behind(a, e, d), nonces[d] \in Nat, nonces'[d] \in Nat, nonces'[d] >= nonces[d]
  PROVE  Behind(a, e, d)'
  <1>1. a.race \in RaceId /\ a.slot \in Slot /\ a.nonce \in Nat
    BY DEF IInv, TypeOK, Entry
  <1>2. joined[a.race][a.slot]
    BY <1>1 DEF Behind, Entries
  <1>3. status[a.race] # "None"
    BY <1>1, <1>2 DEF IInv, StakedBeforeRun
  <1>4. stakeAmount'[a.race] = stakeAmount[a.race] /\ feeAmount'[a.race] = feeAmount[a.race]
    BY <1>1, <1>3 DEF AmountsKept
  <1>5. a.nonce < nonces'[d]
    BY <1>1 DEF Behind
  <1> QED BY <1>4, <1>5 DEF Behind

(* A driver whose slots and nonce a step leaves alone stays as consenting  *)
(* as before.                                                              *)
LEMMA ConsentKept ==
  ASSUME IInv, AmountsKept, NEW d \in Drivers, Consent(d),
         Entries(d)' = Entries(d), nonces'[d] = nonces[d]
  PROVE  Consent(d)'
  <1>1. nonces[d] \in Nat
    BY DEF IInv, TypeOK
  <1>2. Cardinality(Entries(d))' = nonces'[d]
    BY DEF Consent
  <1>3. ASSUME NEW e \in Entries(d) PROVE \E a \in signed' : Behind(a, e, d)'
    <2>1. PICK a \in signed : Behind(a, e, d)
      BY DEF Consent
    <2>2. Behind(a, e, d)'
      BY <1>1, <2>1, BehindKept
    <2> QED BY <2>2 DEF AmountsKept
  <1>4. ASSUME NEW n \in 0..(nonces[d] - 1)
        PROVE  \E a \in signed' : a.driver = d /\ a.nonce = n /\ <<a.race, a.slot>> \in Entries(d)
    BY DEF Consent, AmountsKept
  <1> QED BY <1>2, <1>3, <1>4 DEF Consent

(* A join uses one signature, over the nonce it uses up.                   *)
LEMMA JoinConsent ==
  ASSUME IInv, IInv', AmountsKept, NEW sender \in Keys, NEW entry \in signed, NEW granted \in Nat,
         JoinEntry(sender, entry, granted), NEW d \in Drivers, Consent(d)
  PROVE  Consent(d)'
  <1> DEFINE r == entry.race
             s == entry.slot
             new == <<r, s>>
  <1>1. /\ r \in RaceId /\ s \in Slot /\ entry.driver \in Drivers /\ entry.nonce \in Nat
        /\ ~joined[r][s]
        /\ entry.stakeAmount = stakeAmount[r] /\ entry.feeAmount = feeAmount[r]
        /\ entry.nonce = nonces[entry.driver]
        /\ stakeAmount' = stakeAmount /\ feeAmount' = feeAmount /\ signed' = signed
    BY DEF IInv, TypeOK, Entry, JoinEntry, EntryAuthorized, SlotOpenTo, offChainVars
  <1>2. /\ joined' = [joined EXCEPT ![r][s] = TRUE]
        /\ entrant' = [entrant EXCEPT ![r][s] = entry.driver]
        /\ nonces' = [nonces EXCEPT ![entry.driver] = @ + 1]
    BY DEF JoinEntry, NonceUsed
  <1>3. /\ joined \in [RaceId -> [Slot -> BOOLEAN]]
        /\ entrant \in [RaceId -> [Slot -> Drivers \cup {NoDriver}]]
        /\ nonces \in [Drivers -> Nat]
    BY DEF IInv, TypeOK
  <1>4. CASE d # entry.driver
    <2>1. Entries(d)' = Entries(d)
      BY <1>1, <1>2, <1>3, <1>4 DEF Entries
    <2>2. nonces'[d] = nonces[d]
      BY <1>2, <1>3, <1>4
    <2> QED BY <2>1, <2>2, ConsentKept
  <1>5. CASE d = entry.driver
    <2>1. Entries(d)' = Entries(d) \cup {new} /\ new \notin Entries(d)
      BY <1>1, <1>2, <1>3, <1>5 DEF Entries
    <2>2. nonces'[d] = nonces[d] + 1 /\ nonces[d] \in Nat
      BY <1>2, <1>3, <1>5
    <2>3. Cardinality(Entries(d))' = nonces'[d]
      <3>1. Cardinality(Entries(d)) = nonces[d] /\ IsFiniteSet(Entries(d))
        BY EntriesFinite DEF Consent
      <3>2. Cardinality(Entries(d) \cup {new}) = Cardinality(Entries(d)) + 1
        BY <2>1, <3>1, FS_AddElement
      <3> QED BY <2>1, <2>2, <3>1, <3>2
    <2>4. Behind(entry, new, d)'
      BY <1>1, <1>5, <2>2 DEF Behind
    <2>5. ASSUME NEW e \in Entries(d) PROVE \E a \in signed' : Behind(a, e, d)'
      <3>1. PICK a \in signed : Behind(a, e, d)
        BY DEF Consent
      <3>2. Behind(a, e, d)'
        BY <2>2, <3>1, BehindKept
      <3> QED BY <1>1, <3>2
    <2>6. \A e \in Entries(d)' : \E a \in signed' : Behind(a, e, d)'
      BY <1>1, <2>1, <2>4, <2>5
    <2>7. ASSUME NEW n \in 0..(nonces'[d] - 1)
          PROVE  \E a \in signed' : a.driver = d /\ a.nonce = n /\ <<a.race, a.slot>> \in Entries(d)'
      <3>1. CASE n = nonces[d]
        BY <1>1, <1>5, <2>1, <3>1
      <3>2. CASE n # nonces[d]
        <4>1. n \in 0..(nonces[d] - 1)
          BY <2>2, <3>2
        <4> QED BY <1>1, <2>1, <4>1 DEF Consent
      <3> QED BY <3>1, <3>2
    <2> QED BY <2>3, <2>6, <2>7 DEF Consent
  <1> QED BY <1>4, <1>5

LEMMA StepConsent ==
  IInv /\ [Next]_vars /\ (\A d \in Drivers : Consent(d)) => (\A d \in Drivers : Consent(d))'
  <1> SUFFICES ASSUME IInv, [Next]_vars, NEW d \in Drivers, \A e \in Drivers : Consent(e)
               PROVE  Consent(d)'
    OBVIOUS
  <1>1. CASE Quiet
    BY <1>1, StepEntries, ConsentKept DEF Quiet, Entries
  <1>2. ASSUME NEW sender \in Keys, NEW entry \in signed, NEW granted \in Nat,
               JoinEntry(sender, entry, granted)
        PROVE  Consent(d)'
    BY <1>2, StepEntries, NextIInv, JoinConsent
  <1> QED BY <1>1, <1>2, StepEntries

LEMMA InitConsent == Init => \A d \in Drivers : Consent(d)
  <1> SUFFICES ASSUME Init, NEW d \in Drivers PROVE Consent(d)
    OBVIOUS
  <1>1. Entries(d) = {} /\ nonces[d] = 0
    BY DEF Entries, Init
  <1> QED BY <1>1, FS_EmptySet DEF Consent

(* However many authorizations a driver signs, and in whatever order they  *)
(* are submitted, each nonce pays for exactly one entry, at the amounts    *)
(* signed for it: none is used twice.                                      *)
THEOREM EntriesAgreed == Spec => []EntriesConsented
  <1>1. Spec => [](IInv /\ \A d \in Drivers : Consent(d))
    <2>1. Init => IInv /\ \A d \in Drivers : Consent(d)
      BY InitIInv, InitConsent
    <2>2. IInv /\ (\A d \in Drivers : Consent(d)) /\ [Next]_vars
            => (IInv /\ \A d \in Drivers : Consent(d))'
      BY NextIInv, StepConsent
    <2> QED BY <2>1, <2>2, PTL DEF Spec
  <1>2. IInv /\ (\A d \in Drivers : Consent(d)) => EntriesConsented
    BY ConsentByDriver
  <1> QED BY <1>1, <1>2, PTL

-----------------------------------------------------------------------------
(* The contract implements StakePool.                                      *)

MappedPool == [r \in RaceId |-> [s \in Slot |-> Held(r, s)]]
MappedOutcome == [r \in RaceId |-> Outcome(r)]
MappedPurse == [d \in Drivers |-> balances[d]]

LEMMA InitMaps == Init => Pool!Init
  <1> SUFFICES ASSUME Init PROVE Pool!Init
    OBVIOUS
  <1>1. MappedPool = [r \in RaceId |-> [s \in Pool!Slot |-> 0]]
    BY DEF MappedPool, Held, Closed, Init, Slot, Pool!Slot
  <1>2. MappedOutcome = [r \in RaceId |-> "open"]
    BY DEF MappedOutcome, Outcome, Init
  <1>3. MappedPurse \in [Drivers -> Nat] /\ balances[Escrow] = 0
    BY AccountsAssumption, AmountsAssumption DEF MappedPurse, Init, Account
  <1>4. entrant = [r \in RaceId |-> [s \in Pool!Slot |-> NoDriver]]
    BY DEF Init, Slot, Pool!Slot
  <1> QED BY <1>1, <1>2, <1>3, <1>4 DEF Pool!Init, MappedPool, MappedOutcome, MappedPurse

LEMMA StillMaps == IInv /\ Still => UNCHANGED Pool!poolVars
  <1> SUFFICES ASSUME IInv, Still PROVE UNCHANGED Pool!poolVars
    OBVIOUS
  <1>1. MappedPool' = MappedPool
    BY DEF MappedPool, Still
  <1>2. MappedOutcome' = MappedOutcome
    BY DEF MappedOutcome, Still
  <1>3. MappedPurse' = MappedPurse /\ balances'[Escrow] = balances[Escrow] /\ entrant' = entrant
    BY DEF MappedPurse, Still
  <1> QED BY <1>1, <1>2, <1>3 DEF Pool!poolVars, MappedPool, MappedOutcome, MappedPurse

LEMMA JoinMaps ==
  ASSUME IInv, NEW sender \in Keys, NEW entry \in signed, NEW granted \in Nat,
         JoinEntry(sender, entry, granted)
  PROVE  Pool!Enter(entry.race, entry.slot, entry.driver, entry.stakeAmount, entry.feeAmount)
  <1> DEFINE r == entry.race
             s == entry.slot
             d == entry.driver
             cost == entry.stakeAmount + entry.feeAmount
  <1>1. /\ r \in RaceId /\ s \in Slot /\ d \in Drivers
        /\ entry.stakeAmount \in Nat /\ entry.feeAmount \in Nat
        /\ entry.stakeAmount = stakeAmount[r] /\ stakeAmount[r] > 0
        /\ \A q \in RaceId, t \in Slot : Held(q, t)' =
             IF q = r /\ t = s THEN entry.stakeAmount ELSE Held(q, t)
        /\ balances'[Escrow] = balances[Escrow] + entry.stakeAmount
        /\ \A e \in Drivers : balances'[e] = IF e = d THEN balances[e] - cost ELSE balances[e]
    BY JoinMoves
  <1>2. Outcome(r) = "open" /\ \A q \in RaceId : Outcome(q)' = Outcome(q)
    BY <1>1 DEF Outcome, JoinEntry, FeesAdded, StatusAfterJoin, IInv, TypeOK
  <1>3. entrant[r][s] = NoDriver
    BY <1>1, AccountsAssumption DEF JoinEntry, FeesAdded, SlotOpenTo, IInv, TypeOK, StakedBeforeRun
  <1>4. 1 - s \in Slot
    BY <1>1 DEF Slot
  <1>5. MappedPool[r][1 - s] \in {0, entry.stakeAmount}
    BY <1>1, <1>4 DEF MappedPool, Held, RefundDue
  <1>6. cost <= MappedPurse[d]
    <2>1. cost <= balances[d]
      BY DEF JoinEntry
    <2>2. MappedPurse[d] = balances[d]
      BY <1>1 DEF MappedPurse
    <2> QED BY <2>1, <2>2
  <1>7. MappedPool' = [MappedPool EXCEPT ![r][s] = entry.stakeAmount]
    <2> DEFINE amount == entry.stakeAmount
    <2>1. /\ \A q \in RaceId, t \in Slot : Held(q, t)' = IF q = r /\ t = s THEN amount ELSE Held(q, t)
          /\ r \in RaceId /\ s \in Slot
      BY <1>1
    <2> HIDE DEF amount, r, s
    <2>2. MappedPool' = [MappedPool EXCEPT ![r][s] = amount]
      BY <2>1 DEF MappedPool
    <2> QED BY <2>2 DEF amount
  <1>8. MappedPurse' = [MappedPurse EXCEPT ![d] = @ - cost]
    BY <1>1 DEF MappedPurse
  <1>9. MappedOutcome' = MappedOutcome /\ MappedOutcome[r] = "open"
    BY <1>1, <1>2 DEF MappedOutcome
  <1>10. entrant' = [entrant EXCEPT ![r][s] = d]
    BY DEF JoinEntry, FeesAdded
  <1> QED BY <1>1, <1>3, <1>5, <1>6, <1>7, <1>8, <1>9, <1>10
          DEF Pool!Enter, MappedPool, MappedOutcome, MappedPurse

LEMMA SettleMaps ==
  ASSUME IInv, NEW sender \in Keys, NEW r \in RaceId, SettleRace(sender, r),
         NEW w \in Slot, winnerSlot[r] = w
  PROVE  Pool!PayWinner(r, w)
  <1> DEFINE won == 2 * stakeAmount[r]
  <1>1. /\ entrant[r][w] \in Drivers
        /\ stakeAmount[r] \in Nat /\ stakeAmount[r] > 0
        /\ \A t \in Slot : Held(r, t) = stakeAmount[r]
        /\ \A q \in RaceId, t \in Slot : Held(q, t)' = IF q = r THEN 0 ELSE Held(q, t)
        /\ balances'[Escrow] = balances[Escrow] - won
        /\ \A e \in Drivers : balances'[e] =
             IF e = entrant[r][w] THEN balances[e] + won ELSE balances[e]
    BY SettleMoves
  <1>2. 0 \in Slot /\ 1 \in Slot
    BY DEF Slot
  <1>3. /\ \A t \in Slot : MappedPool[r][t] = stakeAmount[r]
        /\ MappedPool[r][0] + MappedPool[r][1] = won
    BY <1>1, <1>2 DEF MappedPool
  <1>4. MappedOutcome[r] = "open" /\ MappedOutcome' = [MappedOutcome EXCEPT ![r] = "paid"]
    BY DEF MappedOutcome, Outcome, SettleRace, Payout, IInv, TypeOK
  <1>5. MappedPurse' = [MappedPurse EXCEPT ![entrant[r][w]] = @ + MappedPool[r][0] + MappedPool[r][1]]
    <2>1. MappedPurse' = [MappedPurse EXCEPT ![entrant[r][w]] = @ + won]
      BY <1>1 DEF MappedPurse
    <2>2. MappedPurse[entrant[r][w]] \in Nat
      BY <1>1 DEF MappedPurse, IInv, TypeOK, Account
    <2>3. MappedPurse[entrant[r][w]] + won
            = MappedPurse[entrant[r][w]] + MappedPool[r][0] + MappedPool[r][1]
      BY <1>1, <1>2, <1>3, <2>2
    <2> QED BY <2>1, <2>3
  <1>6. MappedPool' = [MappedPool EXCEPT ![r] = [t \in Slot |-> 0]]
    BY <1>1 DEF MappedPool
  <1>7. entrant' = entrant
    BY DEF SettleRace, Payout
  <1> QED BY <1>1, <1>2, <1>3, <1>4, <1>5, <1>6, <1>7
          DEF Pool!PayWinner, Pool!Emptied, Pool!Slot, Slot, MappedPool, MappedOutcome, MappedPurse

LEMMA CancelMaps ==
  ASSUME IInv, NEW sender \in Keys, NEW r \in RaceId, CancelRace(sender, r)
  PROVE  Pool!Refund(r)
  <1>1. /\ \A q \in RaceId, t \in Slot : Held(q, t)' = IF q = r THEN 0 ELSE Held(q, t)
        /\ balances'[Escrow] = balances[Escrow] - (Held(r, 0) + Held(r, 1))
        /\ \A d \in Drivers : balances'[d] =
             balances[d] + (IF entrant[r][0] = d THEN Held(r, 0) ELSE 0)
                         + (IF entrant[r][1] = d THEN Held(r, 1) ELSE 0)
    BY CancelMoves
  <1>2. MappedPool[r][0] = Held(r, 0) /\ MappedPool[r][1] = Held(r, 1)
    BY DEF MappedPool, Slot
  <1>3. MappedOutcome[r] = "open" /\ MappedOutcome' = [MappedOutcome EXCEPT ![r] = "refunded"]
    BY DEF MappedOutcome, Outcome, CancelRace, Cancelable, IInv, TypeOK
  <1>4. MappedPurse' = [d \in Drivers |->
          MappedPurse[d] + (IF entrant[r][0] = d THEN MappedPool[r][0] ELSE 0)
                         + (IF entrant[r][1] = d THEN MappedPool[r][1] ELSE 0)]
    BY <1>1, <1>2 DEF MappedPurse
  <1>5. MappedPool' = [MappedPool EXCEPT ![r] = [t \in Slot |-> 0]]
    BY <1>1 DEF MappedPool
  <1>6. entrant' = entrant
    BY DEF CancelRace, Cancelable
  <1> QED BY <1>1, <1>2, <1>3, <1>4, <1>5, <1>6
          DEF Pool!Refund, Pool!Emptied, Pool!Slot, Slot, MappedPool, MappedOutcome, MappedPurse

LEMMA NextMaps == IInv /\ [Next]_vars => [Pool!Next]_(Pool!poolVars)
  <1> SUFFICES ASSUME IInv, [Next]_vars PROVE [Pool!Next]_(Pool!poolVars)
    OBVIOUS
  <1>1. CASE Still
    BY <1>1, StillMaps
  <1>2. ASSUME NEW sender \in Keys, NEW entry \in signed, NEW granted \in Nat,
               JoinEntry(sender, entry, granted)
        PROVE  Pool!Next
    <2>1. entry \in Entry
      BY DEF IInv, TypeOK
    <2>2. /\ entry.race \in RaceId /\ entry.slot \in Pool!Slot /\ entry.driver \in Drivers
          /\ entry.stakeAmount \in Stakes \cup Fees /\ entry.feeAmount \in Stakes \cup Fees
      BY <2>1 DEF Entry, Slot, Pool!Slot
    <2> QED BY <1>2, <2>2, JoinMaps DEF Pool!Next
  <1>3. ASSUME NEW sender \in Keys, NEW r \in RaceId, SettleRace(sender, r)
        PROVE  Pool!Next
    <2>1. winnerSlot[r] \in Slot
      BY DEF IInv, TypeOK
    <2>2. PICK w \in Slot : winnerSlot[r] = w
      BY <2>1
    <2>3. Pool!PayWinner(r, w)
      BY <1>3, <2>2, SettleMaps
    <2> QED BY <2>3 DEF Pool!Next, Slot, Pool!Slot
  <1>4. ASSUME NEW sender \in Keys, NEW r \in RaceId, CancelRace(sender, r)
        PROVE  Pool!Next
    BY <1>4, CancelMaps DEF Pool!Next
  <1> QED BY <1>1, <1>2, <1>3, <1>4, StepCases

(* The contract implements the stake pool for any set of drivers, races,   *)
(* amounts and keys: each stake enters once and leaves once, to an entrant *)
(* of its own race.                                                        *)
THEOREM Refinement == Spec => ImplementsStakePool
  BY InitMaps, NextMaps, InvariantHolds, PTL DEF Spec, ImplementsStakePool, Pool!Spec

-----------------------------------------------------------------------------
(* The contract implements RaceLedger.                                     *)

(* A slot is taken exactly when it has a driver. *)
LEMMA SlotTaken ==
  ASSUME IInv, NEW r \in RaceId, NEW s \in Slot
  PROVE  joined[r][s] <=> entrant[r][s] # NoDriver
  BY AccountsAssumption DEF IInv, TypeOK, StakedBeforeRun

(* An accepted entry is a join the facilitator may make. *)
LEMMA JoinLedger ==
  ASSUME IInv, NEW sender \in Keys, NEW entry \in signed, NEW granted \in Nat,
         JoinEntry(sender, entry, granted)
  PROVE  Ledger!Next
  <1> DEFINE r == entry.race
             s == entry.slot
             d == entry.driver
  <1>1. r \in RaceId /\ s \in Slot /\ d \in Drivers /\ 1 - s \in Slot
    BY DEF IInv, TypeOK, Entry, Slot
  <1>2. /\ status[r] \in {"Created", "Joined"}
        /\ ~joined[r][s]
        /\ s = 1 => d # entrant[r][0]
        /\ entrant' = [entrant EXCEPT ![r][s] = d]
        /\ status' = [status EXCEPT ![r] = IF joined[r][1 - s] THEN "Joined" ELSE status[r]]
        /\ UNCHANGED <<winnerSlot, nextRaceId>>
    BY DEF JoinEntry, SlotOpenTo, StatusAfterJoin
  <1>3. entrant[r][s] = NoDriver /\ (joined[r][1 - s] <=> entrant[r][1 - s] # NoDriver)
    BY <1>1, <1>2, SlotTaken
  <1>4. Ledger!Join(r, s, d)
    BY <1>1, <1>2, <1>3 DEF Ledger!Join
  <1> QED BY <1>1, <1>4 DEF Ledger!Next, Ledger!RaceId, Ledger!Slot, RaceId, Slot

LEMMA NextLedger == IInv /\ [Next]_vars => [Ledger!Next]_(Ledger!ledgerVars)
  <1> SUFFICES ASSUME IInv, [Next]_vars PROVE [Ledger!Next]_(Ledger!ledgerVars)
    OBVIOUS
  <1> USE DEF Ledger!RaceId, Ledger!Slot, RaceId, Slot
  <1>1. CASE UNCHANGED vars
    BY <1>1 DEF vars, Ledger!ledgerVars
  <1>2. CASE Tick
    BY <1>2 DEF Tick, raceVars, Ledger!ledgerVars
  <1>3. CASE DriverStep
    BY <1>3 DEF DriverStep, Approve, SignPermit, SignEntry, raceVars, Ledger!ledgerVars
  <1>4. ASSUME NEW sender \in Keys, ContractCall(sender)
        PROVE  [Ledger!Next]_(Ledger!ledgerVars)
    <2>1. ASSUME NEW stake \in Stakes \cup {0}, NEW fee \in Fees, OpenRace(sender, stake, fee)
          PROVE  Ledger!Next
      BY <2>1 DEF OpenRace, Ledger!Next, Ledger!OpenRace
    <2>2. ASSUME NEW entry \in signed,
                 \/ JoinWithAuthorization(sender, entry)
                 \/ JoinWithAuthorizationAndPermit(sender, entry)
          PROVE  Ledger!Next
      <3>1. entry \in Entry
        BY DEF IInv, TypeOK
      <3>2. entry.driver \in Drivers /\ entry.stakeAmount \in Nat /\ entry.feeAmount \in Nat
        BY <3>1, AmountsAssumption DEF Entry
      <3>3. allowance[entry.driver] \in Nat /\ entry.stakeAmount + entry.feeAmount \in Nat
        BY <3>2 DEF IInv, TypeOK
      <3> QED BY <2>2, <3>3, JoinLedger DEF JoinWithAuthorization, JoinWithAuthorizationAndPermit
    <2>3. ASSUME NEW r \in RaceId,
                 LockRace(sender, r) \/ StartRace(sender, r) \/ SettleRace(sender, r) \/ CancelRace(sender, r)
          PROVE  Ledger!Next
      <3>1. \/ Ledger!Lock(r) \/ Ledger!Start(r) \/ Ledger!Settle(r) \/ Ledger!Cancel(r)
        BY <2>3 DEF LockRace, StartRace, SettleRace, Payout, CancelRace, Cancelable,
             Ledger!Lock, Ledger!Start, Ledger!Settle, Ledger!Cancel, Ledger!Advance
      <3> QED BY <3>1 DEF Ledger!Next
    <2>4. ASSUME NEW r \in RaceId, NEW winner \in 0..2, FinishRace(sender, r, winner)
          PROVE  Ledger!Next
      <3>1. winner \in Slot /\ Ledger!Finish(r, winner)
        BY <2>4 DEF FinishRace, WinnerSlotValid, Ledger!Finish, Ledger!Advance
      <3> QED BY <3>1 DEF Ledger!Next
    <2>5. ASSUME \/ \E key \in Keys : SetFacilitator(sender, key)
                 \/ \E account \in Treasuries : SetTreasury(sender, account)
          PROVE  UNCHANGED Ledger!ledgerVars
      BY <2>5 DEF SetFacilitator, SetTreasury, raceVars, Ledger!ledgerVars
    <2> QED BY <1>4, <2>1, <2>2, <2>3, <2>4, <2>5 DEF ContractCall
  <1> QED BY <1>1, <1>2, <1>3, <1>4 DEF Next

(* For any number of races, drivers and keys the contract implements the   *)
(* RaceLedger the sidecar is modelled on: what it does to statuses,        *)
(* entrants and winners the facilitator can rely on.                       *)
THEOREM LedgerRefinement == Spec => ImplementsRaceLedger
  <1>1. Init => Ledger!Init
    BY DEF Init, Ledger!Init, Ledger!RaceId, Ledger!Slot, RaceId, Slot
  <1> QED BY <1>1, NextLedger, InvariantHolds, PTL DEF Spec, ImplementsRaceLedger, Ledger!Spec
=============================================================================
