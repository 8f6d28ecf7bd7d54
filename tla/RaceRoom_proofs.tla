-------------------------- MODULE RaceRoom_proofs --------------------------
(***************************************************************************)
(* Theorems about the race room, for any number of rounds, wallets, races  *)
(* and calls at a time.                                                    *)
(*                                                                         *)
(* Everything the sidecar believes it learnt from a call, so the inductive *)
(* invariant says of every call what it may still rely on when it resumes: *)
(* its round still has the race, the wallet and the winner of the snapshot *)
(* it was made from, and once the answer is there the chain has done what  *)
(* was asked (CallSound).  Of every round it says that what it claims is   *)
(* true of the chain (Justified), how its winner and status go together    *)
(* (Shaped), and how far disk may be behind memory (OnDisk).               *)
(***************************************************************************)
EXTENDS RaceRoom, TLAPS

(* The local status and the fields that depend on it. *)
Shaped(rd) ==
  /\ rd.status = "challenge" =>
       rd.drivers[Challenger].wallet # NoWallet /\ rd.drivers[Opponent].wallet = NoWallet
  /\ rd.status \in {"finished", "settled"} => rd.winner # NoWinner
  /\ rd.winner # NoWinner => rd.status \in {"finished", "settled", "canceled"}
  /\ \A s \in Slot : rd.drivers[s].chainJoined => rd.drivers[s].wallet # NoWallet
  /\ rd.chainStatus \in {"joined", "locked"} => \A s \in Slot : rd.drivers[s].chainJoined

(* What a round says of its race is so.  A round that has a winner and was *)
(* canceled all the same was canceled by the chain.                        *)
JustifiedBy(rd, race) ==
  /\ rd.chainStatus # "not-opened"
  /\ raceStatus[race] \in AtLeast(rd.chainStatus)
  /\ rd.status = "settled" => raceStatus[race] = "Settled"
  /\ rd.status = "canceled" /\ rd.winner # NoWinner => raceStatus[race] = "Canceled"
  /\ \A s \in Slot : rd.drivers[s].chainJoined => entrant[race][s] = rd.drivers[s].wallet

Detached(rd) ==
  /\ rd.chainStatus = "not-opened"
  /\ rd.status # "settled"
  /\ rd.status = "canceled" => rd.winner = NoWinner
  /\ \A s \in Slot : ~rd.drivers[s].chainJoined

Justified(rd) ==
  /\ rd.chainRaceId # NoRace => JustifiedBy(rd, rd.chainRaceId)
  /\ rd.chainRaceId = NoRace => Detached(rd)

(* The round on disk is the one in memory, or lockRound's change to it has *)
(* not been persisted.                                                     *)
OnDisk(x) ==
  \/ disk[x] = round[x]
  \/ disk[x].status = "ready" /\ round[x] = WithStatus(disk[x], "locked")

RoundsSound ==
  \A x \in RoundIds : Known(x) =>
    Shaped(round[x]) /\ Justified(round[x]) /\ OnDisk(x)

CaptureOps == {"capture-choose", "capture-settle"}
MarkOps == {"lock", "start", "finish", "settle", "cancel"}

(* The snapshot a call was made from still describes its round. *)
SnapshotStands(call) ==
  LET rd == round[call.round]
  IN /\ call.op \in MarkOps \cup {"join"} => call.race # NoRace /\ call.race = rd.chainRaceId
     /\ call.op = "join" => call.wallet # NoWallet /\ call.wallet = rd.drivers[call.slot].wallet
     /\ call.op = "finish" => call.winner # NoWinner /\ call.winner = rd.winner

(* What the call asked for, once its answer is there, has been done. *)
AnswerIsTrue(call) ==
  call.phase = "done" =>
    /\ call.op = "open" => call.race < nextRaceId
    /\ call.op = "join" => entrant[call.race][call.slot] = call.wallet
    /\ call.op \in MarkOps => raceStatus[call.race] \in AtLeast(Marks[call.op])

CallSound(call) ==
  /\ Known(call.round)
  /\ call.phase = "reading" => call.op = "open"
  /\ call.op = "open" /\ call.phase # "reading" => call.race \in RaceId /\ call.race <= nextRaceId
  /\ call.op \in CaptureOps => call.phase = "done" /\ call.winner # NoWinner
  /\ SnapshotStands(call)
  /\ AnswerIsTrue(call)

CallsSound == \A c \in CallIds : calls[c] # Idle => CallSound(calls[c])

(* The races opened are the first ones, and a race both have entered is at *)
(* least joined.                                                           *)
ChainSound ==
  \A r \in RaceId :
    /\ r < nextRaceId <=> raceStatus[r] # "None"
    /\ (\A s \in Slot : entrant[r][s] # NoWallet) => raceStatus[r] \in AtLeast("joined")

(* A finished race has a round on disk with its winner. *)
ResultKept ==
  \A r \in RaceId : raceStatus[r] \in {"Finished", "Settled"} =>
    \E x \in RoundIds :
      /\ disk[x] # NoRound
      /\ disk[x].chainRaceId = r
      /\ disk[x].winner = winnerSlot[r]
      /\ disk[x].status \in {"finished", "settled"}

IInv ==
  /\ TypeOK
  /\ RoundsSound
  /\ CallsSound
  /\ ChainSound
  /\ StakesKnown
  /\ ResultKept
-----------------------------------------------------------------------------
(* What the functions of rounds.ts do to a round, whoever calls them: they *)
(* keep a wallet, a race and a winner once they are set, and leave a       *)
(* canceled round canceled and a settled one settled, or canceled.         *)
Grows(old, new) ==
  /\ new \in Round
  /\ Shaped(new)
  /\ \A s \in Slot : old.drivers[s].wallet # NoWallet =>
       new.drivers[s].wallet = old.drivers[s].wallet
  /\ old.chainRaceId # NoRace => new.chainRaceId = old.chainRaceId
  /\ old.winner # NoWinner => new.winner = old.winner
  /\ old.status = "settled" => new.status \in {"settled", "canceled"}
  /\ old.status = "canceled" => new.status = "canceled"
  /\ old.status = "ready" /\ new.status = "locked" /\ old.chainRaceId # NoRace =>
       old.chainStatus = "locked"

(* Those that do not await say nothing new of the chain. *)
SaysNoMore(old, new) ==
  /\ new.chainRaceId = old.chainRaceId
  /\ new.chainStatus = old.chainStatus
  /\ \A s \in Slot : new.drivers[s].chainJoined =>
       /\ old.drivers[s].chainJoined
       /\ new.drivers[s].wallet = old.drivers[s].wallet
  /\ new.status = "settled" => old.status = "settled"
  /\ new.status = "canceled" => \/ new.winner = NoWinner
                                \/ old.status = "canceled" /\ new.winner = old.winner

GrowsLocally(old, new) == Grows(old, new) /\ SaysNoMore(old, new)

LEMMA SlotFacts == Slot = {0, 1} /\ Challenger = 0 /\ Opponent = 1 /\ Chain!Slot = {0, 1}
  BY SMT DEF Slot, Challenger, Opponent, Chain!Slot

(* Changing one driver. *)
LEMMA DriverSet ==
  ASSUME NEW drivers \in [Slot -> Driver], NEW s \in Slot, NEW d \in Driver
  PROVE  [drivers EXCEPT ![s] = d] \in [Slot -> Driver]
  OBVIOUS

(* updateReady changes the status of a round that can be joined to ready.  *)
LEMMA UpdateReady ==
  ASSUME NEW rd \in Round
  PROVE  \/ updateReady(rd) = rd
         \/ Joinable(rd) /\ updateReady(rd) = [rd EXCEPT !.status = "ready"]
  BY DEF updateReady

(* A wallet-less or claimed slot, and a new round. *)
LEMMA CreateShaped ==
  ASSUME NEW wallet \in Wallets \cup {NoWallet}
  PROVE  /\ createRound(wallet) \in Round
         /\ Shaped(createRound(wallet))
         /\ createRound(wallet).chainRaceId = NoRace
         /\ Detached(createRound(wallet))
<1>1. NewDriver(NoWallet) \in Driver /\ NewDriver(wallet) \in Driver
  BY DEF NewDriver, Driver, FeePayment
<1>2. createRound(wallet) \in Round
  BY <1>1 DEF createRound, Round, RoundStatus, ChainStatus
<1>3. \A s \in Slot : /\ createRound(wallet).drivers[s].chainJoined = FALSE
                      /\ s = Challenger => createRound(wallet).drivers[s].wallet = wallet
                      /\ s = Opponent => createRound(wallet).drivers[s].wallet = NoWallet
  BY SlotFacts DEF createRound, NewDriver
<1>4. /\ createRound(wallet).status = IF wallet = NoWallet THEN "accepted" ELSE "challenge"
      /\ createRound(wallet).chainStatus = "not-opened"
      /\ createRound(wallet).winner = NoWinner
      /\ createRound(wallet).chainRaceId = NoRace
  BY DEF createRound
<1>5. Challenger \in Slot /\ Opponent \in Slot BY DEF Slot
<1>6. QED BY <1>2, <1>3, <1>4, <1>5 DEF Shaped, Detached

LEMMA AcceptGrows ==
  ASSUME NEW rd \in Round, Shaped(rd), NEW wallet \in Wallets, CanAcceptRound(rd, wallet)
  PROVE  GrowsLocally(rd, acceptRound(rd, wallet))
<1> DEFINE new == acceptRound(rd, wallet)
<1>1. NewDriver(wallet) \in Driver /\ NewDriver(wallet).wallet = wallet
      /\ NewDriver(wallet).chainJoined = FALSE
  BY DEF NewDriver, Driver, FeePayment
<1>2. /\ new.status = "accepted" /\ new.chainStatus = rd.chainStatus
      /\ new.chainRaceId = rd.chainRaceId /\ new.winner = rd.winner
      /\ new.drivers = [rd.drivers EXCEPT ![Opponent] = NewDriver(wallet)]
  BY DEF acceptRound, Round
<1>3. Opponent \in Slot /\ Challenger \in Slot /\ Opponent # Challenger
  BY DEF Slot, Opponent, Challenger
<1>4. new \in Round
  <2>1. new.drivers \in [Slot -> Driver]
    BY <1>1, <1>2, <1>3, DriverSet DEF Round
  <2>2. QED BY <1>2, <2>1 DEF acceptRound, Round, RoundStatus
<1>5. /\ new.drivers[Opponent] = NewDriver(wallet)
      /\ \A s \in Slot : s # Opponent => new.drivers[s] = rd.drivers[s]
  BY <1>2, <1>3 DEF Round
<1>6. rd.status = "challenge" /\ rd.drivers[Opponent].wallet = NoWallet /\ rd.winner = NoWinner
  BY DEF CanAcceptRound, Shaped
<1>7. \A s \in Slot : new.drivers[s].chainJoined => s # Opponent
  BY <1>1, <1>5
<1>8. Shaped(new)
  BY <1>2, <1>5, <1>6, <1>7, NamesAssumption DEF Shaped
<1>9. \A s \in Slot : rd.drivers[s].wallet # NoWallet => s # Opponent
  BY <1>6
<1> HIDE DEF new
<1>10. QED BY <1>2, <1>4, <1>5, <1>6, <1>7, <1>8, <1>9 DEF GrowsLocally, Grows, SaysNoMore, new

LEMMA ClaimGrows ==
  ASSUME NEW rd \in Round, Shaped(rd), NEW s \in Slot, NEW wallet \in Wallets,
         CanClaimSlot(rd, s, wallet)
  PROVE  GrowsLocally(rd, claimSlot(rd, s, wallet))
<1> DEFINE new == claimSlot(rd, s, wallet)
           d == [rd.drivers[s] EXCEPT !.wallet = wallet]
<1>1. /\ d \in Driver /\ d.wallet = wallet /\ d.chainJoined = rd.drivers[s].chainJoined
  BY DEF Driver, Round
<1>2. /\ new.status = (IF rd.status = "challenge" /\ rd.drivers[1 - s].wallet # NoWallet
                       THEN "accepted" ELSE rd.status)
      /\ new.chainStatus = rd.chainStatus
      /\ new.chainRaceId = rd.chainRaceId /\ new.winner = rd.winner
      /\ new.drivers = [rd.drivers EXCEPT ![s] = d]
  BY DEF claimSlot, Round
<1>3. new \in Round
  <2>1. new.drivers \in [Slot -> Driver]
    BY <1>1, <1>2, DriverSet DEF Round
  <2>2. QED BY <1>2, <2>1 DEF claimSlot, Round, RoundStatus
<1>4. /\ new.drivers[s] = d
      /\ \A t \in Slot : t # s => new.drivers[t] = rd.drivers[t]
  BY <1>2 DEF Round
<1>5. /\ rd.status \in {"challenge", "accepted", "ready"}
      /\ ~rd.drivers[s].chainJoined
      /\ rd.drivers[s].wallet \in {NoWallet, wallet}
      /\ rd.winner = NoWinner
  BY DEF CanClaimSlot, Shaped
<1>6. wallet # NoWallet BY NamesAssumption
<1>7. \A t \in Slot : new.drivers[t].chainJoined => t # s
  BY <1>1, <1>4, <1>5
<1>8. Shaped(new)
  <2>1. \A t \in Slot : new.drivers[t].chainJoined => new.drivers[t].wallet # NoWallet
    BY <1>4, <1>7 DEF Shaped
  <2>2. CASE rd.status = "challenge" /\ new.status = "challenge"
    <3>1. rd.drivers[1 - s].wallet = NoWallet BY <1>2, <2>2
    <3>2. s = Challenger
      BY <3>1, <2>2, SlotFacts DEF Shaped
    <3>3. new.drivers[Opponent].wallet = NoWallet /\ new.drivers[Challenger].wallet = wallet
      BY <3>2, <1>1, <1>4, <2>2, SlotFacts DEF Shaped
    <3>4. QED BY <2>1, <2>2, <3>3, <1>2, <1>5, <1>6 DEF Shaped
  <2>3. CASE new.status # "challenge"
    BY <2>1, <2>3, <1>2, <1>5 DEF Shaped
  <2>4. QED BY <2>2, <2>3, <1>2
<1> HIDE DEF new, d
<1>9. \A t \in Slot : rd.drivers[t].wallet # NoWallet => new.drivers[t].wallet = rd.drivers[t].wallet
  BY <1>1, <1>4, <1>5
<1>10. new.status \in {"challenge", "accepted", "ready"} BY <1>2, <1>5
<1>11. \A t \in Slot : new.drivers[t].chainJoined =>
         rd.drivers[t].chainJoined /\ new.drivers[t].wallet = rd.drivers[t].wallet
  BY <1>4, <1>7
<1>12. QED BY <1>2, <1>3, <1>5, <1>8, <1>9, <1>10, <1>11 DEF GrowsLocally, Grows, SaysNoMore, new
(* A driver of the round is replaced by one with the same wallet, and the  *)
(* round may become ready: common to a fee, a stake and an entry.          *)
Replaced(rd, s, d, cs) ==
  [rd EXCEPT !.drivers = [rd.drivers EXCEPT ![s] = d], !.chainStatus = cs]

ReplacedBy(rd, s, d, cs, new) ==
  /\ Grows(rd, new)
  /\ new.chainStatus = cs
  /\ new.chainRaceId = rd.chainRaceId
  /\ new.winner = rd.winner
  /\ new.drivers = [rd.drivers EXCEPT ![s] = d]
  /\ \A t \in Slot : new.drivers[t].wallet = rd.drivers[t].wallet
  /\ \/ new.status = rd.status
     \/ Joinable(rd) /\ new.status = "ready"

LEMMA DriverReplaced ==
  ASSUME NEW rd \in Round, Shaped(rd), NEW s \in Slot, NEW d \in Driver,
         d.wallet = rd.drivers[s].wallet, d.chainJoined => d.wallet # NoWallet,
         NEW cs \in ChainStatus,
         cs \in {"joined", "locked"} =>
           d.chainJoined /\ \A t \in Slot : t # s => rd.drivers[t].chainJoined
  PROVE  ReplacedBy(rd, s, d, cs, updateReady(Replaced(rd, s, d, cs)))
<1> DEFINE mid == Replaced(rd, s, d, cs)
           new == updateReady(mid)
<1>1. [rd.drivers EXCEPT ![s] = d] \in [Slot -> Driver]
  BY DriverSet DEF Round
<1>2. mid \in Round
  BY <1>1 DEF Round, Replaced
<1>3. /\ mid.status = rd.status /\ mid.chainStatus = cs /\ mid.chainRaceId = rd.chainRaceId
      /\ mid.winner = rd.winner /\ mid.drivers = [rd.drivers EXCEPT ![s] = d]
  BY DEF Round, Replaced
<1> HIDE DEF mid
<1>4. new = mid \/ (Joinable(mid) /\ new = [mid EXCEPT !.status = "ready"])
  BY <1>2, UpdateReady
<1>5. "ready" \in RoundStatus BY DEF RoundStatus
<1> HIDE DEF new
<1>6. new \in Round
  BY <1>2, <1>4, <1>5 DEF Round
<1>7. /\ new.chainStatus = cs /\ new.chainRaceId = rd.chainRaceId
      /\ new.winner = rd.winner /\ new.drivers = [rd.drivers EXCEPT ![s] = d]
      /\ new.status = rd.status \/ (Joinable(rd) /\ new.status = "ready")
  BY <1>2, <1>3, <1>4 DEF Round, Joinable
<1>8. /\ new.drivers[s] = d
      /\ \A t \in Slot : t # s => new.drivers[t] = rd.drivers[t]
  BY <1>7 DEF Round
<1>9. \A t \in Slot : /\ new.drivers[t].wallet = rd.drivers[t].wallet
                      /\ new.drivers[t].chainJoined => new.drivers[t].wallet # NoWallet
  BY <1>8 DEF Shaped
<1>10. Shaped(new)
  <2>1. new.chainStatus \in {"joined", "locked"} => \A t \in Slot : new.drivers[t].chainJoined
    BY <1>7, <1>8
  <2>2. QED BY <1>7, <1>9, <2>1, SlotFacts DEF Shaped, Joinable
<1>11. Grows(rd, new)
  BY <1>6, <1>7, <1>9, <1>10 DEF Grows, Joinable
<1>12. QED BY <1>7, <1>9, <1>11 DEF ReplacedBy, mid, new

LEMMA FeeGrows ==
  ASSUME NEW rd \in Round, Shaped(rd), NEW s \in Slot, NEW fee \in Fees
  PROVE  GrowsLocally(rd, markFeePaid(rd, s, fee))
<1> DEFINE d == [rd.drivers[s] EXCEPT !.feePaid = TRUE, !.feePayment = fee]
           new == markFeePaid(rd, s, fee)
<1>1. /\ d \in Driver /\ d.wallet = rd.drivers[s].wallet /\ d.chainJoined = rd.drivers[s].chainJoined
  BY FeesAssumption DEF Driver, Round
<1>2. new = updateReady(Replaced(rd, s, d, rd.chainStatus))
  BY DEF markFeePaid, Round, Replaced
<1>3. d.chainJoined => d.wallet # NoWallet
  BY <1>1 DEF Shaped
<1>4. /\ rd.chainStatus \in ChainStatus
      /\ rd.chainStatus \in {"joined", "locked"} =>
           d.chainJoined /\ \A t \in Slot : t # s => rd.drivers[t].chainJoined
  BY <1>1 DEF Round, Shaped
<1> HIDE DEF d, new
<1>5. ReplacedBy(rd, s, d, rd.chainStatus, new)
  <2>1. d \in Driver BY <1>1
  <2>2. d.wallet = rd.drivers[s].wallet BY <1>1
  <2>3. QED BY <2>1, <2>2, <1>2, <1>3, <1>4, DriverReplaced, Zenon
<1>6. /\ Grows(rd, new) /\ new.chainStatus = rd.chainStatus /\ new.chainRaceId = rd.chainRaceId
      /\ new.winner = rd.winner /\ new.drivers = [rd.drivers EXCEPT ![s] = d]
      /\ \A t \in Slot : new.drivers[t].wallet = rd.drivers[t].wallet
      /\ new.status = rd.status \/ (Joinable(rd) /\ new.status = "ready")
  BY <1>5 DEF ReplacedBy
<1>7. \A t \in Slot : new.drivers[t].chainJoined => rd.drivers[t].chainJoined
  BY <1>1, <1>6 DEF Round
<1>8. SaysNoMore(rd, new)
  BY <1>6, <1>7 DEF SaysNoMore
<1>9. QED BY <1>6, <1>8 DEF GrowsLocally, new

LEMMA StakeGrows ==
  ASSUME NEW rd \in Round, Shaped(rd), NEW s \in Slot
  PROVE  GrowsLocally(rd, authorizeStake(rd, s))
<1> DEFINE d == [rd.drivers[s] EXCEPT !.stakeAuthorized = TRUE]
           new == authorizeStake(rd, s)
<1>1. /\ d \in Driver /\ d.wallet = rd.drivers[s].wallet /\ d.chainJoined = rd.drivers[s].chainJoined
  BY DEF Driver, Round
<1>2. new = updateReady(Replaced(rd, s, d, rd.chainStatus))
  BY DEF authorizeStake, Round, Replaced
<1>3. d.chainJoined => d.wallet # NoWallet
  BY <1>1 DEF Shaped
<1>4. /\ rd.chainStatus \in ChainStatus
      /\ rd.chainStatus \in {"joined", "locked"} =>
           d.chainJoined /\ \A t \in Slot : t # s => rd.drivers[t].chainJoined
  BY <1>1 DEF Round, Shaped
<1> HIDE DEF d, new
<1>5. ReplacedBy(rd, s, d, rd.chainStatus, new)
  <2>1. d \in Driver BY <1>1
  <2>2. d.wallet = rd.drivers[s].wallet BY <1>1
  <2>3. QED BY <2>1, <2>2, <1>2, <1>3, <1>4, DriverReplaced, Zenon
<1>6. /\ Grows(rd, new) /\ new.chainStatus = rd.chainStatus /\ new.chainRaceId = rd.chainRaceId
      /\ new.winner = rd.winner /\ new.drivers = [rd.drivers EXCEPT ![s] = d]
      /\ \A t \in Slot : new.drivers[t].wallet = rd.drivers[t].wallet
      /\ new.status = rd.status \/ (Joinable(rd) /\ new.status = "ready")
  BY <1>5 DEF ReplacedBy
<1>7. \A t \in Slot : new.drivers[t].chainJoined => rd.drivers[t].chainJoined
  BY <1>1, <1>6 DEF Round
<1>8. SaysNoMore(rd, new)
  BY <1>6, <1>7 DEF SaysNoMore
<1>9. QED BY <1>6, <1>8 DEF GrowsLocally, new

(* The round goes on: lock, countdown, racing, finish or cancel. *)
LEMMA StatusGrows ==
  ASSUME NEW rd \in Round, Shaped(rd), NEW status \in RoundStatus,
         status \in {"locked", "countdown", "racing", "canceled"},
         rd.status \notin {"finished", "settled", "canceled"},
         status = "locked" => CanLockRound(rd)
  PROVE  GrowsLocally(rd, WithStatus(rd, status))
<1> DEFINE new == WithStatus(rd, status)
<1>1. /\ new \in Round /\ new.status = status /\ new.chainStatus = rd.chainStatus
      /\ new.chainRaceId = rd.chainRaceId /\ new.winner = rd.winner /\ new.drivers = rd.drivers
  BY DEF WithStatus, Round
<1>2. rd.winner = NoWinner BY DEF Shaped
<1>3. Shaped(new) BY <1>1, <1>2 DEF Shaped
<1>4. status = "locked" /\ rd.chainRaceId # NoRace => rd.chainStatus = "locked"
  BY DEF CanLockRound
<1> HIDE DEF new
<1>5. QED BY <1>1, <1>2, <1>3, <1>4 DEF GrowsLocally, Grows, SaysNoMore, new

LEMMA FinishGrows ==
  ASSUME NEW rd \in Round, Shaped(rd), NEW w \in Slot, rd.status = "racing"
  PROVE  GrowsLocally(rd, finishRound(rd, w))
<1> DEFINE new == finishRound(rd, w)
<1>1. /\ new \in Round /\ new.status = "finished" /\ new.chainStatus = rd.chainStatus
      /\ new.chainRaceId = rd.chainRaceId /\ new.winner = w /\ new.drivers = rd.drivers
  BY DEF finishRound, Round, RoundStatus
<1>2. rd.winner = NoWinner BY DEF Shaped
<1>3. w # NoWinner BY NamesAssumption, SlotFacts
<1>4. Shaped(new) BY <1>1, <1>2, <1>3 DEF Shaped
<1> HIDE DEF new
<1>5. QED BY <1>1, <1>2, <1>4 DEF GrowsLocally, Grows, SaysNoMore, new

LEMMA ChooseGrows ==
  ASSUME NEW rd \in Round, Shaped(rd), NEW w \in Slot, CanChooseWinner(rd, w)
  PROVE  GrowsLocally(rd, chooseWinner(rd, w))
<1> DEFINE new == chooseWinner(rd, w)
<1>1. CASE rd.status \in {"finished", "settled"}
  BY <1>1 DEF chooseWinner, GrowsLocally, Grows, SaysNoMore, Shaped
<1>2. CASE rd.status \notin {"finished", "settled"}
  <2>1. /\ new \in Round /\ new.status = "finished" /\ new.chainStatus = rd.chainStatus
        /\ new.chainRaceId = rd.chainRaceId /\ new.winner = w /\ new.drivers = rd.drivers
    BY <1>2 DEF chooseWinner, Round, RoundStatus
  <2>2. rd.winner = NoWinner /\ rd.status # "canceled"
    BY <1>2 DEF Shaped, CanChooseWinner
  <2>3. w # NoWinner BY NamesAssumption, SlotFacts
  <2>4. Shaped(new) BY <2>1, <2>2, <2>3 DEF Shaped
  <2> HIDE DEF new
  <2>5. QED BY <1>2, <2>1, <2>2, <2>4 DEF GrowsLocally, Grows, SaysNoMore, new
<1>3. QED BY <1>1, <1>2

(* Everything the handlers that do not await may do to a round, but for    *)
(* chain/open.                                                             *)
LEMMA LocalGrows ==
  ASSUME NEW x \in RoundIds, NEW rd \in Round, Shaped(rd), Join(x, rd) \/ Run(x, rd)
  PROVE  \E new : GrowsLocally(rd, new) /\ Update(x, new)
<1>1. ASSUME NEW wallet \in Wallets, CanAcceptRound(rd, wallet), Update(x, acceptRound(rd, wallet))
      PROVE  \E new : GrowsLocally(rd, new) /\ Update(x, new)
  BY <1>1, AcceptGrows
<1>2. ASSUME NEW s \in Slot, NEW wallet \in Wallets, CanClaimSlot(rd, s, wallet),
             Update(x, claimSlot(rd, s, wallet))
      PROVE  \E new : GrowsLocally(rd, new) /\ Update(x, new)
  BY <1>2, ClaimGrows
<1>3. ASSUME NEW s \in Slot, NEW fee \in Fees, Update(x, markFeePaid(rd, s, fee))
      PROVE  \E new : GrowsLocally(rd, new) /\ Update(x, new)
  BY <1>3, FeeGrows
<1>4. ASSUME NEW s \in Slot, Update(x, authorizeStake(rd, s))
      PROVE  \E new : GrowsLocally(rd, new) /\ Update(x, new)
  BY <1>4, StakeGrows
<1>5. ASSUME NEW status \in RoundStatus, status \in {"locked", "countdown", "racing", "canceled"},
             rd.status \notin {"finished", "settled", "canceled"},
             status = "locked" => CanLockRound(rd), Update(x, WithStatus(rd, status))
      PROVE  \E new : GrowsLocally(rd, new) /\ Update(x, new)
  BY <1>5, StatusGrows
<1>6. ASSUME NEW w \in Slot, rd.status = "racing", Update(x, finishRound(rd, w))
      PROVE  \E new : GrowsLocally(rd, new) /\ Update(x, new)
  BY <1>6, FinishGrows
<1>7. CASE Join(x, rd)
  BY <1>7, <1>1, <1>2, <1>3, <1>4 DEF Join
<1>8. CASE Run(x, rd)
  <2>1. {"locked", "countdown", "racing", "canceled"} \subseteq RoundStatus BY DEF RoundStatus
  <2>2. CASE CanLockRound(rd) /\ Update(x, WithStatus(rd, "locked"))
    BY <2>1, <2>2, <1>5 DEF CanLockRound
  <2>3. CASE rd.status = "locked" /\ Update(x, WithStatus(rd, "countdown"))
    BY <2>1, <2>3, <1>5
  <2>4. CASE rd.status = "countdown" /\ Update(x, WithStatus(rd, "racing"))
    BY <2>1, <2>4, <1>5
  <2>5. CASE rd.status = "racing" /\ \E w \in Slot : Update(x, finishRound(rd, w))
    BY <2>5, <1>6
  <2>6. CASE CanCancelRound(rd) /\ Update(x, WithStatus(rd, "canceled"))
    BY <2>1, <2>6, <1>5 DEF CanCancelRound
  <2>7. QED BY <1>8, <2>2, <2>3, <2>4, <2>5, <2>6 DEF Run
<1>9. QED BY <1>7, <1>8
-----------------------------------------------------------------------------
(* What a handler does to its round when the chain has answered.           *)

LEMMA AttachGrows ==
  ASSUME NEW rd \in Round, Shaped(rd), NEW race \in RaceId, CanAttachChainRace(rd, race)
  PROVE  Grows(rd, attachChainRace(rd, race))
<1> DEFINE new == attachChainRace(rd, race)
<1>1. /\ new \in Round /\ new.status = rd.status /\ new.chainStatus = "opened"
      /\ new.chainRaceId = race /\ new.winner = rd.winner /\ new.drivers = rd.drivers
  BY DEF attachChainRace, Round, ChainStatus
<1>2. rd.chainRaceId # NoRace => rd.chainRaceId = race
  BY DEF CanAttachChainRace
<1>3. Shaped(new) BY <1>1 DEF Shaped
<1> HIDE DEF new
<1>4. QED BY <1>1, <1>2, <1>3 DEF Grows, new

LEMMA JoinMarked ==
  ASSUME NEW rd \in Round, Shaped(rd), NEW s \in Slot, rd.drivers[s].wallet # NoWallet
  PROVE  \E d \in Driver, cs \in {"opened", "joined"} :
           /\ d.wallet = rd.drivers[s].wallet
           /\ cs = "joined" => \A t \in Slot : t # s => rd.drivers[t].chainJoined
           /\ ReplacedBy(rd, s, d, cs, markChainJoined(rd, s))
<1> DEFINE was == rd.drivers[s]
           x402 == was.feePayment \in {"x402", "x402-unpaid"}
           d == [was EXCEPT !.chainJoined = TRUE, !.stakeAuthorized = TRUE,
                            !.feePaid = x402 => was.feePayment = "x402",
                            !.feePayment = IF x402 THEN @ ELSE "other"]
           drivers == [rd.drivers EXCEPT ![s] = d]
           cs == StatusAfterJoin(drivers)
<1>1. was \in Driver BY DEF Round
<1>2. d \in Driver /\ d.wallet = was.wallet
  BY <1>1 DEF Driver, FeePayment
<1>3. cs \in {"opened", "joined"} /\ (cs = "joined" => \A t \in Slot : drivers[t].chainJoined)
  BY DEF StatusAfterJoin
<1>4. cs = "joined" => \A t \in Slot : t # s => rd.drivers[t].chainJoined
  BY <1>3 DEF Round
<1>5. /\ cs \in ChainStatus
      /\ cs \in {"joined", "locked"} =>
           d.chainJoined /\ \A t \in Slot : t # s => rd.drivers[t].chainJoined
  BY <1>1, <1>3, <1>4 DEF ChainStatus, Driver
<1>6. markChainJoined(rd, s) = updateReady([rd EXCEPT !.drivers = drivers, !.chainStatus = cs])
  BY DEF markChainJoined
<1>7. markChainJoined(rd, s) = updateReady(Replaced(rd, s, d, cs))
  BY <1>6 DEF Replaced
<1>8. d.chainJoined => d.wallet # NoWallet BY <1>2
<1> HIDE DEF d, cs
<1>9. ReplacedBy(rd, s, d, cs, markChainJoined(rd, s))
  <2>1. d \in Driver BY <1>2
  <2>2. d.wallet = rd.drivers[s].wallet BY <1>2
  <2>3. QED BY <2>1, <2>2, <1>5, <1>7, <1>8, DriverReplaced, Zenon
<1>10. QED BY <1>2, <1>3, <1>4, <1>9

LEMMA MarkGrows ==
  ASSUME NEW rd \in Round, Shaped(rd), NEW cs \in ChainStatus, CanMarkChain(rd, cs),
         cs # "joined"
  PROVE  Grows(rd, markChain(rd, cs))
<1> DEFINE new == markChain(rd, cs)
<1>1. /\ new.status = (IF cs \in {"settled", "canceled"} THEN cs ELSE rd.status)
      /\ new.chainStatus = cs
      /\ new.chainRaceId = rd.chainRaceId /\ new.winner = rd.winner /\ new.drivers = rd.drivers
  BY DEF markChain, Round
<1>2. new \in Round
  BY DEF markChain, Round, RoundStatus
<1>3. cs = "settled" => rd.status \in {"finished", "settled"}
  BY DEF CanMarkChain
<1> HIDE DEF new
<1>4. new.chainStatus \in {"joined", "locked"} => \A t \in Slot : new.drivers[t].chainJoined
  BY <1>1 DEF Shaped, CanMarkChain
<1>5. Shaped(new) BY <1>1, <1>3, <1>4 DEF Shaped
<1>6. QED BY <1>1, <1>2, <1>3, <1>5 DEF Grows, new

(* The claims of a round stay true. *)
LEMMA LocalJustified ==
  ASSUME NEW old \in Round, NEW new, Justified(old), Shaped(old), GrowsLocally(old, new)
  PROVE  Justified(new)
<1>1. CASE old.chainRaceId = NoRace
  BY <1>1 DEF Justified, Detached, GrowsLocally, SaysNoMore, Grows, Shaped
<1>2. CASE old.chainRaceId # NoRace
  <2>1. JustifiedBy(old, old.chainRaceId) BY <1>2 DEF Justified
  <2>2. new.status = "canceled" /\ new.winner # NoWinner => raceStatus[old.chainRaceId] = "Canceled"
    BY <2>1 DEF JustifiedBy, GrowsLocally, SaysNoMore
  <2>3. QED BY <1>2, <2>1, <2>2 DEF Justified, JustifiedBy, GrowsLocally, SaysNoMore
<1>3. QED BY <1>1, <1>2
LEMMA AttachJustified ==
  ASSUME NEW rd \in Round, Justified(rd), NEW race \in RaceId, CanAttachChainRace(rd, race),
         raceStatus[race] \in AtLeast("opened")
  PROVE  Justified(attachChainRace(rd, race))
<1> DEFINE new == attachChainRace(rd, race)
<1>1. /\ new.status = rd.status /\ new.chainStatus = "opened"
      /\ new.chainRaceId = race /\ new.winner = rd.winner /\ new.drivers = rd.drivers
  BY DEF attachChainRace, Round
<1>2. race # NoRace BY NamesAssumption DEF RaceId
<1>3. rd.chainRaceId = NoRace \/ rd.chainRaceId = race BY DEF CanAttachChainRace
<1> HIDE DEF new
<1>4. JustifiedBy(new, race)
  BY <1>1, <1>2, <1>3 DEF Justified, JustifiedBy, Detached
<1>5. QED BY <1>1, <1>2, <1>4 DEF Justified, new

LEMMA JoinJustified ==
  ASSUME NEW rd \in Round, Shaped(rd), Justified(rd), NEW race \in RaceId, rd.chainRaceId = race,
         NEW s \in Slot, rd.drivers[s].wallet # NoWallet,
         entrant[race][s] = rd.drivers[s].wallet,
         raceStatus \in [RaceId -> {"None", "Created", "Joined", "Locked", "Started",
                                    "Finished", "Settled", "Canceled"}],
         ChainSound,
         NEW d \in Driver, NEW cs \in {"opened", "joined"}, d.wallet = rd.drivers[s].wallet,
         cs = "joined" => \A t \in Slot : t # s => rd.drivers[t].chainJoined,
         NEW new, ReplacedBy(rd, s, d, cs, new)
  PROVE  Justified(new)
<1>1. race # NoRace BY NamesAssumption DEF RaceId
<1>2. JustifiedBy(rd, race) BY <1>1 DEF Justified
<1>3. \A t \in Slot : t # s => new.drivers[t] = rd.drivers[t]
  BY DEF ReplacedBy, Round
<1>4. \A t \in Slot : new.drivers[t].chainJoined => entrant[race][t] = new.drivers[t].wallet
  BY <1>2, <1>3 DEF JustifiedBy, ReplacedBy
<1>5. raceStatus[race] \in AtLeast(cs)
  <2>1. CASE cs = "joined"
    <3>1. \A t \in Slot : entrant[race][t] # NoWallet
      BY <2>1, <1>2 DEF JustifiedBy, Shaped
    <3>2. QED BY <3>1, <2>1 DEF ChainSound
  <2>2. CASE cs = "opened"
    <3>1. raceStatus[race] # "None" BY <1>2 DEF JustifiedBy, AtLeast, Round, ChainStatus
    <3>2. QED BY <2>2, <3>1 DEF AtLeast
  <2>3. QED BY <2>1, <2>2
<1>6. /\ new.status = rd.status \/ new.status = "ready"
      /\ new.winner = rd.winner /\ new.chainRaceId = race /\ new.chainStatus = cs
  BY DEF ReplacedBy
<1>7. JustifiedBy(new, race)
  BY <1>2, <1>4, <1>5, <1>6 DEF JustifiedBy
<1>8. QED BY <1>1, <1>6, <1>7 DEF Justified

LEMMA MarkJustified ==
  ASSUME NEW rd \in Round, Shaped(rd), Justified(rd), NEW race \in RaceId, rd.chainRaceId = race,
         NEW cs \in ChainStatus, cs # "not-opened", CanMarkChain(rd, cs),
         raceStatus[race] \in AtLeast(cs)
  PROVE  Justified(markChain(rd, cs))
<1> DEFINE new == markChain(rd, cs)
<1>1. /\ new.status = (IF cs \in {"settled", "canceled"} THEN cs ELSE rd.status)
      /\ new.chainStatus = cs
      /\ new.chainRaceId = race /\ new.winner = rd.winner /\ new.drivers = rd.drivers
  BY DEF markChain, Round
<1>2. race # NoRace BY NamesAssumption DEF RaceId
<1>3. JustifiedBy(rd, race) BY <1>2 DEF Justified
<1>4. cs = "settled" => raceStatus[race] = "Settled" BY DEF AtLeast
<1>5. cs = "canceled" => raceStatus[race] = "Canceled" BY DEF AtLeast
<1> HIDE DEF new
<1>6. JustifiedBy(new, race)
  BY <1>1, <1>3, <1>4, <1>5 DEF JustifiedBy
<1>7. QED BY <1>1, <1>2, <1>6 DEF Justified, new
-----------------------------------------------------------------------------
(* What the escrow may do meanwhile: a race only goes on, an entrant stays *)
(* and so does the winner of a finished race.                              *)

RaceStatus == {"None", "Created", "Joined", "Locked", "Started", "Finished", "Settled", "Canceled"}

ChainType ==
  /\ nextRaceId \in 0..MaxRaces
  /\ raceStatus \in [RaceId -> RaceStatus]
  /\ entrant \in [RaceId -> [Slot -> Wallets \cup {NoWallet}]]
  /\ winnerSlot \in [RaceId -> Slot]

GoesOnTo(from, to) ==
  \A claim \in ChainStatus \ {"not-opened"} : from \in AtLeast(claim) => to \in AtLeast(claim)

ChainGrows ==
  /\ nextRaceId' >= nextRaceId
  /\ \A r \in RaceId :
       /\ GoesOnTo(raceStatus[r], raceStatus'[r])
       /\ \A s \in Slot : entrant[r][s] # NoWallet => entrant'[r][s] = entrant[r][s]
       /\ raceStatus[r] \in {"Finished", "Settled"} => winnerSlot'[r] = winnerSlot[r]

LEMMA GoesOnSame == \A from : GoesOnTo(from, from)
  BY DEF GoesOnTo

(* Every change of status the escrow makes goes on. *)
LEMMA GoesOnSteps ==
  /\ \A to : GoesOnTo("None", to)
  /\ GoesOnTo("Created", "Joined")
  /\ GoesOnTo("Joined", "Locked")
  /\ GoesOnTo("Locked", "Started")
  /\ GoesOnTo("Started", "Finished")
  /\ GoesOnTo("Finished", "Settled")
  /\ \A from \in {"Created", "Joined", "Locked", "Started"} : GoesOnTo(from, "Canceled")
  BY DEF GoesOnTo, AtLeast, ChainStatus
(* What a mined transaction has done, and all it has done. *)
Done(call) ==
  /\ ChainType'
  /\ ChainSound'
  /\ ChainGrows
  /\ call.op = "open" => nextRaceId' = nextRaceId + 1
  /\ call.op = "join" => entrant'[call.race][call.slot] = call.wallet
  /\ call.op \in MarkOps => raceStatus'[call.race] \in AtLeast(Marks[call.op])
  /\ \A r \in RaceId, s \in Slot :
       entrant'[r][s] # NoWallet => entrant[r][s] # NoWallet \/ (call.op = "join" /\ r = call.race)
  /\ \A r \in RaceId : raceStatus'[r] \in {"Finished", "Settled"} =>
       \/ raceStatus[r] \in {"Finished", "Settled"}
       \/ /\ call.op = "finish" /\ r = call.race
          /\ raceStatus[r] = "Started" /\ winnerSlot'[r] = call.winner

(* A step of one race's status. *)
LEMMA AdvanceGrows ==
  ASSUME ChainType, ChainSound, NEW r \in RaceId, NEW to \in RaceStatus, to # "None",
         raceStatus[r] # "None", GoesOnTo(raceStatus[r], to),
         raceStatus' = [raceStatus EXCEPT ![r] = to],
         UNCHANGED <<entrant, nextRaceId>>,
         winnerSlot' \in [RaceId -> Slot],
         \A q \in RaceId : winnerSlot'[q] = winnerSlot[q] \/ (q = r /\ raceStatus[r] = "Started")
  PROVE  ChainType' /\ ChainSound' /\ ChainGrows /\ raceStatus'[r] = to
         /\ \A q \in RaceId : q # r => raceStatus'[q] = raceStatus[q]
<1>1. /\ raceStatus'[r] = to
      /\ \A q \in RaceId : q # r => raceStatus'[q] = raceStatus[q]
  BY DEF ChainType
<1>2. ChainType' BY DEF ChainType
<1>3. ChainSound'
  <2>1. SUFFICES ASSUME NEW q \in RaceId
                 PROVE  /\ q < nextRaceId <=> raceStatus'[q] # "None"
                        /\ (\A s \in Slot : entrant[q][s] # NoWallet) =>
                              raceStatus'[q] \in AtLeast("joined")
    BY DEF ChainSound
  <2>2. "joined" \in ChainStatus \ {"not-opened"} BY DEF ChainStatus
  <2>3. QED BY <1>1, <2>2 DEF ChainSound, GoesOnTo
<1>4. ChainGrows
  <2>1. nextRaceId' >= nextRaceId BY DEF ChainType
  <2>2. \A q \in RaceId : GoesOnTo(raceStatus[q], raceStatus'[q])
    BY <1>1, GoesOnSame
  <2>3. QED BY <2>1, <2>2 DEF ChainGrows
<1>5. QED BY <1>1, <1>2, <1>3, <1>4

LEMMA OpenDone ==
  ASSUME ChainType, ChainSound, NEW call \in Call, call.op = "open", Chain!OpenRace
  PROVE  Done(call)
<1>1. /\ nextRaceId \in RaceId /\ nextRaceId' = nextRaceId + 1
      /\ raceStatus' = [raceStatus EXCEPT ![nextRaceId] = "Created"]
      /\ UNCHANGED <<entrant, winnerSlot>>
  BY NamesAssumption DEF Chain!OpenRace, ChainType, RaceId
<1>2. /\ raceStatus'[nextRaceId] = "Created"
      /\ \A q \in RaceId : q # nextRaceId => raceStatus'[q] = raceStatus[q]
  BY <1>1 DEF ChainType
<1>3. raceStatus[nextRaceId] = "None"
  BY <1>1 DEF ChainSound, ChainType
<1>4. ChainType'
  BY <1>1, NamesAssumption DEF ChainType, Chain!OpenRace, RaceStatus
<1>5. ChainSound'
  <2>1. SUFFICES ASSUME NEW q \in RaceId
                 PROVE  /\ q < nextRaceId' <=> raceStatus'[q] # "None"
                        /\ (\A s \in Slot : entrant[q][s] # NoWallet) =>
                              raceStatus'[q] \in AtLeast("joined")
    BY <1>1 DEF ChainSound
  <2>2. q < nextRaceId' <=> q < nextRaceId \/ q = nextRaceId
    BY <1>1 DEF RaceId, ChainType
  <2>3. q = nextRaceId => ~ \A s \in Slot : entrant[q][s] # NoWallet
    BY <1>3 DEF ChainSound, AtLeast
  <2>4. QED BY <1>1, <1>2, <2>2, <2>3 DEF ChainSound
<1>6. ChainGrows
  <2>1. nextRaceId' >= nextRaceId BY <1>1 DEF ChainType
  <2>2. \A q \in RaceId : GoesOnTo(raceStatus[q], raceStatus'[q])
    BY <1>2, <1>3, GoesOnSame, GoesOnSteps
  <2>3. QED BY <1>1, <2>1, <2>2 DEF ChainGrows
<1>7. QED BY <1>1, <1>2, <1>4, <1>5, <1>6 DEF Done, MarkOps

LEMMA JoinDone ==
  ASSUME ChainType, ChainSound, NEW call \in Call, call.op = "join", call.race \in RaceId,
         call.wallet # NoWallet, Chain!Join(call.race, call.slot, call.wallet)
  PROVE  Done(call)
<1> DEFINE r == call.race
           s == call.slot
           w == call.wallet
<1>1. s \in Slot /\ w \in Wallets BY DEF Call
<1>2. /\ raceStatus[r] \in {"Created", "Joined"}
      /\ entrant[r][s] = NoWallet
      /\ entrant' = [entrant EXCEPT ![r][s] = w]
      /\ raceStatus' = [raceStatus EXCEPT ![r] =
                          IF entrant[r][1 - s] # NoWallet THEN "Joined" ELSE raceStatus[r]]
      /\ UNCHANGED <<winnerSlot, nextRaceId>>
  BY DEF Chain!Join
<1>3. /\ entrant'[r][s] = w
      /\ \A t \in Slot : t # s => entrant'[r][t] = entrant[r][t]
      /\ \A q \in RaceId : q # r => entrant'[q] = entrant[q]
  BY <1>1, <1>2 DEF ChainType
<1>4. /\ raceStatus'[r] = IF entrant[r][1 - s] # NoWallet THEN "Joined" ELSE raceStatus[r]
      /\ \A q \in RaceId : q # r => raceStatus'[q] = raceStatus[q]
  BY <1>2 DEF ChainType
<1>5. ChainType'
  BY <1>1, <1>2 DEF ChainType, RaceStatus
<1>6. GoesOnTo(raceStatus[r], raceStatus'[r])
  BY <1>2, <1>4, GoesOnSame, GoesOnSteps
<1>7. ChainSound'
  <2>1. SUFFICES ASSUME NEW q \in RaceId
                 PROVE  /\ q < nextRaceId <=> raceStatus'[q] # "None"
                        /\ (\A t \in Slot : entrant'[q][t] # NoWallet) =>
                              raceStatus'[q] \in AtLeast("joined")
    BY <1>2 DEF ChainSound
  <2>2. CASE q # r BY <2>2, <1>3, <1>4 DEF ChainSound
  <2>3. CASE q = r
    <3>1. (\A t \in Slot : entrant'[r][t] # NoWallet) => raceStatus'[r] = "Joined"
      BY <1>1, <1>3, <1>4, SlotFacts
    <3>2. raceStatus'[r] \in {"Created", "Joined"} BY <1>2, <1>4
    <3>3. raceStatus[r] # "None" BY <1>2
    <3>4. QED BY <2>3, <3>1, <3>2, <3>3 DEF ChainSound, AtLeast
  <2>4. QED BY <2>2, <2>3
<1>8. ChainGrows
  <2>1. nextRaceId' >= nextRaceId BY <1>2 DEF ChainType
  <2>2. \A q \in RaceId : GoesOnTo(raceStatus[q], raceStatus'[q])
    BY <1>4, <1>6, GoesOnSame
  <2>3. QED BY <1>2, <1>3, <2>1, <2>2 DEF ChainGrows
<1>9. \A q \in RaceId : raceStatus'[q] \in {"Finished", "Settled"} =>
        raceStatus[q] \in {"Finished", "Settled"}
  BY <1>2, <1>4
<1>10. QED BY <1>3, <1>5, <1>7, <1>8, <1>9 DEF Done, MarkOps

(* The other transactions move one race from a status to the next. *)
LEMMA MarkDone ==
  ASSUME ChainType, ChainSound, NEW call \in Call, call.op \in MarkOps, call.race \in RaceId,
         call.op = "finish" => call.winner \in Slot, Transaction(call)
  PROVE  Done(call)
<1> DEFINE r == call.race
<1>1. ASSUME NEW to \in RaceStatus, to # "None", raceStatus[r] # "None",
             GoesOnTo(raceStatus[r], to), Chain!Advance(r, raceStatus[r], to),
             to \in AtLeast(Marks[call.op]),
             to \in {"Finished", "Settled"} =>
               \/ raceStatus[r] \in {"Finished", "Settled"}
               \/ call.op = "finish" /\ raceStatus[r] = "Started",
             \/ UNCHANGED winnerSlot /\ call.op # "finish"
             \/ raceStatus[r] = "Started" /\ call.winner \in Slot /\
                winnerSlot' = [winnerSlot EXCEPT ![r] = call.winner]
      PROVE  Done(call)
  <2>1. raceStatus' = [raceStatus EXCEPT ![r] = to] /\ UNCHANGED <<entrant, nextRaceId>>
    BY <1>1 DEF Chain!Advance
  <2>2. /\ winnerSlot' \in [RaceId -> Slot]
        /\ \A q \in RaceId : winnerSlot'[q] = winnerSlot[q] \/ (q = r /\ raceStatus[r] = "Started")
        /\ call.op = "finish" => winnerSlot'[r] = call.winner
    BY <1>1 DEF ChainType
  <2>3. /\ ChainType' /\ ChainSound' /\ ChainGrows /\ raceStatus'[r] = to
        /\ \A q \in RaceId : q # r => raceStatus'[q] = raceStatus[q]
    BY <1>1, <2>1, <2>2, AdvanceGrows
  <2>4. call.op # "open" /\ call.op # "join" BY DEF MarkOps
  <2>5. \A q \in RaceId : raceStatus'[q] \in {"Finished", "Settled"} =>
          \/ raceStatus[q] \in {"Finished", "Settled"}
          \/ /\ call.op = "finish" /\ q = call.race
             /\ raceStatus[q] = "Started" /\ winnerSlot'[q] = call.winner
    BY <1>1, <2>2, <2>3
  <2>6. QED BY <1>1, <2>1, <2>3, <2>4, <2>5 DEF Done
<1>2. CASE call.op = "lock"
  <2>1. Chain!Lock(r) BY <1>2 DEF Transaction
  <2>2. Marks[call.op] = "locked" BY <1>2 DEF Marks
  <2>3. QED BY <1>1, <1>2, <2>1, <2>2, GoesOnSteps DEF Chain!Lock, Chain!Advance, RaceStatus, AtLeast
<1>3. CASE call.op = "start"
  <2>1. Chain!Start(r) BY <1>3 DEF Transaction
  <2>2. Marks[call.op] = "started" BY <1>3 DEF Marks
  <2>3. QED BY <1>1, <1>3, <2>1, <2>2, GoesOnSteps DEF Chain!Start, Chain!Advance, RaceStatus, AtLeast
<1>4. CASE call.op = "finish"
  <2>1. Chain!Finish(r, call.winner) BY <1>4 DEF Transaction
  <2>2. Marks[call.op] = "finished" BY <1>4 DEF Marks
  <2>3. QED BY <1>1, <1>4, <2>1, <2>2, GoesOnSteps DEF Chain!Finish, Chain!Advance, RaceStatus, AtLeast
<1>5. CASE call.op = "settle"
  <2>1. Chain!Settle(r) BY <1>5 DEF Transaction
  <2>2. Marks[call.op] = "settled" BY <1>5 DEF Marks
  <2>3. QED BY <1>1, <1>5, <2>1, <2>2, GoesOnSteps DEF Chain!Settle, Chain!Advance, RaceStatus, AtLeast
<1>6. CASE call.op = "cancel"
  <2>1. Chain!Cancel(r) BY <1>6 DEF Transaction
  <2>2. Marks[call.op] = "canceled" BY <1>6 DEF Marks
  <2>3. raceStatus[r] \in {"Created", "Joined", "Locked", "Started"}
    BY <2>1 DEF Chain!Cancel, ChainType, RaceStatus
  <2>4. GoesOnTo(raceStatus[r], "Canceled") BY <2>3, GoesOnSteps
  <2>5. "Canceled" \in AtLeast("canceled") BY DEF AtLeast
  <2>6. QED BY <1>1, <1>6, <2>1, <2>2, <2>3, <2>4, <2>5 DEF Chain!Cancel, RaceStatus
<1>7. QED BY <1>2, <1>3, <1>4, <1>5, <1>6 DEF MarkOps
LEMMA CallTyped ==
  ASSUME TypeOK, NEW c \in CallIds, calls[c] # Idle
  PROVE  calls[c] \in Call /\ calls[c].round \in RoundIds
  BY DEF TypeOK, Call

LEMMA TransactionDone ==
  ASSUME IInv, NEW c \in CallIds, Sent(c), Transaction(calls[c])
  PROVE  Done(calls[c])
<1> DEFINE call == calls[c]
<1>1. call \in Call /\ call.round \in RoundIds /\ calls[c] # Idle
  BY CallTyped DEF IInv, Sent
<1>2. CallSound(call) BY <1>1 DEF IInv, CallsSound
<1>3. ChainType BY DEF IInv, TypeOK, ChainType, RaceStatus
<1>4. ChainSound BY DEF IInv
<1>5. call.op \in MarkOps \cup {"join"} => call.race \in RaceId
  BY <1>1, <1>2 DEF CallSound, SnapshotStands, Call
<1>6. call.op = "finish" => call.winner \in Slot
  BY <1>1, <1>2 DEF CallSound, SnapshotStands, Call
<1>7. call.op = "join" => call.wallet # NoWallet
  BY <1>2 DEF CallSound, SnapshotStands
<1> HIDE DEF call
<1>8. CASE call.op = "open"
  BY <1>1, <1>3, <1>4, <1>8, OpenDone DEF Transaction, call
<1>9. CASE call.op = "join"
  BY <1>1, <1>3, <1>4, <1>5, <1>7, <1>9, JoinDone DEF Transaction, call
<1>10. CASE call.op \in MarkOps
  BY <1>1, <1>3, <1>4, <1>5, <1>6, <1>10, MarkDone DEF call
<1>11. call.op \in {"open", "join"} \cup MarkOps
  BY DEF Transaction, MarkOps, call
<1>12. QED BY <1>8, <1>9, <1>10, <1>11 DEF call
-----------------------------------------------------------------------------
(* The inductive invariant.                                                *)

LEMMA InitSound == Init => IInv
<1> SUFFICES ASSUME Init PROVE IInv OBVIOUS
<1>1. /\ raceStatus = [r \in RaceId |-> "None"]
      /\ entrant = [r \in RaceId |-> [s \in Slot |-> NoWallet]]
      /\ winnerSlot = [r \in RaceId |-> 0]
      /\ nextRaceId = 0
  BY SlotFacts DEF Init, Chain!Init, Chain!RaceId, RaceId
<1>2. \A x \in RoundIds : round[x] = NoRound /\ disk[x] = NoRound BY DEF Init
<1>3. TypeOK
  BY <1>1, <1>2, NamesAssumption, SlotFacts DEF Init, TypeOK
<1>4. RoundsSound BY <1>2 DEF RoundsSound, Known
<1>5. CallsSound BY DEF Init, CallsSound
<1>6. ChainSound BY <1>1, SlotFacts DEF ChainSound, RaceId
<1>7. StakesKnown BY <1>1, SlotFacts DEF StakesKnown
<1>8. ResultKept BY <1>1 DEF ResultKept
<1>9. QED BY <1>3, <1>4, <1>5, <1>6, <1>7, <1>8 DEF IInv

(* The round in memory and the one on disk differ at most in their status. *)
LEMMA DiskFollows ==
  ASSUME IInv, NEW x \in RoundIds, Known(x)
  PROVE  /\ round[x] \in Round /\ disk[x] \in Round
         /\ disk[x].chainRaceId = round[x].chainRaceId
         /\ disk[x].chainStatus = round[x].chainStatus
         /\ disk[x].winner = round[x].winner
         /\ disk[x].drivers = round[x].drivers
         /\ disk[x].status # "ready" => disk[x] = round[x]
         /\ disk[x].status # round[x].status =>
              disk[x].status = "ready" /\ round[x].status = "locked"
<1>1. round[x] \in Round /\ disk[x] \in Round BY DEF IInv, TypeOK, Known
<1>2. OnDisk(x) BY DEF IInv, RoundsSound
<1>3. QED BY <1>1, <1>2 DEF OnDisk, WithStatus, Round

(* A call goes on relying on its round when the round grows, and on the    *)
(* chain when that does.                                                   *)
SameClaims(old, new) ==
  /\ old.chainRaceId # NoRace => new.chainRaceId = old.chainRaceId
  /\ old.winner # NoWinner => new.winner = old.winner
  /\ \A s \in Slot : old.drivers[s].wallet # NoWallet =>
       new.drivers[s].wallet = old.drivers[s].wallet

LEMMA CallKept ==
  ASSUME IInv, NEW c \in CallIds, calls[c] # Idle, calls'[c] = calls[c],
         \A x \in RoundIds : Known(x) => round'[x] # NoRound /\ SameClaims(round[x], round'[x]),
         ChainGrows, nextRaceId' \in Nat
  PROVE  CallSound(calls[c])'
<1> DEFINE call == calls[c]
           x == call.round
<1>1. call \in Call /\ x \in RoundIds BY CallTyped DEF IInv
<1>2. CallSound(call) BY DEF IInv, CallsSound
<1>3. /\ round'[x] # NoRound
      /\ SameClaims(round[x], round'[x])
  BY <1>1, <1>2 DEF CallSound
<1>4. call' = call OBVIOUS
<1>5. /\ call.op \in MarkOps \cup {"join"} =>
           call.race \in RaceId /\ call.race # NoRace /\ call.race = round[x].chainRaceId
      /\ call.op = "join" => /\ call.wallet # NoWallet
                             /\ call.wallet = round[x].drivers[call.slot].wallet
      /\ call.op = "finish" => call.winner # NoWinner /\ call.winner = round[x].winner
      /\ call.slot \in Slot
  BY <1>1, <1>2 DEF CallSound, SnapshotStands, Call
<1>6. /\ call.op \in MarkOps \cup {"join"} => call.race = round'[x].chainRaceId
      /\ call.op = "join" => call.wallet = round'[x].drivers[call.slot].wallet
      /\ call.op = "finish" => call.winner = round'[x].winner
  BY <1>3, <1>5 DEF SameClaims
<1>7. nextRaceId' >= nextRaceId /\ nextRaceId \in Nat
  BY NamesAssumption DEF ChainGrows, IInv, TypeOK
<1>8. call.phase = "done" =>
        /\ call.op = "open" => call.race < nextRaceId'
        /\ call.op = "join" => entrant'[call.race][call.slot] = call.wallet
        /\ call.op \in MarkOps => raceStatus'[call.race] \in AtLeast(Marks[call.op])
  <2>1. SUFFICES ASSUME call.phase = "done"
                 PROVE  /\ call.op = "open" => call.race < nextRaceId'
                        /\ call.op = "join" => entrant'[call.race][call.slot] = call.wallet
                        /\ call.op \in MarkOps => raceStatus'[call.race] \in AtLeast(Marks[call.op])
    OBVIOUS
  <2>2. AnswerIsTrue(call) BY <1>2 DEF CallSound
  <2>3. call.op = "open" => call.race < nextRaceId'
    <3>1. call.op = "open" => call.race < nextRaceId /\ call.race \in RaceId
      BY <1>2, <2>1, <2>2 DEF AnswerIsTrue, CallSound
    <3>2. QED BY <3>1, <1>7 DEF RaceId
  <2>4. call.op = "join" => entrant'[call.race][call.slot] = call.wallet
    BY <1>5, <2>1, <2>2 DEF AnswerIsTrue, ChainGrows
  <2>5. call.op \in MarkOps => Marks[call.op] \in ChainStatus \ {"not-opened"}
    BY DEF MarkOps, Marks, ChainStatus
  <2>6. call.op \in MarkOps => raceStatus'[call.race] \in AtLeast(Marks[call.op])
    BY <1>5, <2>1, <2>2, <2>5 DEF AnswerIsTrue, ChainGrows, GoesOnTo
  <2>7. QED BY <2>3, <2>4, <2>6
<1>9. call.op = "open" /\ call.phase # "reading" => call.race \in RaceId /\ call.race <= nextRaceId'
  <2>1. call.op = "open" /\ call.phase # "reading" => call.race \in RaceId /\ call.race <= nextRaceId
    BY <1>2 DEF CallSound
  <2>2. QED BY <2>1, <1>7 DEF RaceId
<1>10. /\ call.phase = "reading" => call.op = "open"
       /\ call.op \in CaptureOps => call.phase = "done" /\ call.winner # NoWinner
  BY <1>2 DEF CallSound
<1>11. SnapshotStands(calls[c])'
  BY <1>4, <1>5, <1>6 DEF SnapshotStands
<1>12. AnswerIsTrue(calls[c])'
  BY <1>4, <1>8 DEF AnswerIsTrue
<1>13. QED BY <1>3, <1>4, <1>9, <1>10, <1>11, <1>12 DEF CallSound, Known
LEMMA CallsKept ==
  ASSUME IInv, ChainGrows, nextRaceId' \in Nat,
         \A x \in RoundIds : Known(x) => round'[x] # NoRound /\ SameClaims(round[x], round'[x]),
         \A c \in CallIds : calls'[c] \in {Idle, calls[c]} \/ CallSound(calls[c])'
  PROVE  CallsSound'
<1>1. SUFFICES ASSUME NEW c \in CallIds, calls'[c] # Idle
               PROVE  CallSound(calls[c])'
  BY DEF CallsSound
<1>2. CASE CallSound(calls[c])' BY <1>2
<1>3. CASE calls'[c] = calls[c] BY <1>1, <1>3, CallKept
<1>4. QED BY <1>1, <1>2, <1>3

LEMMA ChainSame ==
  ASSUME IInv, UNCHANGED chainVars
  PROVE  /\ ChainGrows /\ nextRaceId' \in Nat
         /\ ChainSound'
<1>1. nextRaceId' = nextRaceId /\ nextRaceId \in Nat
  BY NamesAssumption DEF IInv, TypeOK, chainVars
<1>2. ChainGrows
  BY <1>1, GoesOnSame DEF chainVars, ChainGrows
<1>3. ChainSound' BY DEF chainVars, ChainSound, IInv
<1>4. QED BY <1>1, <1>2, <1>3

(* A round is changed in memory and on disk, by a handler that may then    *)
(* end or make its next call.                                              *)
LEMMA SaveKeeps ==
  ASSUME IInv, NEW x \in RoundIds, Known(x), NEW new, Grows(round[x], new), Justified(new),
         Save(x, new), UNCHANGED <<authorizing, chainVars>>,
         calls' \in [CallIds -> Call \cup {Idle}],
         \A c \in CallIds : calls'[c] \in {Idle, calls[c]} \/ CallSound(calls[c])'
  PROVE  IInv'
<1>1. new \in Round /\ new # NoRound BY FreshAssumption DEF Grows
<1>2. /\ round'[x] = new /\ disk'[x] = new
      /\ \A y \in RoundIds : y # x => round'[y] = round[y] /\ disk'[y] = disk[y]
  BY DEF IInv, TypeOK, Save
<1>3. TypeOK'
  BY <1>1, <1>2 DEF IInv, TypeOK, Save, chainVars, Known
<1>4. RoundsSound'
  <2>1. SUFFICES ASSUME NEW y \in RoundIds, round'[y] # NoRound
                 PROVE  Shaped(round'[y]) /\ Justified(round[y])' /\ OnDisk(y)'
    BY DEF RoundsSound, Known, Shaped
  <2>2. CASE y = x
    <3>1. Shaped(round'[y]) /\ OnDisk(y)' BY <2>2, <1>2 DEF Grows, OnDisk
    <3>2. Justified(round[y])'
      <4>1. round'[y] = new /\ UNCHANGED <<raceStatus, entrant>> BY <2>2, <1>2 DEF chainVars
      <4>2. QED BY <4>1 DEF Justified, JustifiedBy, Detached
    <3>3. QED BY <3>1, <3>2
  <2>3. CASE y # x
    <3>1. Shaped(round[y]) /\ Justified(round[y]) /\ OnDisk(y)
      BY <2>1, <2>3, <1>2 DEF IInv, RoundsSound, Known
    <3>2. QED BY <2>3, <3>1, <1>2 DEF Justified, JustifiedBy, Detached, OnDisk, chainVars
  <2>4. QED BY <2>2, <2>3
<1>5. CallsSound'
  <2>1. \A y \in RoundIds : Known(y) => round'[y] # NoRound /\ SameClaims(round[y], round'[y])
    BY <1>1, <1>2 DEF Known, SameClaims, Grows
  <2>2. ChainGrows /\ nextRaceId' \in Nat BY ChainSame
  <2>3. QED BY <2>1, <2>2, CallsKept
<1>6. ChainSound' BY ChainSame
<1>7. StakesKnown'
  <2>1. SUFFICES ASSUME NEW r \in RaceId, NEW s \in Slot, entrant[r][s] # NoWallet
                 PROVE  \E y \in RoundIds : disk'[y] # NoRound /\ disk'[y].chainRaceId = r
    BY DEF StakesKnown, chainVars
  <2>2. PICK y \in RoundIds : disk[y] # NoRound /\ disk[y].chainRaceId = r
    BY <2>1 DEF IInv, StakesKnown
  <2>3. CASE y # x BY <2>2, <2>3, <1>2
  <2>4. CASE y = x
    <3>1. round[x].chainRaceId = r /\ r # NoRace
      BY <2>2, <2>4, DiskFollows, NamesAssumption DEF RaceId
    <3>2. QED BY <2>4, <3>1, <1>1, <1>2 DEF Grows
  <2>5. QED BY <2>3, <2>4
<1>8. ResultKept'
  <2>1. SUFFICES ASSUME NEW r \in RaceId, raceStatus[r] \in {"Finished", "Settled"}
                 PROVE  \E y \in RoundIds :
                          /\ disk'[y] # NoRound
                          /\ disk'[y].chainRaceId = r
                          /\ disk'[y].winner = winnerSlot[r]
                          /\ disk'[y].status \in {"finished", "settled"}
    BY DEF ResultKept, chainVars
  <2>2. PICK y \in RoundIds : /\ disk[y] # NoRound
                              /\ disk[y].chainRaceId = r
                              /\ disk[y].winner = winnerSlot[r]
                              /\ disk[y].status \in {"finished", "settled"}
    BY <2>1 DEF IInv, ResultKept
  <2>3. CASE y # x BY <2>2, <2>3, <1>2
  <2>4. CASE y = x
    <3>1. round[x].chainRaceId = r /\ r # NoRace /\ round[x].winner = winnerSlot[r]
      BY <2>2, <2>4, DiskFollows, NamesAssumption DEF RaceId
    <3>2. winnerSlot[r] # NoWinner
      BY NamesAssumption, SlotFacts DEF IInv, TypeOK
    <3>3. /\ new.chainRaceId = r /\ new.winner = winnerSlot[r]
          /\ new.status \in {"finished", "settled", "canceled"}
      BY <3>1, <3>2 DEF Grows, Shaped
    <3>4. new.status # "canceled"
      BY <2>1, <3>1, <3>2, <3>3 DEF Justified, JustifiedBy
    <3>5. QED BY <2>4, <3>3, <3>4, <1>1, <1>2
  <2>5. QED BY <2>3, <2>4
<1>9. QED BY <1>3, <1>4, <1>5, <1>6, <1>7, <1>8 DEF IInv

LEMMA CreateKeeps ==
  ASSUME IInv, NEW x \in RoundIds, NEW wallet \in Wallets \cup {NoWallet}, Create(x, wallet)
  PROVE  IInv'
<1> DEFINE new == createRound(wallet)
<1>1. /\ new \in Round /\ Shaped(new) /\ new.chainRaceId = NoRace /\ Detached(new)
  BY CreateShaped
<1>2. new # NoRound BY <1>1, FreshAssumption
<1>3. round[x] = NoRound /\ disk[x] = NoRound
  BY DEF Create, Known, IInv, TypeOK
<1> HIDE DEF new
<1>4. /\ round'[x] = new /\ disk'[x] = new
      /\ \A y \in RoundIds : y # x => round'[y] = round[y] /\ disk'[y] = disk[y]
      /\ UNCHANGED <<authorizing, calls, chainVars>>
      /\ round' = [round EXCEPT ![x] = new] /\ disk' = [disk EXCEPT ![x] = new]
  BY DEF IInv, TypeOK, Create, Save, new
<1>5. TypeOK'
  BY <1>1, <1>2, <1>4 DEF IInv, TypeOK, chainVars, Known
<1>6. RoundsSound'
  <2>1. SUFFICES ASSUME NEW y \in RoundIds, round'[y] # NoRound
                 PROVE  Shaped(round'[y]) /\ Justified(round[y])' /\ OnDisk(y)'
    BY DEF RoundsSound, Known, Shaped
  <2>2. CASE y = x
    BY <2>2, <1>1, <1>4 DEF Justified, JustifiedBy, Detached, OnDisk
  <2>3. CASE y # x
    <3>1. Shaped(round[y]) /\ Justified(round[y]) /\ OnDisk(y)
      BY <2>1, <2>3, <1>4 DEF IInv, RoundsSound, Known
    <3>2. QED BY <2>3, <3>1, <1>4 DEF Justified, JustifiedBy, Detached, OnDisk, chainVars
  <2>4. QED BY <2>2, <2>3
<1>7. CallsSound'
  <2>1. \A y \in RoundIds : Known(y) => round'[y] # NoRound /\ SameClaims(round[y], round'[y])
    BY <1>3, <1>4 DEF Known, SameClaims
  <2>2. ChainGrows /\ nextRaceId' \in Nat BY <1>4, ChainSame
  <2>3. QED BY <2>1, <2>2, <1>4, CallsKept
<1>8. ChainSound' BY <1>4, ChainSame
<1>9. StakesKnown'
  BY <1>3, <1>4 DEF StakesKnown, IInv, chainVars
<1>10. ResultKept'
  BY <1>3, <1>4 DEF ResultKept, IInv, chainVars
<1>11. QED BY <1>5, <1>6, <1>7, <1>8, <1>9, <1>10 DEF IInv
LEMMA BeginLockKeeps ==
  ASSUME IInv, NEW x \in RoundIds, BeginLock(x)
  PROVE  IInv'
<1> DEFINE rd == round[x]
           new == [rd EXCEPT !.status = "locked"]
<1>1. /\ rd \in Round /\ Known(x) /\ rd.status = "ready" /\ CanLockRound(rd)
      /\ Shaped(rd) /\ Justified(rd)
  BY DEF BeginLock, CanLockRound, IInv, TypeOK, Known, RoundsSound
<1>2. new = WithStatus(rd, "locked") BY DEF WithStatus
<1>3. GrowsLocally(rd, new)
  BY <1>1, <1>2, StatusGrows DEF RoundStatus
<1>4. Justified(new) BY <1>1, <1>3, LocalJustified
<1>5. new \in Round /\ Shaped(new) /\ new # NoRound
  BY <1>3, FreshAssumption DEF GrowsLocally, Grows
<1> HIDE DEF new
<1>6. /\ round'[x] = new
      /\ \A y \in RoundIds : y # x => round'[y] = round[y]
      /\ authorizing' = authorizing \cup {x}
      /\ UNCHANGED <<disk, calls, chainVars>>
      /\ round' = [round EXCEPT ![x] = new]
  BY DEF BeginLock, IInv, TypeOK, new
<1>7. TypeOK'
  BY <1>1, <1>5, <1>6 DEF IInv, TypeOK, chainVars, Known
<1>8. RoundsSound'
  <2>1. SUFFICES ASSUME NEW y \in RoundIds, round'[y] # NoRound
                 PROVE  Shaped(round'[y]) /\ Justified(round[y])' /\ OnDisk(y)'
    BY DEF RoundsSound, Known, Shaped
  <2>2. CASE y = x
    <3>1. disk[x] = rd
      BY <1>1, DiskFollows DEF Round
    <3>2. OnDisk(x)' BY <1>1, <1>2, <1>6, <3>1 DEF OnDisk
    <3>3. Justified(round[x])' BY <1>4, <1>6 DEF Justified, JustifiedBy, Detached, chainVars
    <3>4. QED BY <2>2, <1>5, <1>6, <3>2, <3>3
  <2>3. CASE y # x
    <3>1. Shaped(round[y]) /\ Justified(round[y]) /\ OnDisk(y)
      BY <2>1, <2>3, <1>6 DEF IInv, RoundsSound, Known
    <3>2. QED BY <2>3, <3>1, <1>6 DEF Justified, JustifiedBy, Detached, OnDisk, chainVars
  <2>4. QED BY <2>2, <2>3
<1>9. CallsSound'
  <2>1. \A y \in RoundIds : Known(y) => round'[y] # NoRound /\ SameClaims(round[y], round'[y])
    BY <1>3, <1>5, <1>6 DEF Known, SameClaims, GrowsLocally, Grows
  <2>2. ChainGrows /\ nextRaceId' \in Nat BY <1>6, ChainSame
  <2>3. QED BY <2>1, <2>2, <1>6, CallsKept
<1>10. ChainSound' BY <1>6, ChainSame
<1>11. StakesKnown' /\ ResultKept'
  BY <1>6 DEF StakesKnown, ResultKept, IInv, chainVars
<1>12. QED BY <1>7, <1>8, <1>9, <1>10, <1>11 DEF IInv

LEMMA EndLockKeeps ==
  ASSUME IInv, NEW x \in RoundIds, EndLock(x)
  PROVE  IInv'
<1>1. /\ Known(x) /\ round[x] \in Round /\ round[x] # NoRound
      /\ UNCHANGED <<round, calls, chainVars>>
      /\ disk' \in {disk, [disk EXCEPT ![x] = round[x]]}
      /\ authorizing' = authorizing \ {x}
  BY DEF EndLock, IInv, TypeOK, Known
<1>2. CASE disk' = disk
  <2>1. TypeOK' BY <1>1, <1>2 DEF IInv, TypeOK, chainVars, Known
  <2>2. RoundsSound' /\ CallsSound' /\ ChainSound' /\ StakesKnown' /\ ResultKept'
    <3>1. ChainSound' BY <1>1, ChainSame
    <3>2. RoundsSound'
      BY <1>1, <1>2 DEF RoundsSound, Known, Shaped, Justified, JustifiedBy, Detached,
         OnDisk, IInv, chainVars
    <3>3. CallsSound'
      BY <1>1, ChainSame, CallsKept DEF SameClaims, Known
    <3>4. StakesKnown' /\ ResultKept'
      BY <1>1, <1>2 DEF StakesKnown, ResultKept, IInv, chainVars
    <3>5. QED BY <3>1, <3>2, <3>3, <3>4
  <2>3. QED BY <2>1, <2>2 DEF IInv
<1>3. CASE disk' = [disk EXCEPT ![x] = round[x]]
  <2>1. /\ disk'[x] = round[x] /\ \A y \in RoundIds : y # x => disk'[y] = disk[y]
    BY <1>3 DEF IInv, TypeOK
  <2>2. TypeOK' BY <1>1, <1>3, <2>1 DEF IInv, TypeOK, chainVars, Known
  <2>3. RoundsSound'
    BY <1>1, <2>1 DEF RoundsSound, Known, Shaped, Justified, JustifiedBy, Detached,
       OnDisk, IInv, chainVars
  <2>4. CallsSound'
    BY <1>1, ChainSame, CallsKept DEF SameClaims, Known
  <2>5. ChainSound' BY <1>1, ChainSame
  <2>6. /\ disk[x] # NoRound
        /\ disk'[x].chainRaceId = disk[x].chainRaceId
        /\ disk'[x].winner = disk[x].winner
        /\ disk[x].status \in {"finished", "settled"} => disk'[x].status = disk[x].status
    BY <1>1, <2>1, DiskFollows, FreshAssumption
  <2>7. StakesKnown'
    BY <1>1, <2>1, <2>6 DEF StakesKnown, IInv, chainVars
  <2>8. ResultKept'
    BY <1>1, <2>1, <2>6 DEF ResultKept, IInv, chainVars
  <2>9. QED BY <2>2, <2>3, <2>4, <2>5, <2>7, <2>8 DEF IInv
<1>4. QED BY <1>1, <1>2, <1>3

(* A crash loses at most the lock of a round, and the calls whose          *)
(* transaction had not been sent.                                          *)
LEMMA CrashKeeps ==
  ASSUME IInv, Crash
  PROVE  IInv'
<1>1. /\ round' = disk /\ authorizing' = {} /\ UNCHANGED <<disk, chainVars>>
      /\ calls' = [c \in CallIds |-> IF Sent(c) THEN [calls[c] EXCEPT !.waiting = FALSE] ELSE Idle]
  BY DEF Crash
<1>2. \A c \in CallIds : Sent(c) =>
        /\ calls'[c] = [calls[c] EXCEPT !.waiting = FALSE]
        /\ calls'[c] \in Call /\ calls[c] \in Call /\ calls[c] # Idle /\ calls[c].phase = "sent"
  <2>1. SUFFICES ASSUME NEW c \in CallIds, Sent(c)
                 PROVE  /\ calls'[c] = [calls[c] EXCEPT !.waiting = FALSE]
                        /\ calls'[c] \in Call /\ calls[c] \in Call
                        /\ calls[c] # Idle /\ calls[c].phase = "sent"
    OBVIOUS
  <2>2. calls[c] # Idle /\ calls[c].phase = "sent" BY <2>1 DEF Sent
  <2>3. calls[c] \in Call BY <2>2, CallTyped DEF IInv
  <2>4. calls'[c] = [calls[c] EXCEPT !.waiting = FALSE] BY <1>1, <2>1
  <2>5. calls'[c] \in Call BY <2>3, <2>4 DEF Call
  <2>6. QED BY <2>2, <2>3, <2>4, <2>5
<1>3. calls' \in [CallIds -> Call \cup {Idle}]
  BY <1>1, <1>2
<1>4. TypeOK'
  BY <1>1, <1>3 DEF IInv, TypeOK, chainVars, Known
<1>5. RoundsSound'
  <2>1. SUFFICES ASSUME NEW y \in RoundIds, disk[y] # NoRound
                 PROVE  Shaped(disk[y]) /\ Justified(disk[y]) /\ disk'[y] = round'[y]
    BY <1>1 DEF RoundsSound, Known, Shaped, Justified, JustifiedBy, Detached, OnDisk, chainVars
  <2>2. Known(y) BY <2>1 DEF IInv, TypeOK, Known
  <2>3. Shaped(round[y]) /\ Justified(round[y])
    BY <2>2 DEF IInv, RoundsSound
  <2>4. /\ disk[y].chainRaceId = round[y].chainRaceId
        /\ disk[y].chainStatus = round[y].chainStatus
        /\ disk[y].winner = round[y].winner
        /\ disk[y].drivers = round[y].drivers
        /\ \/ disk[y].status = round[y].status
           \/ disk[y].status = "ready" /\ round[y].status = "locked"
    BY <2>2, DiskFollows
  <2>5. Shaped(disk[y]) BY <2>3, <2>4 DEF Shaped
  <2>6. Justified(disk[y]) BY <2>3, <2>4 DEF Justified, JustifiedBy, Detached
  <2>7. QED BY <2>5, <2>6, <1>1
<1>6. CallsSound'
  <2>1. SUFFICES ASSUME NEW c \in CallIds, Sent(c)
                 PROVE  CallSound(calls[c])'
    BY <1>1 DEF CallsSound
  <2>2. /\ calls[c].round \in RoundIds /\ calls[c].race \in RaceId \cup {NoRace}
        /\ calls'[c].op = calls[c].op /\ calls'[c].phase = "sent"
        /\ calls'[c].round = calls[c].round /\ calls'[c].race = calls[c].race
        /\ calls'[c].slot = calls[c].slot /\ calls'[c].wallet = calls[c].wallet
        /\ calls'[c].winner = calls[c].winner
    <3>1. calls'[c] = [calls[c] EXCEPT !.waiting = FALSE] BY <2>1, <1>2
    <3>2. calls[c] \in Call /\ calls[c].phase = "sent" BY <2>1, <1>2
    <3>3. QED BY <3>1, <3>2 DEF Call
  <2>3. CallSound(calls[c]) BY <2>1, <1>2 DEF IInv, CallsSound
  <2>4. Known(calls[c].round) BY <2>3 DEF CallSound
  <2>5. /\ disk[calls[c].round] # NoRound
        /\ disk[calls[c].round].chainRaceId = round[calls[c].round].chainRaceId
        /\ disk[calls[c].round].winner = round[calls[c].round].winner
        /\ disk[calls[c].round].drivers = round[calls[c].round].drivers
    BY <2>2, <2>4, DiskFollows, FreshAssumption
  <2>6. SnapshotStands(calls[c])'
    BY <2>2, <2>3, <2>5, <1>1 DEF SnapshotStands, CallSound
  <2>7. AnswerIsTrue(calls[c])' BY <2>2 DEF AnswerIsTrue
  <2>8. nextRaceId' = nextRaceId BY <1>1 DEF chainVars
  <2>9. calls[c].phase = "sent" BY <2>1, <1>2
  <2>10. QED BY <2>2, <2>3, <2>5, <2>6, <2>7, <2>8, <2>9, <1>1 DEF CallSound, Known
<1>7. ChainSound' BY <1>1, ChainSame
<1>8. StakesKnown' /\ ResultKept'
  BY <1>1 DEF StakesKnown, ResultKept, IInv, chainVars
<1>9. QED BY <1>4, <1>5, <1>6, <1>7, <1>8 DEF IInv

(* A step of a handler that changes no round. *)
LEMMA CallsOnlyKeeps ==
  ASSUME IInv, UNCHANGED <<roomVars, chainVars>>,
         calls' \in [CallIds -> Call \cup {Idle}],
         \A c \in CallIds : calls'[c] \in {Idle, calls[c]} \/ CallSound(calls[c])'
  PROVE  IInv'
<1>1. UNCHANGED <<round, disk, authorizing, chainVars>> BY DEF roomVars
<1>2. TypeOK' BY <1>1 DEF IInv, TypeOK, chainVars, Known
<1>3. ChainSound' BY <1>1, ChainSame
<1>4. RoundsSound'
  BY <1>1 DEF RoundsSound, Known, Shaped, Justified, JustifiedBy, Detached, OnDisk, IInv, chainVars
<1>5. CallsSound'
  BY <1>1, ChainSame, CallsKept DEF SameClaims, Known
<1>6. StakesKnown' /\ ResultKept'
  BY <1>1 DEF StakesKnown, ResultKept, IInv, chainVars
<1>7. QED BY <1>2, <1>3, <1>4, <1>5, <1>6 DEF IInv
(* A call that has just been made, from round x as it is. *)
MadeFrom(call, x, rd) ==
  /\ call \in Call
  /\ call.round = x
  /\ \/ call.op = "open" /\ call.phase = "reading"
     \/ call.op \in CaptureOps /\ call.phase = "done" /\ call.winner # NoWinner
     \/ /\ call.op \in MarkOps \cup {"join"}
        /\ call.phase = "sent"
        /\ call.race = rd.chainRaceId /\ call.race # NoRace
        /\ call.op = "join" => call.wallet = rd.drivers[call.slot].wallet /\ call.wallet # NoWallet
        /\ call.op = "finish" => call.winner = rd.winner /\ call.winner # NoWinner

LEMMA MadeIsSound ==
  ASSUME NEW c \in CallIds, NEW x \in RoundIds, round'[x] # NoRound,
         MadeFrom(calls'[c], x, round'[x])
  PROVE  CallSound(calls[c])'
<1>1. AnswerIsTrue(calls[c])'
  BY DEF MadeFrom, AnswerIsTrue, CaptureOps, MarkOps
<1>2. SnapshotStands(calls[c])'
  BY DEF MadeFrom, SnapshotStands, CaptureOps, MarkOps
<1>3. QED
  BY <1>1, <1>2 DEF MadeFrom, CallSound, CaptureOps, MarkOps, Known

LEMMA NewCallTyped ==
  ASSUME NEW x \in RoundIds, NEW race \in RaceId \cup {NoRace},
         NEW op \in {"open", "join", "lock", "start", "finish", "settle", "cancel",
                     "capture-choose", "capture-settle"}
  PROVE  /\ NewCall(op, x, race) \in Call
         /\ NewCall(op, x, race).op = op /\ NewCall(op, x, race).phase = "sent"
         /\ NewCall(op, x, race).round = x /\ NewCall(op, x, race).race = race
  BY DEF NewCall, Call, Slot

LEMMA SettleCallMade ==
  ASSUME NEW x \in RoundIds, NEW rd \in Round, rd.chainRaceId # NoRace,
         rd.chainStatus = "started" => rd.winner # NoWinner
  PROVE  MadeFrom(SettleCall(x, rd), x, rd)
<1>1. rd.chainRaceId \in RaceId \cup {NoRace} /\ rd.winner \in Slot \cup {NoWinner} BY DEF Round
<1>2. CASE rd.chainStatus = "started"
  <2> DEFINE call == NewCall("finish", x, rd.chainRaceId)
  <2>1. /\ call \in Call /\ call.op = "finish" /\ call.phase = "sent"
        /\ call.round = x /\ call.race = rd.chainRaceId
    BY <1>1, NewCallTyped
  <2>2. SettleCall(x, rd) = [call EXCEPT !.winner = rd.winner]
    BY <1>2 DEF SettleCall
  <2> HIDE DEF call
  <2>3. QED BY <1>1, <1>2, <2>1, <2>2 DEF MadeFrom, Call, MarkOps
<1>3. CASE rd.chainStatus # "started"
  <2> DEFINE call == NewCall("settle", x, rd.chainRaceId)
  <2>1. /\ call \in Call /\ call.op = "settle" /\ call.phase = "sent"
        /\ call.round = x /\ call.race = rd.chainRaceId
    BY <1>1, NewCallTyped
  <2>2. SettleCall(x, rd) = call
    BY <1>3 DEF SettleCall
  <2> HIDE DEF call
  <2>3. QED BY <2>1, <2>2 DEF MadeFrom, MarkOps
<1>4. QED BY <1>2, <1>3

LEMMA CaptureMade ==
  ASSUME NEW x \in RoundIds, NEW op \in CaptureOps, NEW w \in Slot, NEW rd
  PROVE  MadeFrom(Capture(op, x, w), x, rd)
<1> DEFINE call == NewCall(op, x, NoRace)
<1>1. call \in Call /\ call.op = op /\ call.round = x
  BY NewCallTyped DEF CaptureOps
<1>2. Capture(op, x, w) = [call EXCEPT !.phase = "done", !.winner = w]
  BY DEF Capture
<1>3. w # NoWinner BY NamesAssumption, SlotFacts
<1> HIDE DEF call
<1>4. QED BY <1>1, <1>2, <1>3 DEF MadeFrom, Call

(* Every call a request may begin is made from the round as it is. *)
LEMMA RequestMade ==
  ASSUME NEW x \in RoundIds, NEW rd \in Round, Shaped(rd),
         NEW call \in OpenRequests(x, rd) \cup RaceRequests(x, rd) \cup OperatorRequests(x, rd)
  PROVE  MadeFrom(call, x, rd)
<1>1. rd.chainRaceId \in RaceId \cup {NoRace} BY DEF Round
<1>2. CASE call \in OpenRequests(x, rd)
  <2> DEFINE new == NewCall("open", x, NoRace)
  <2>1. new \in Call /\ new.op = "open" /\ new.round = x BY NewCallTyped
  <2>2. call = [new EXCEPT !.phase = "reading"] BY <1>2 DEF OpenRequests
  <2> HIDE DEF new
  <2>3. QED BY <2>1, <2>2 DEF MadeFrom, Call
<1>3. CASE call \in RaceRequests(x, rd)
  <2>1. rd.chainRaceId # NoRace BY <1>3 DEF RaceRequests
  <2>2. CASE call \in {NewCall(op, x, rd.chainRaceId) : op \in {"lock", "start", "cancel"}}
    <3>1. PICK op \in {"lock", "start", "cancel"} : call = NewCall(op, x, rd.chainRaceId)
      BY <2>2
    <3>2. /\ call \in Call /\ call.op = op /\ call.phase = "sent"
          /\ call.round = x /\ call.race = rd.chainRaceId
      BY <1>1, <3>1, NewCallTyped
    <3>3. QED BY <2>1, <3>2 DEF MadeFrom, MarkOps
  <2>3. CASE call \in JoinRequests(x, rd)
    <3> DEFINE new == NewCall("join", x, rd.chainRaceId)
    <3>1. PICK s \in Slot : /\ rd.drivers[s].wallet # NoWallet
                            /\ call = [new EXCEPT !.slot = s, !.wallet = rd.drivers[s].wallet]
      BY <2>3 DEF JoinRequests
    <3>2. /\ new \in Call /\ new.op = "join" /\ new.phase = "sent"
          /\ new.round = x /\ new.race = rd.chainRaceId
      BY <1>1, NewCallTyped
    <3>3. rd.drivers[s].wallet \in Wallets \cup {NoWallet} BY DEF Round, Driver
    <3> HIDE DEF new
    <3>4. QED BY <2>1, <3>1, <3>2, <3>3 DEF MadeFrom, Call, MarkOps
  <2>4. CASE call \in SettleRequests(x, rd)
    <3>1. call = SettleCall(x, rd) /\ (rd.chainStatus = "started" => rd.winner # NoWinner)
      BY <2>4 DEF SettleRequests
    <3>2. QED BY <2>1, <3>1, SettleCallMade
  <2>5. QED BY <1>3, <2>1, <2>2, <2>3, <2>4 DEF RaceRequests
<1>4. CASE call \in OperatorRequests(x, rd)
  <2>1. CASE call \in {Capture("capture-choose", x, w) : w \in {v \in Slot : ~CanSettle(rd, v)}}
    BY <2>1, CaptureMade DEF CaptureOps
  <2>2. CASE \E w \in Slot : /\ CanSettle(rd, w) /\ rd.status # "settled"
                             /\ call = IF rd.status = "racing"
                                       THEN Capture("capture-settle", x, w) ELSE SettleCall(x, rd)
    <3>1. PICK w \in Slot : /\ CanSettle(rd, w) /\ rd.status # "settled"
                            /\ call = IF rd.status = "racing"
                                      THEN Capture("capture-settle", x, w) ELSE SettleCall(x, rd)
      BY <2>2
    <3>2. CASE rd.status = "racing"
      BY <3>1, <3>2, CaptureMade DEF CaptureOps
    <3>3. CASE rd.status # "racing"
      <4>1. rd.status = "finished" /\ rd.chainRaceId # NoRace
        BY <3>1, <3>3 DEF CanSettle
      <4>2. rd.winner # NoWinner BY <4>1 DEF Shaped
      <4>3. QED BY <3>1, <3>3, <4>1, <4>2, SettleCallMade
    <3>4. QED BY <3>2, <3>3
  <2>3. QED BY <1>4, <2>1, <2>2 DEF OperatorRequests
<1>5. QED BY <1>2, <1>3, <1>4

LEMMA RequestKeeps ==
  ASSUME IInv, NEW c \in CallIds, NEW x \in RoundIds, Request(c, x)
  PROVE  IInv'
<1>1. Known(x) /\ round[x] \in Round /\ Shaped(round[x]) /\ UNCHANGED <<roomVars, chainVars>>
  BY DEF Request, Known, IInv, TypeOK, RoundsSound
<1>2. PICK call \in OpenRequests(x, round[x]) \cup RaceRequests(x, round[x])
                      \cup OperatorRequests(x, round[x]) : Place(c, call)
  BY DEF Request
<1>3. MadeFrom(call, x, round[x]) BY <1>1, RequestMade
<1>4. call \in Call BY <1>3 DEF MadeFrom
<1>5. /\ calls' \in [CallIds -> Call \cup {Idle}] /\ calls'[c] = call
      /\ \A k \in CallIds : k # c => calls'[k] = calls[k]
  BY <1>2, <1>4 DEF Place, IInv, TypeOK
<1>6. CallSound(calls[c])'
  BY <1>1, <1>3, <1>5, MadeIsSound DEF roomVars, Known
<1>7. QED BY <1>1, <1>5, <1>6, CallsOnlyKeeps

LEMMA ReadKeeps ==
  ASSUME IInv, NEW c \in CallIds, ReadNextRaceId(c)
  PROVE  IInv'
<1> DEFINE call == calls[c]
           new == [call EXCEPT !.phase = "sent", !.race = nextRaceId]
<1>1. call \in Call /\ call # Idle /\ call.phase = "reading" /\ CallSound(call)
  BY CallTyped DEF ReadNextRaceId, IInv, CallsSound
<1>2. call.op = "open" BY <1>1 DEF CallSound
<1>3. nextRaceId \in RaceId /\ nextRaceId <= nextRaceId
  BY NamesAssumption DEF ReadNextRaceId, RaceId, IInv, TypeOK
<1>4. /\ new \in Call /\ new.phase = "sent" /\ new.race = nextRaceId /\ new.op = "open"
      /\ new.round = call.round
  BY <1>1, <1>2, <1>3 DEF Call
<1> HIDE DEF new
<1>5. /\ calls' \in [CallIds -> Call \cup {Idle}] /\ calls'[c] = new
      /\ \A k \in CallIds : k # c => calls'[k] = calls[k]
      /\ UNCHANGED <<roomVars, chainVars>>
  BY <1>4 DEF ReadNextRaceId, Place, IInv, TypeOK, new
<1>6. CallSound(calls[c])'
  BY <1>1, <1>3, <1>4, <1>5
     DEF CallSound, SnapshotStands, AnswerIsTrue, MarkOps, CaptureOps, Known, roomVars, chainVars
<1>7. QED BY <1>5, <1>6, CallsOnlyKeeps

LEMMA RejectKeeps ==
  ASSUME IInv, NEW c \in CallIds, Reject(c)
  PROVE  IInv'
  BY CallsOnlyKeeps DEF Reject, Place, IInv, TypeOK

LEMMA TimeoutKeeps ==
  ASSUME IInv, NEW c \in CallIds, Timeout(c)
  PROVE  IInv'
<1> DEFINE call == calls[c]
           new == [call EXCEPT !.waiting = FALSE]
<1>1. call \in Call /\ call # Idle /\ call.phase = "sent" /\ CallSound(call)
  BY CallTyped DEF Timeout, Sent, IInv, CallsSound
<1>2. /\ new \in Call /\ new.phase = "sent" /\ new.race = call.race /\ new.op = call.op
      /\ new.round = call.round /\ new.slot = call.slot /\ new.wallet = call.wallet
      /\ new.winner = call.winner
  BY <1>1 DEF Call
<1> HIDE DEF new
<1>3. /\ calls' \in [CallIds -> Call \cup {Idle}] /\ calls'[c] = new
      /\ \A k \in CallIds : k # c => calls'[k] = calls[k]
      /\ UNCHANGED <<roomVars, chainVars>>
  BY <1>2 DEF Timeout, Place, IInv, TypeOK, new
<1>4. CallSound(calls[c])'
  BY <1>1, <1>2, <1>3
     DEF CallSound, SnapshotStands, AnswerIsTrue, Known, roomVars, chainVars
<1>5. QED BY <1>3, <1>4, CallsOnlyKeeps
LEMMA MineKeeps ==
  ASSUME IInv, NEW c \in CallIds, Mine(c)
  PROVE  IInv'
<1> DEFINE call == calls[c]
           x == call.round
<1>1. /\ call \in Call /\ x \in RoundIds /\ call # Idle /\ call.phase = "sent" /\ CallSound(call)
      /\ UNCHANGED roomVars
  BY CallTyped DEF Mine, Sent, IInv, CallsSound
<1>2. Done(call) BY TransactionDone DEF Mine
<1>3. /\ Known(x)
      /\ call.op \in MarkOps \cup {"join"} => call.race = round[x].chainRaceId /\ call.race # NoRace
      /\ call.op = "finish" => call.winner = round[x].winner /\ call.winner # NoWinner
      /\ call.op = "open" => call.race \in RaceId /\ call.race <= nextRaceId
  BY <1>1 DEF CallSound, SnapshotStands
<1>4. /\ calls' \in [CallIds -> Call \cup {Idle}]
      /\ \A k \in CallIds : k # c => calls'[k] = calls[k]
      /\ calls'[c] = (IF call.waiting THEN [call EXCEPT !.phase = "done"] ELSE Idle)
  <2>1. calls' = [calls EXCEPT ![c] = IF call.waiting THEN [call EXCEPT !.phase = "done"] ELSE Idle]
    BY DEF Mine, Place
  <2>2. [call EXCEPT !.phase = "done"] \in Call BY <1>1 DEF Call
  <2>3. QED BY <2>1, <2>2 DEF IInv, TypeOK
<1>5. /\ ChainGrows /\ ChainSound' /\ ChainType' /\ nextRaceId' \in Nat
  BY <1>2, NamesAssumption DEF Done, ChainType
<1>6. TypeOK'
  BY <1>1, <1>4, <1>5 DEF IInv, TypeOK, ChainType, RaceStatus, roomVars, Known
<1>7. RoundsSound'
  <2>1. SUFFICES ASSUME NEW y \in RoundIds, Known(y)
                 PROVE  Shaped(round[y]) /\ Justified(round[y])' /\ OnDisk(y)
    BY <1>1 DEF RoundsSound, Known, Shaped, OnDisk, roomVars
  <2>2. Shaped(round[y]) /\ Justified(round[y]) /\ OnDisk(y) /\ round[y] \in Round
    BY <2>1 DEF IInv, RoundsSound, TypeOK, Known
  <2>3. CASE round[y].chainRaceId = NoRace
    BY <2>2, <2>3, <1>1 DEF Justified, Detached, roomVars
  <2>4. CASE round[y].chainRaceId # NoRace
    <3> DEFINE r == round[y].chainRaceId
               rd == round[y]
    <3>1. r \in RaceId /\ JustifiedBy(rd, r) BY <2>2, <2>4 DEF Justified, Round
    <3>2. rd.chainStatus \in ChainStatus \ {"not-opened"} /\ {"settled", "canceled"} \subseteq
            ChainStatus \ {"not-opened"}
      BY <2>2, <3>1 DEF JustifiedBy, Round, ChainStatus
    <3>3. GoesOnTo(raceStatus[r], raceStatus'[r]) BY <1>5, <3>1 DEF ChainGrows
    <3>4. raceStatus'[r] \in AtLeast(rd.chainStatus)
      BY <3>1, <3>2, <3>3 DEF JustifiedBy, GoesOnTo
    <3>5. /\ raceStatus[r] = "Settled" => raceStatus'[r] = "Settled"
          /\ raceStatus[r] = "Canceled" => raceStatus'[r] = "Canceled"
      <4>1. AtLeast("settled") = {"Settled"} /\ AtLeast("canceled") = {"Canceled"}
        BY DEF AtLeast
      <4>2. QED BY <3>2, <3>3, <4>1 DEF GoesOnTo
    <3>6. \A s \in Slot : rd.drivers[s].chainJoined => entrant'[r][s] = rd.drivers[s].wallet
      BY <3>1, <2>2, <1>5 DEF JustifiedBy, ChainGrows, Shaped
    <3>7. JustifiedBy(rd, r)'
      BY <3>1, <3>4, <3>5, <3>6, <1>1 DEF JustifiedBy, roomVars
    <3>8. QED BY <2>2, <2>4, <3>7, <1>1 DEF Justified, roomVars
  <2>5. QED BY <2>2, <2>3, <2>4
<1>8. CallsSound'
  <2>1. \A y \in RoundIds : Known(y) => round'[y] # NoRound /\ SameClaims(round[y], round'[y])
    BY <1>1 DEF Known, SameClaims, roomVars
  <2>2. CASE ~call.waiting
    BY <2>1, <2>2, <1>4, <1>5, CallsKept
  <2>3. CASE call.waiting
    <3>1. /\ calls'[c].phase = "done" /\ calls'[c].op = call.op /\ calls'[c].round = x
          /\ calls'[c].race = call.race /\ calls'[c].slot = call.slot
          /\ calls'[c].wallet = call.wallet /\ calls'[c].winner = call.winner
      BY <2>3, <1>1, <1>4 DEF Call
    <3>2. AnswerIsTrue(calls[c])'
      <4>1. call.op = "open" => call.race < nextRaceId'
        BY <1>2, <1>3, NamesAssumption DEF Done, RaceId, IInv, TypeOK
      <4>2. call.op = "join" => entrant'[call.race][call.slot] = call.wallet
        BY <1>2 DEF Done
      <4>3. call.op \in MarkOps => raceStatus'[call.race] \in AtLeast(Marks[call.op])
        BY <1>2 DEF Done
      <4>4. QED BY <3>1, <4>1, <4>2, <4>3 DEF AnswerIsTrue
    <3>3. SnapshotStands(calls[c])'
      BY <3>1, <1>1 DEF SnapshotStands, CallSound, roomVars
    <3>4. call.op = "open" => call.race <= nextRaceId'
      BY <1>2, <1>3, NamesAssumption DEF Done, RaceId, IInv, TypeOK
    <3>5. call.op \in CaptureOps => call.winner # NoWinner
      BY <1>1 DEF CallSound
    <3>6. CallSound(calls[c])'
      BY <3>1, <3>2, <3>3, <3>4, <3>5, <1>1, <1>3 DEF CallSound, Known, roomVars
    <3>7. \A k \in CallIds : calls'[k] \in {Idle, calls[k]} \/ CallSound(calls[k])'
      BY <3>6, <1>4
    <3>8. QED BY <2>1, <3>7, <1>5, CallsKept
  <2>4. QED BY <2>2, <2>3
<1>9. /\ disk[x] # NoRound
      /\ disk[x].chainRaceId = round[x].chainRaceId
      /\ disk[x].winner = round[x].winner
      /\ disk[x].status # round[x].status => disk[x].status = "ready"
  BY <1>1, <1>3, DiskFollows, FreshAssumption
<1>10. StakesKnown'
  <2>1. SUFFICES ASSUME NEW r \in RaceId, NEW s \in Slot, entrant'[r][s] # NoWallet
                 PROVE  \E y \in RoundIds : disk[y] # NoRound /\ disk[y].chainRaceId = r
    BY <1>1 DEF StakesKnown, roomVars
  <2>2. CASE entrant[r][s] # NoWallet BY <2>2 DEF IInv, StakesKnown
  <2>3. CASE call.op = "join" /\ r = call.race
    BY <2>3, <1>1, <1>3, <1>9
  <2>4. QED BY <2>1, <2>2, <2>3, <1>2 DEF Done
<1>11. ResultKept'
  <2>1. SUFFICES ASSUME NEW r \in RaceId, raceStatus'[r] \in {"Finished", "Settled"}
                 PROVE  \E y \in RoundIds :
                          /\ disk[y] # NoRound
                          /\ disk[y].chainRaceId = r
                          /\ disk[y].winner = winnerSlot'[r]
                          /\ disk[y].status \in {"finished", "settled"}
    BY <1>1 DEF ResultKept, roomVars
  <2>2. CASE raceStatus[r] \in {"Finished", "Settled"}
    <3>1. winnerSlot'[r] = winnerSlot[r] BY <2>2, <1>5 DEF ChainGrows
    <3>2. QED BY <2>2, <3>1 DEF IInv, ResultKept
  <2>3. CASE /\ call.op = "finish" /\ r = call.race
             /\ raceStatus[r] = "Started" /\ winnerSlot'[r] = call.winner
    <3>1. Shaped(round[x]) /\ Justified(round[x]) BY <1>1, <1>3 DEF IInv, RoundsSound
    <3>2. /\ round[x].winner = call.winner /\ call.winner # NoWinner
          /\ round[x].chainRaceId = r /\ r # NoRace
      BY <2>3, <1>3 DEF MarkOps
    <3>3. round[x].status \in {"finished", "settled"}
      BY <2>3, <3>1, <3>2 DEF Shaped, Justified, JustifiedBy
    <3>4. disk[x] = round[x]
      <4>1. disk[x].status # "ready"
        BY <1>1, <1>3, <3>3, DiskFollows
      <4>2. QED BY <4>1, <1>1, <1>3, DiskFollows
    <3>5. QED BY <2>3, <3>2, <3>3, <3>4, <1>1, <1>9
  <2>4. QED BY <2>1, <2>2, <2>3, <1>2 DEF Done
<1>12. QED BY <1>5, <1>6, <1>7, <1>8, <1>10, <1>11 DEF IInv
(* A handler that resumes makes its round grow, says only what is so, and  *)
(* goes on, if it does, from the round it has just changed.                *)
LEMMA ResumeMarks ==
  ASSUME IInv, NEW c \in CallIds, calls[c] # Idle, calls[c].phase = "done",
         NEW x, x = calls[c].round, Accepts(calls[c], round[x])
  PROVE  LET marked == Marked(calls[c], round[x])
         IN /\ Grows(round[x], marked)
            /\ Justified(marked)
            /\ GoesOn(calls[c], marked) => MadeFrom(SettleCall(x, marked), x, marked)
<1> DEFINE call == calls[c]
           rd == round[x]
           marked == Marked(call, rd)
<1>1. /\ call \in Call /\ x \in RoundIds /\ CallSound(call)
  BY CallTyped DEF IInv, CallsSound
<1>2. /\ Known(x) /\ rd \in Round /\ Shaped(rd) /\ Justified(rd)
  BY <1>1 DEF CallSound, IInv, RoundsSound, TypeOK, Known
<1>3. /\ call.op = "open" => call.race < nextRaceId /\ call.race \in RaceId
      /\ call.op = "join" => entrant[call.race][call.slot] = call.wallet
      /\ call.op \in MarkOps => raceStatus[call.race] \in AtLeast(Marks[call.op])
  BY <1>1 DEF CallSound, AnswerIsTrue
<1>4. /\ call.op \in MarkOps \cup {"join"} => call.race = rd.chainRaceId /\ call.race \in RaceId
      /\ call.op = "join" => call.wallet = rd.drivers[call.slot].wallet /\ call.wallet # NoWallet
      /\ call.op \in CaptureOps => call.winner \in Slot
      /\ call.slot \in Slot
  BY <1>1 DEF CallSound, SnapshotStands, Call
<1>5. /\ raceStatus \in [RaceId -> RaceStatus] /\ ChainSound
  BY DEF IInv, TypeOK, RaceStatus
<1> HIDE DEF call, rd
<1>6. CASE call.op = "open"
  <2>1. CanAttachChainRace(rd, call.race) /\ marked = attachChainRace(rd, call.race)
    BY <1>6 DEF Accepts, Marked, call, rd
  <2>2. raceStatus[call.race] \in AtLeast("opened")
    BY <1>3, <1>5, <1>6 DEF ChainSound, AtLeast, RaceStatus
  <2>3. ~GoesOn(call, marked) BY <1>6 DEF GoesOn
  <2>4. QED BY <1>2, <1>3, <1>6, <2>1, <2>2, <2>3, AttachGrows, AttachJustified DEF call, rd
<1>7. CASE call.op = "join"
  <2> DEFINE race == call.race
             s == call.slot
  <2>1. marked = markChainJoined(rd, s) BY <1>7 DEF Marked
  <2>2. rd.drivers[s].wallet # NoWallet BY <1>4, <1>7
  <2>3. PICK d \in Driver, cs \in {"opened", "joined"} :
           /\ d.wallet = rd.drivers[s].wallet
           /\ cs = "joined" => \A t \in Slot : t # s => rd.drivers[t].chainJoined
           /\ ReplacedBy(rd, s, d, cs, markChainJoined(rd, s))
    BY <1>2, <1>4, <2>2, JoinMarked
  <2>4. race \in RaceId /\ rd.chainRaceId = race BY <1>4, <1>7
  <2>5. entrant[race][s] = rd.drivers[s].wallet BY <1>3, <1>4, <1>7
  <2>6. s \in Slot BY <1>4
  <2>7. raceStatus \in [RaceId -> {"None", "Created", "Joined", "Locked", "Started",
                                   "Finished", "Settled", "Canceled"}]
    BY <1>5 DEF RaceStatus
  <2> HIDE DEF race, s
  <2>8. Justified(marked)
    BY <1>2, <1>5, <2>1, <2>2, <2>3, <2>4, <2>5, <2>6, <2>7, JoinJustified
  <2>9. Grows(rd, marked) BY <2>1, <2>3 DEF ReplacedBy
  <2>10. ~GoesOn(call, marked) BY <1>7 DEF GoesOn
  <2>11. QED BY <2>8, <2>9, <2>10 DEF call, rd
<1>8. CASE call.op = "capture-settle"
  <2>1. rd.status = "racing" /\ marked = finishRound(rd, call.winner)
    BY <1>8 DEF Accepts, Marked, call, rd
  <2>2. call.winner \in Slot BY <1>4, <1>8 DEF CaptureOps
  <2>3. GrowsLocally(rd, marked) BY <1>2, <2>1, <2>2, FinishGrows
  <2>4. Justified(marked) BY <1>2, <2>3, LocalJustified
  <2>5. marked \in Round /\ Shaped(marked) BY <2>3 DEF GrowsLocally, Grows
  <2>6. marked.status = "finished" BY <2>1, <1>2 DEF finishRound, Round
  <2> HIDE DEF marked
  <2>7. marked.winner # NoWinner BY <2>5, <2>6 DEF Shaped
  <2>8. GoesOn(call, marked) => marked.chainRaceId # NoRace
    BY <1>8, <2>4 DEF GoesOn, Justified, Detached
  <2>9. GoesOn(call, marked) => MadeFrom(SettleCall(x, marked), x, marked)
    BY <1>1, <2>5, <2>7, <2>8, SettleCallMade
  <2>10. QED BY <2>3, <2>4, <2>9 DEF GrowsLocally, marked, call, rd
<1>9. CASE call.op = "capture-choose"
  <2>1. CanChooseWinner(rd, call.winner) /\ marked = chooseWinner(rd, call.winner)
    BY <1>9 DEF Accepts, Marked, call, rd
  <2>2. call.winner \in Slot BY <1>4, <1>9 DEF CaptureOps
  <2>3. GrowsLocally(rd, marked) BY <1>2, <2>1, <2>2, ChooseGrows
  <2>4. Justified(marked) BY <1>2, <2>3, LocalJustified
  <2>5. marked \in Round /\ Shaped(marked) BY <2>3 DEF GrowsLocally, Grows
  <2> HIDE DEF marked
  <2>6. GoesOn(call, marked) => marked.chainRaceId # NoRace /\ marked.winner # NoWinner
    BY <1>9, <2>5 DEF GoesOn, CanSettle, Shaped
  <2>7. GoesOn(call, marked) => MadeFrom(SettleCall(x, marked), x, marked)
    BY <1>1, <2>5, <2>6, SettleCallMade
  <2>8. QED BY <2>3, <2>4, <2>7 DEF GrowsLocally, marked, call, rd
<1>10. CASE call.op \in MarkOps
  <2> DEFINE cs == Marks[call.op]
             race == call.race
  <2>1. cs \in ChainStatus /\ cs \notin {"not-opened", "joined"} BY <1>10 DEF MarkOps, Marks, ChainStatus
  <2>2. CanMarkChain(rd, cs) /\ marked = markChain(rd, cs)
    BY <1>10 DEF Accepts, Marked, MarkOps, call, rd
  <2>3. race \in RaceId /\ rd.chainRaceId = race BY <1>4, <1>10
  <2>4. raceStatus[race] \in AtLeast(cs) BY <1>3, <1>10
  <2>5. call.op = "finish" => cs = "finished" BY DEF Marks
  <2>6. race # NoRace BY <2>3, NamesAssumption DEF RaceId
  <2> HIDE DEF cs, race
  <2>7. Grows(rd, marked) BY <1>2, <2>1, <2>2, MarkGrows
  <2>8. Justified(marked) BY <1>2, <2>1, <2>2, <2>3, <2>4, MarkJustified
  <2>9. marked \in Round /\ marked.chainStatus = cs /\ marked.chainRaceId = race
    BY <1>2, <2>2, <2>3, <2>7 DEF markChain, Round, Grows
  <2>10. GoesOn(call, marked) => call.op = "finish"
    BY <1>10 DEF GoesOn, MarkOps
  <2> HIDE DEF marked
  <2>11. GoesOn(call, marked) => MadeFrom(SettleCall(x, marked), x, marked)
    BY <1>1, <2>5, <2>6, <2>9, <2>10, SettleCallMade
  <2>12. QED BY <2>7, <2>8, <2>11 DEF marked, call, rd
<1>11. call.op \in {"open", "join"} \cup CaptureOps \cup MarkOps
  BY <1>1 DEF Call, CaptureOps, MarkOps
<1>12. QED BY <1>6, <1>7, <1>8, <1>9, <1>10, <1>11 DEF CaptureOps

LEMMA ResumeKeeps ==
  ASSUME IInv, NEW c \in CallIds, Resume(c)
  PROVE  IInv'
<1> DEFINE call == calls[c]
           x == call.round
           marked == Marked(call, round[x])
<1>1. /\ call # Idle /\ call.phase = "done" /\ UNCHANGED <<authorizing, chainVars>>
      /\ x \in RoundIds /\ Known(x)
  BY CallTyped DEF Resume, IInv, CallsSound, CallSound
<1>2. CASE Accepts(call, round[x])
  <2>1. /\ Save(x, marked)
        /\ Place(c, IF GoesOn(call, marked) THEN SettleCall(x, marked) ELSE Idle)
    BY <1>2 DEF Resume
  <2>2. /\ Grows(round[x], marked)
        /\ Justified(marked)
        /\ GoesOn(call, marked) => MadeFrom(SettleCall(x, marked), x, marked)
    BY <1>1, <1>2, ResumeMarks
  <2> HIDE DEF marked, x
  <2>3. /\ calls' \in [CallIds -> Call \cup {Idle}]
        /\ calls'[c] = (IF GoesOn(call, marked) THEN SettleCall(x, marked) ELSE Idle)
        /\ \A k \in CallIds : k # c => calls'[k] = calls[k]
    BY <2>1, <2>2 DEF Place, MadeFrom, IInv, TypeOK
  <2>4. round'[x] = marked /\ marked # NoRound
    BY <1>1, <2>1, <2>2, FreshAssumption DEF Save, Grows, IInv, TypeOK
  <2>5. GoesOn(call, marked) => CallSound(calls[c])'
    BY <1>1, <2>2, <2>3, <2>4, MadeIsSound
  <2>6. \A k \in CallIds : calls'[k] \in {Idle, calls[k]} \/ CallSound(calls[k])'
    BY <2>3, <2>5
  <2>7. QED BY <1>1, <2>1, <2>2, <2>3, <2>6, SaveKeeps
<1>3. CASE ~Accepts(call, round[x])
  <2>1. Place(c, Idle) /\ UNCHANGED <<roomVars, chainVars>>
    BY <1>1, <1>3 DEF Resume, roomVars
  <2>2. QED BY <2>1, CallsOnlyKeeps DEF Place, IInv, TypeOK
<1>4. QED BY <1>2, <1>3

LEMMA LocalStepKeeps ==
  ASSUME IInv, LocalStep
  PROVE  IInv'
<1>1. PICK x \in RoundIds :
        Known(x) /\ (Join(x, round[x]) \/ Run(x, round[x]) \/ Reopen(x, round[x]))
  BY DEF LocalStep
<1>2. round[x] \in Round /\ Shaped(round[x]) /\ Justified(round[x])
  BY <1>1 DEF IInv, RoundsSound, TypeOK, Known
<1>3. calls \in [CallIds -> Call \cup {Idle}] BY DEF IInv, TypeOK
<1>4. CASE Join(x, round[x]) \/ Run(x, round[x])
  <2>1. PICK new : GrowsLocally(round[x], new) /\ Update(x, new)
    BY <1>2, <1>4, LocalGrows
  <2>2. Justified(new) BY <1>2, <2>1, LocalJustified
  <2>3. Grows(round[x], new) BY <2>1 DEF GrowsLocally
  <2>4. Save(x, new) /\ UNCHANGED <<authorizing, chainVars>> /\ calls' = calls
    BY <2>1 DEF Update
  <2>5. QED BY <1>1, <1>3, <2>2, <2>3, <2>4, SaveKeeps
<1>5. CASE Reopen(x, round[x])
  <2> DEFINE rd == round[x]
             race == rd.chainRaceId
             new == attachChainRace(rd, race)
  <2>1. race \in RaceId /\ CanAttachChainRace(rd, race) /\ Update(x, new)
    BY <1>2, <1>5 DEF Reopen, Round, CanAttachChainRace
  <2>2. raceStatus[race] \in AtLeast("opened")
    BY <1>2, <1>5, <2>1 DEF Reopen, Justified, JustifiedBy, AtLeast, Round, ChainStatus
  <2>3. Save(x, new) /\ UNCHANGED <<authorizing, chainVars>> /\ calls' = calls
    BY <2>1 DEF Update
  <2>4. Grows(rd, new) BY <1>2, <2>1, AttachGrows
  <2>5. Justified(new) BY <1>2, <2>1, <2>2, AttachJustified
  <2> HIDE DEF new
  <2>6. QED BY <1>1, <1>3, <2>3, <2>4, <2>5, SaveKeeps
<1>6. QED BY <1>1, <1>4, <1>5

LEMMA NextSound == IInv /\ [Next]_vars => IInv'
<1> SUFFICES ASSUME IInv, [Next]_vars PROVE IInv' OBVIOUS
<1>1. ASSUME NEW x \in RoundIds, NEW wallet \in Wallets \cup {NoWallet}, Create(x, wallet)
      PROVE  IInv'
  BY <1>1, CreateKeeps
<1>2. CASE LocalStep BY <1>2, LocalStepKeeps
<1>3. ASSUME NEW x \in RoundIds, BeginLock(x) PROVE IInv' BY <1>3, BeginLockKeeps
<1>4. ASSUME NEW x \in RoundIds, EndLock(x) PROVE IInv' BY <1>4, EndLockKeeps
<1>5. ASSUME NEW c \in CallIds, CallStep(c) PROVE IInv'
  <2>1. ASSUME NEW x \in RoundIds, Request(c, x) PROVE IInv' BY <2>1, RequestKeeps
  <2>2. CASE ReadNextRaceId(c) BY <2>2, ReadKeeps
  <2>3. CASE Mine(c) BY <2>3, MineKeeps
  <2>4. CASE Reject(c) BY <2>4, RejectKeeps
  <2>5. CASE Timeout(c) BY <2>5, TimeoutKeeps
  <2>6. CASE Resume(c) BY <2>6, ResumeKeeps
  <2>7. QED BY <1>5, <2>1, <2>2, <2>3, <2>4, <2>5, <2>6 DEF CallStep
<1>6. CASE Crash BY <1>6, CrashKeeps
<1>7. CASE UNCHANGED vars
  <2>1. UNCHANGED <<roomVars, chainVars>> /\ calls' = calls
    BY <1>7 DEF vars, roomVars, chainVars
  <2>2. calls \in [CallIds -> Call \cup {Idle}] BY DEF IInv, TypeOK
  <2>3. QED BY <2>1, <2>2, CallsOnlyKeeps
<1>8. QED BY <1>1, <1>2, <1>3, <1>4, <1>5, <1>6, <1>7 DEF Next
-----------------------------------------------------------------------------
(* Theorems.                                                               *)

(* The inductive invariant holds at every moment: between the pieces of    *)
(* the handlers of index.ts, whatever the chain, the RPC and the operator  *)
(* do, and after a restart.                                                *)
THEOREM InvariantHolds == Spec => []IInv
<1>1. Init => IInv BY InitSound
<1>2. IInv /\ [Next]_vars => IInv' BY NextSound
<1>3. QED BY <1>1, <1>2, PTL DEF Spec

(* Every variable keeps its type, and a round is on disk when it is in     *)
(* memory (createRound and persistSnapshot).                               *)
THEOREM TypeCorrect == Spec => []TypeOK
<1>1. IInv => TypeOK BY DEF IInv
<1>2. QED BY <1>1, InvariantHolds, PTL

(* The sidecar never believes more than the chain has done.                *)
THEOREM NeverAhead == Spec => []LocalBehindChain
<1>1. IInv => LocalBehindChain
  BY DEF IInv, LocalBehindChain, RoundsSound, Justified, JustifiedBy, Detached, Attached, RaceOf
<1>2. QED BY <1>1, InvariantHolds, PTL

(* A race somebody has staked in is the race of a round on disk, also when *)
(* two opens raced, an answer was lost or the sidecar crashed.             *)
THEOREM StakesStayKnown == Spec => []StakesKnown
<1>1. IInv => StakesKnown BY DEF IInv
<1>2. QED BY <1>1, InvariantHolds, PTL

(* A driver marked as joined is the entrant of that slot on chain.         *)
THEOREM JoinsAreReal == Spec => []JoinsAgree
<1>1. IInv => JoinsAgree
  <2>1. SUFFICES ASSUME IInv, NEW x \in RoundIds, NEW s \in Slot, Known(x),
                        round[x].drivers[s].chainJoined
                 PROVE  Attached(x) /\
                        entrant[round[x].chainRaceId][s] = round[x].drivers[s].wallet
    BY DEF JoinsAgree
  <2>2. Justified(round[x]) BY <2>1 DEF IInv, RoundsSound
  <2>3. QED BY <2>1, <2>2 DEF Justified, JustifiedBy, Detached, Attached
<1>2. QED BY <1>1, InvariantHolds, PTL

(* The winner a race was finished with is on disk as the winner of a round *)
(* that has this race; where no two rounds share a race, which opening two *)
(* at once may bring about, it is the winner of the round.                 *)
THEOREM ResultsAgree == Spec => [](OneRoundPerRace => ResultAgrees)
<1>1. IInv => (OneRoundPerRace => ResultAgrees)
  <2>1. SUFFICES ASSUME IInv, OneRoundPerRace, NEW x \in RoundIds, Attached(x),
                        RaceOf(x) \in {"Finished", "Settled"}
                 PROVE  /\ disk[x].winner = winnerSlot[round[x].chainRaceId]
                        /\ disk[x].status \in {"finished", "settled"}
    BY DEF ResultAgrees
  <2> DEFINE r == round[x].chainRaceId
  <2>2. r \in RaceId BY <2>1 DEF Attached, Known, IInv, TypeOK, Round
  <2>3. PICK y \in RoundIds : /\ disk[y] # NoRound
                              /\ disk[y].chainRaceId = r
                              /\ disk[y].winner = winnerSlot[r]
                              /\ disk[y].status \in {"finished", "settled"}
    BY <2>1, <2>2 DEF IInv, ResultKept, RaceOf
  <2>4. Known(y) BY <2>1, <2>3 DEF IInv, TypeOK, Known
  <2>5. round[y].chainRaceId = r BY <2>1, <2>3, <2>4, DiskFollows
  <2>6. Attached(y) BY <2>1, <2>4, <2>5 DEF Attached
  <2>7. y = x BY <2>1, <2>5, <2>6 DEF OneRoundPerRace
  <2>8. QED BY <2>3, <2>7
<1>2. QED BY <1>1, InvariantHolds, PTL

(* A step leaves a round alone, makes it grow while the chain stands still,*)
(* or brings it back from disk.                                            *)
LEMMA RoundSteps ==
  ASSUME IInv, [Next]_vars, NEW x \in RoundIds, Known(x)
  PROVE  \/ round'[x] = round[x]
         \/ Grows(round[x], round'[x]) /\ UNCHANGED chainVars
         \/ round'[x] = disk[x]
<1> DEFINE Goal == \/ round'[x] = round[x]
                   \/ Grows(round[x], round'[x]) /\ UNCHANGED chainVars
                   \/ round'[x] = disk[x]
<1>1. /\ round[x] \in Round /\ Shaped(round[x]) /\ round \in [RoundIds -> Round \cup {NoRound}]
      /\ \A y \in RoundIds : Known(y) => round[y] \in Round /\ Shaped(round[y])
  BY DEF IInv, TypeOK, RoundsSound, Known
<1>2. ASSUME NEW y \in RoundIds, NEW new, Save(y, new), UNCHANGED chainVars, Grows(round[y], new)
      PROVE  Goal
  BY <1>1, <1>2 DEF Save
<1>3. CASE round' = round BY <1>3
<1>4. ASSUME NEW y \in RoundIds, NEW wallet \in Wallets \cup {NoWallet}, Create(y, wallet)
      PROVE  Goal
  <2>1. y # x BY <1>4 DEF Create
  <2>2. QED BY <2>1, <1>1, <1>4 DEF Create, Save
<1>5. CASE LocalStep
  <2>1. PICK y \in RoundIds :
          Known(y) /\ (Join(y, round[y]) \/ Run(y, round[y]) \/ Reopen(y, round[y]))
    BY <1>5 DEF LocalStep
  <2>2. round[y] \in Round /\ Shaped(round[y]) BY <1>1, <2>1
  <2>3. CASE Join(y, round[y]) \/ Run(y, round[y])
    <3>1. PICK new : GrowsLocally(round[y], new) /\ Update(y, new)
      BY <2>2, <2>3, LocalGrows
    <3>2. QED BY <3>1, <1>2 DEF GrowsLocally, Update
  <2>4. CASE Reopen(y, round[y])
    <3> DEFINE new == attachChainRace(round[y], round[y].chainRaceId)
    <3>1. /\ round[y].chainRaceId \in RaceId /\ Update(y, new)
          /\ CanAttachChainRace(round[y], round[y].chainRaceId)
      BY <2>2, <2>4 DEF Reopen, Round, CanAttachChainRace
    <3>2. Grows(round[y], new) BY <2>2, <3>1, AttachGrows
    <3> HIDE DEF new
    <3>3. QED BY <3>1, <3>2, <1>2 DEF Update
  <2>5. QED BY <2>1, <2>3, <2>4
<1>6. ASSUME NEW y \in RoundIds, BeginLock(y) PROVE Goal
  <2> DEFINE new == WithStatus(round[y], "locked")
  <2>1. /\ Known(y) /\ CanLockRound(round[y]) /\ round[y].status = "ready"
        /\ round' = [round EXCEPT ![y] = new] /\ UNCHANGED chainVars
    BY <1>6 DEF BeginLock, CanLockRound, WithStatus
  <2>2. GrowsLocally(round[y], new) BY <1>1, <2>1, StatusGrows DEF RoundStatus
  <2> HIDE DEF new
  <2>3. QED BY <1>1, <2>1, <2>2 DEF GrowsLocally
<1>7. ASSUME NEW c \in CallIds, Resume(c) PROVE Goal
  <2> DEFINE y == calls[c].round
             marked == Marked(calls[c], round[y])
  <2>1. /\ calls[c] # Idle /\ calls[c].phase = "done" /\ UNCHANGED chainVars /\ y \in RoundIds
    BY <1>7, CallTyped DEF Resume, IInv
  <2>2. CASE ~Accepts(calls[c], round[y]) BY <1>7, <2>2 DEF Resume
  <2>3. CASE Accepts(calls[c], round[y])
    <3>1. Save(y, marked) BY <1>7, <2>3 DEF Resume
    <3>2. Grows(round[y], marked) BY <2>1, <2>3, ResumeMarks
    <3> HIDE DEF y, marked
    <3>3. QED BY <2>1, <3>1, <3>2, <1>2
  <2>4. QED BY <2>2, <2>3
<1>8. CASE Crash BY <1>8 DEF Crash
<1>9. ASSUME NEW y \in RoundIds, EndLock(y) PROVE Goal BY <1>9 DEF EndLock
<1>10. ASSUME NEW c \in CallIds, CallStep(c) PROVE Goal
  <2>1. CASE Resume(c) BY <2>1, <1>7
  <2>2. CASE ~Resume(c)
    BY <1>10, <2>2 DEF CallStep, Request, ReadNextRaceId, Mine, Reject, Timeout, roomVars
  <2>3. QED BY <2>1, <2>2
<1>11. CASE UNCHANGED vars BY <1>11 DEF vars
<1>12. QED BY <1>4, <1>5, <1>6, <1>8, <1>9, <1>10, <1>11 DEF Next

(* A winner once chosen stays, and so does the end of a round.             *)
THEOREM OutcomesFinal == Spec => OutcomeStands
<1>1. IInv /\ IInv' /\ [Next]_vars =>
        \A x \in RoundIds : Known(x) =>
          /\ round[x].winner # NoWinner => round'[x].winner = round[x].winner
          /\ round[x].status \in {"settled", "canceled"} => round'[x].status = round[x].status
  <2>1. SUFFICES ASSUME IInv, IInv', [Next]_vars, NEW x \in RoundIds, Known(x)
                 PROVE  /\ round[x].winner # NoWinner => round'[x].winner = round[x].winner
                        /\ round[x].status \in {"settled", "canceled"} =>
                             round'[x].status = round[x].status
    OBVIOUS
  <2>2. CASE round'[x] = round[x] BY <2>2
  <2>3. CASE round'[x] = disk[x] BY <2>1, <2>3, DiskFollows
  <2>4. CASE Grows(round[x], round'[x]) /\ UNCHANGED chainVars
    <3>1. SUFFICES ASSUME round[x].status = "settled", round'[x].status = "canceled"
                   PROVE  FALSE
      BY <2>4 DEF Grows
    <3>2. round[x] \in Round /\ Shaped(round[x]) /\ Justified(round[x])
      BY <2>1 DEF IInv, RoundsSound, TypeOK, Known
    <3>3. round[x].chainRaceId # NoRace /\ raceStatus[round[x].chainRaceId] = "Settled"
      BY <3>1, <3>2 DEF Justified, JustifiedBy, Detached
    <3>4. /\ round'[x].chainRaceId = round[x].chainRaceId
          /\ round'[x].winner # NoWinner /\ round'[x] # NoRound
      BY <2>4, <3>1, <3>2, <3>3, FreshAssumption DEF Grows, Shaped
    <3>5. Justified(round[x])' BY <2>1, <3>4 DEF IInv, RoundsSound, Known
    <3>6. raceStatus'[round[x].chainRaceId] = "Canceled"
      BY <3>1, <3>3, <3>4, <3>5 DEF Justified, JustifiedBy
    <3>7. QED BY <2>4, <3>3, <3>6 DEF chainVars
  <2>5. QED BY <2>1, <2>2, <2>3, <2>4, RoundSteps
<1>2. QED BY <1>1, InvariantHolds, PTL DEF Spec, OutcomeStands

(* A round that has a race is locked only once that race has been locked   *)
(* on chain with the stakes of the round's own drivers (lockRound).        *)
THEOREM LocksFollowStakes == Spec => LockedWithStakes
<1>1. IInv /\ [Next]_vars =>
        \A x \in RoundIds :
          Attached(x) /\ round[x].status = "ready" /\ round'[x].status = "locked" =>
            /\ RaceOf(x) \in AtLeast("locked")
            /\ \A s \in Slot :
                 /\ round[x].drivers[s].wallet # NoWallet
                 /\ entrant[round[x].chainRaceId][s] = round[x].drivers[s].wallet
  <2>1. SUFFICES ASSUME IInv, [Next]_vars, NEW x \in RoundIds, Attached(x),
                        round[x].status = "ready", round'[x].status = "locked"
                 PROVE  /\ RaceOf(x) \in AtLeast("locked")
                        /\ \A s \in Slot :
                             /\ round[x].drivers[s].wallet # NoWallet
                             /\ entrant[round[x].chainRaceId][s] = round[x].drivers[s].wallet
    OBVIOUS
  <2>2. Known(x) /\ round[x].chainRaceId # NoRace BY <2>1 DEF Attached
  <2>3. round'[x] # disk[x] BY <2>1, <2>2, DiskFollows
  <2>4. round'[x] # round[x] BY <2>1
  <2>5. Grows(round[x], round'[x]) BY <2>1, <2>2, <2>3, <2>4, RoundSteps
  <2>6. round[x].chainStatus = "locked" BY <2>1, <2>2, <2>5 DEF Grows
  <2>7. JustifiedBy(round[x], round[x].chainRaceId) /\ Shaped(round[x])
    BY <2>1, <2>2 DEF IInv, RoundsSound, Justified
  <2>8. \A s \in Slot : round[x].drivers[s].chainJoined BY <2>6, <2>7 DEF Shaped
  <2>9. QED BY <2>6, <2>7, <2>8 DEF Shaped, JustifiedBy, RaceOf
<1>2. QED BY <1>1, InvariantHolds, PTL DEF Spec, LockedWithStakes
=============================================================================
