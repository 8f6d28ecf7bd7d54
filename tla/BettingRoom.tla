---------------------------- MODULE BettingRoom ----------------------------
(***************************************************************************)
(* The betting side of the sidecar (sidecar/src/race.ts, the /race routes  *)
(* of index.ts and the market calls of settle.ts) in front of RaceMarket.  *)
(*                                                                         *)
(* A request to /race/open, /race/bet or /race/finish is a handler that    *)
(* runs from await to await: one action per stretch of code between two    *)
(* awaits, any other step may come in between.  A handler that has sent a  *)
(* transaction waits until it is mined, with or without effect: settle.ts  *)
(* does not look at the receipt's status.  An awaited call may also fail,  *)
(* and the sidecar may stop and restart with no memory; what has been sent *)
(* is then mined later all the same.                                       *)
(*                                                                         *)
(* The operator may change the judge meanwhile; another judge makes no     *)
(* calls here, the guard's key is used only here, and RACEMARKET_ADDRESS   *)
(* is set.  Those who call the contract themselves are in RaceMarket's     *)
(* own runs.                                                               *)
(*                                                                         *)
(* OldRaceKept and FinishAnyRace are plausible wrong forms of the          *)
(* definitions below them.                                                 *)
(***************************************************************************)
EXTENDS RaceMarket

CONSTANTS
  Guard,        \* the sidecar's judge key
  Relayer,      \* the treasury account that stakes the room's bets
  BetAmounts,   \* amounts asked for at /race/bet
  Handlers,     \* bound: requests under way at once
  MaxOpens      \* bound: calls of /race/open

ASSUME RoomAssumption ==
  /\ Guard \in Keys
  /\ Relayer \in Bettors
  /\ BetAmounts \subseteq 0..MaxBet
  /\ MaxOpens \in Nat

VARIABLES
  current,        \* the module variable `current` of race.ts
  bets,           \* the mirror of the bets, by human (seenNullifiers is its domain)
  onChainRaceId,  \* the market's race the room believes it runs, or NoRace
  request,        \* request[h]: the handler's kind and how far it is
  opens,          \* races opened in the room so far
  opened,         \* history: opened[i] is the market race that race i of the room caused
  result,         \* history: the winner the room recorded for its race i
  untimely        \* history: what was under way when /race/open opened race i

roomVars == <<current, bets, onChainRaceId, request, opens, opened, result, untimely>>
vars == <<status, winner, numRacers, pool, totalPool, pick, stake, usedNullifier, nextRaceId,
          judge, usdc, wager,
          current, bets, onChainRaceId, request, opens, opened, result, untimely>>

NoRace == -1
UnknownRacer == -1                \* racers.indexOf of a name that does not race
LocalId == 1..MaxOpens
Circumstance == {"open", "photo", "bet", "settlement"}
NoCurrent == [id |-> 0, status |-> "none"]
Idle == [kind |-> "none", pc |-> "idle", race |-> NoRace, id |-> 0, racer |-> 0, amount |-> 0,
         human |-> 0, took |-> FALSE]
Under(kind, pc) == [Idle EXCEPT !.kind = kind, !.pc = pc]

Init ==
  /\ MarketInit
  /\ judge = Guard
  /\ current = NoCurrent
  /\ bets = {}
  /\ onChainRaceId = NoRace
  /\ request = [h \in Handlers |-> Idle]
  /\ opens = 0
  /\ opened = [i \in LocalId |-> NoRace]
  /\ result = [i \in LocalId |-> UnknownRacer]
  /\ untimely = [i \in LocalId |-> {}]

Done(h) == request' = [request EXCEPT ![h] = Idle]
Moved(h, pc) == request' = [request EXCEPT ![h].pc = pc]
-----------------------------------------------------------------------------
(* POST /race/open                                                         *)

(* History: what /race/open does not wait for and the code then takes for  *)
(* the new race's.                                                         *)
(*   open: another /race/open, or its transaction after it has failed or   *)
(*     the sidecar has restarted (both read the same nextRaceId);          *)
(*   photo: /race/finish waits for its photo (onChainRaceId is read later);*)
(*   bet: /race/bet waits for its transaction (it is mirrored later);      *)
(*   settlement: the result of a market race that was never opened.        *)
UnderWay ==
  {w \in Circumstance : \E g \in Handlers :
     \/ w = "open" /\ request[g].kind = "open"
     \/ w = "photo" /\ request[g].pc = "camera"
     \/ w = "bet" /\ request[g].kind = "bet" /\ request[g].pc \in {"sent", "mined"}
     \/ w = "settlement" /\ request[g].kind = "finish" /\ request[g].pc \in {"sent", "orphan"}
        /\ request[g].race = nextRaceId}

OldRaceKept == onChainRaceId
RaceForgotten == NoRace

Open(h) ==
  /\ request[h] = Idle
  /\ opens < MaxOpens
  /\ opens' = opens + 1
  /\ current' = [id |-> opens + 1, status |-> "betting"]
  /\ bets' = {}
  /\ onChainRaceId' = RaceForgotten
  /\ request' = [request EXCEPT ![h] = [Under("open", "reading") EXCEPT !.id = opens + 1]]
  /\ untimely' = [untimely EXCEPT ![opens + 1] = UnderWay]
  /\ UNCHANGED <<marketVars, opened, result>>

(* nextRaceId has been read; the transaction is sent. *)
OpenSend(h) ==
  /\ request[h].kind = "open" /\ request[h].pc = "reading"
  /\ request' = [request EXCEPT ![h].pc = "sent", ![h].race = nextRaceId]
  /\ UNCHANGED <<marketVars, current, bets, onChainRaceId, opens, opened, result, untimely>>

OpenAnswered(h) ==
  /\ request[h].kind = "open" /\ request[h].pc = "mined"
  /\ onChainRaceId' = request[h].race
  /\ Done(h)
  /\ UNCHANGED <<marketVars, current, bets, opens, opened, result, untimely>>
-----------------------------------------------------------------------------
(* POST /race/bet.  The World ID proof is verified first; the nullifier is *)
(* the human's.                                                            *)

Bet(h, human, racer, amount) ==
  /\ request[h] = Idle
  /\ request' = [request EXCEPT ![h] = [Under("bet", "verifying") EXCEPT
                                          !.human = human, !.racer = racer, !.amount = amount]]
  /\ UNCHANGED <<marketVars, current, bets, onChainRaceId, opens, opened, result, untimely>>

(* placeBet: only while betting, and once per human. *)
Mirror(h) ==
  LET b == request[h]
  IN bets' = IF current.status = "betting" /\ \A m \in bets : m.human # b.human
             THEN bets \cup {[human |-> b.human, racer |-> b.racer, amount |-> b.amount,
                              backed |-> IF b.took THEN b.race ELSE NoRace]}
             ELSE bets

(* The index goes into a uint8: that of an unknown name throws. *)
Encodable(racer) == racer # UnknownRacer

(* In a race with no market race attached a bet is mirrored only, whatever *)
(* name it is on.                                                          *)
BetVerified(h) ==
  /\ request[h].kind = "bet" /\ request[h].pc = "verifying"
  /\ \/ /\ onChainRaceId # NoRace
        /\ request' = [request EXCEPT ![h] =
                         IF Encodable(@.racer) THEN [@ EXCEPT !.pc = "sent", !.race = onChainRaceId]
                         ELSE Idle]
        /\ UNCHANGED bets
     \/ /\ onChainRaceId = NoRace
        /\ Mirror(h)
        /\ Done(h)
  /\ UNCHANGED <<marketVars, current, onChainRaceId, opens, opened, result, untimely>>

BetAnswered(h) ==
  /\ request[h].kind = "bet" /\ request[h].pc = "mined"
  /\ Mirror(h)
  /\ Done(h)
  /\ UNCHANGED <<marketVars, current, onChainRaceId, opens, opened, result, untimely>>
-----------------------------------------------------------------------------
(* POST /race/arm, /race/start, /race/finish                               *)

Arm ==
  /\ current.status = "betting"
  /\ current' = [current EXCEPT !.status = "armed"]
  /\ UNCHANGED <<marketVars, bets, onChainRaceId, request, opens, opened, result, untimely>>

Start ==
  /\ current.status = "armed"
  /\ current' = [current EXCEPT !.status = "racing"]
  /\ UNCHANGED <<marketVars, bets, onChainRaceId, request, opens, opened, result, untimely>>

FinishAnyRace == current.status # "none"
Finishable == current.status = "racing"

Finish(h, racer) ==
  /\ request[h] = Idle
  /\ Finishable
  /\ current' = [current EXCEPT !.status = "finished"]
  /\ result' = [result EXCEPT ![current.id] = racer]
  /\ request' = [request EXCEPT ![h] = [Under("finish", "camera") EXCEPT
                                          !.id = current.id, !.racer = racer]]
  /\ UNCHANGED <<marketVars, bets, onChainRaceId, opens, opened, untimely>>

(* The finish photo is taken, or not; onChainRaceId is read only now.      *)
FinishProved(h) ==
  /\ request[h].kind = "finish" /\ request[h].pc = "camera"
  /\ request' = [request EXCEPT ![h] =
                   IF onChainRaceId # NoRace /\ Encodable(@.racer)
                   THEN [@ EXCEPT !.pc = "sent", !.race = onChainRaceId] ELSE Idle]
  /\ UNCHANGED <<marketVars, current, bets, onChainRaceId, opens, opened, result, untimely>>

FinishAnswered(h) ==
  /\ request[h].kind = "finish" /\ request[h].pc = "mined"
  /\ Done(h)
  /\ UNCHANGED <<marketVars, current, bets, onChainRaceId, opens, opened, result, untimely>>
-----------------------------------------------------------------------------
(* Transactions and failures.                                              *)

Effect(q) ==
  \/ /\ q.kind = "open" /\ openRace(Guard)
     /\ opened' = [opened EXCEPT ![q.id] = nextRaceId]
  \/ /\ q.kind = "bet" /\ q.race \in RaceId /\ bet(Relayer, q.race, q.racer, q.amount, q.human)
     /\ UNCHANGED opened
  \/ /\ q.kind = "finish" /\ q.race \in RaceId /\ settle(Guard, q.race, q.racer)
     /\ UNCHANGED opened

Reverts(q) ==
  \/ q.kind = "open" /\ ~CanOpen(Guard)
  \/ q.kind = "bet" /\ ~(q.race \in RaceId /\ CanBet(Relayer, q.race, q.racer, q.amount, q.human))
  \/ q.kind = "finish" /\ ~(q.race \in RaceId /\ CanSettle(Guard, q.race))

Answered(h, took) ==
  request' = [request EXCEPT ![h] = IF @.pc = "sent" THEN [@ EXCEPT !.pc = "mined", !.took = took]
                                    ELSE Idle]

(* A transaction sent is mined, also after its handler is gone ("orphan"). *)
Mined(h) ==
  /\ request[h].pc \in {"sent", "orphan"}
  /\ \/ Effect(request[h]) /\ Answered(h, TRUE)
     \/ Reverts(request[h]) /\ UNCHANGED <<marketVars, opened>> /\ Answered(h, FALSE)
  /\ UNCHANGED <<current, bets, onChainRaceId, opens, result, untimely>>

(* An awaited call throws: the handler answers with an error.  If it had   *)
(* sent a transaction, that one may be lost or be mined later.             *)
Fail(h) ==
  /\ request[h].pc \in {"reading", "verifying", "sent", "mined"}
  /\ \/ Done(h)
     \/ request[h].pc = "sent" /\ Moved(h, "orphan")
  /\ UNCHANGED <<marketVars, current, bets, onChainRaceId, opens, opened, result, untimely>>

Restart ==
  /\ current # NoCurrent
  /\ current' = NoCurrent
  /\ bets' = {}
  /\ onChainRaceId' = NoRace
  /\ request' = [h \in Handlers |-> IF request[h].pc \in {"sent", "orphan"}
                                    THEN [request[h] EXCEPT !.pc = "orphan"] ELSE Idle]
  /\ UNCHANGED <<marketVars, opens, opened, result, untimely>>

HandlerStep(h) ==
  \/ OpenSend(h) \/ OpenAnswered(h) \/ BetVerified(h) \/ BetAnswered(h)
  \/ FinishProved(h) \/ FinishAnswered(h) \/ Mined(h) \/ Fail(h)

Request(h) ==
  \/ Open(h)
  \/ \E human \in Nullifiers, racer \in Racer \cup {UnknownRacer}, amount \in BetAmounts :
       Bet(h, human, racer, amount)
  \/ \E racer \in Racer \cup {UnknownRacer} : Finish(h, racer)

(* The operator's transaction. *)
SetJudge(key) == setJudge(key) /\ UNCHANGED roomVars

Next ==
  \/ \E h \in Handlers : Request(h) \/ HandlerStep(h)
  \/ Arm \/ Start \/ Restart
  \/ \E key \in Keys : SetJudge(key)

Spec == Init /\ [][Next]_vars
-----------------------------------------------------------------------------
(* Properties.                                                             *)

(* Every variable keeps its type; balances are never negative. *)
TypeOK ==
  /\ status \in [RaceId -> {"None", "Open", "Settled"}]
  /\ winner \in [RaceId -> Verdict]
  /\ pick \in [RaceId -> [Bettors -> Racer]]
  /\ stake \in [RaceId -> [Bettors -> Nat]]
  /\ usdc \in [Account -> Nat]
  /\ nextRaceId \in 0..MaxRaces
  /\ current \in {NoCurrent} \cup
                  [id : LocalId, status : {"betting", "armed", "racing", "finished"}]
  /\ bets \subseteq [human : Nullifiers, racer : Racer \cup {UnknownRacer},
                      amount : BetAmounts, backed : RaceId \cup {NoRace}]
  /\ onChainRaceId \in RaceId \cup {NoRace, MaxRaces}
  /\ \A h \in Handlers : request[h].pc \in
       {"idle", "reading", "verifying", "camera", "sent", "mined", "orphan"}

(* What the room would want: every market race that is settled has the     *)
(* winner recorded for the race of the room that it was opened for; every  *)
(* bet in the odds that has a stake has it in the present race.            *)
WinnersMatch ==
  \A r \in RaceId : status[r] = "Settled" =>
    \E i \in LocalId : opened[i] = r /\ result[i] = winner[r]
StakesMatch == \A m \in bets : m.backed \in {NoRace, opened[current.id]}

(* The code does not guarantee WinnersMatch when /race/open is called      *)
(* while another open, its transaction, a finish photo or the settlement   *)
(* of a race that was never opened is outstanding.  It does at all other   *)
(* times: also if bets and settlements of earlier races are waited for,    *)
(* mined late, after their handler has failed or the sidecar has           *)
(* restarted, and whoever is judge.                                        *)
SettledAsRaced ==
  (\A i \in LocalId : untimely[i] \subseteq {"bet"}) => WinnersMatch

(* The code does not guarantee StakesMatch when the present race was       *)
(* opened while another open or its transaction was outstanding, or a      *)
(* handler waited for the transaction of a bet.  It does at all other      *)
(* times, whatever happened to earlier races: also for a bet whose proof   *)
(* was being verified when the race was opened, and if bets of an earlier  *)
(* race are mined after their handlers are gone.                           *)
BetsFollowRace ==
  (current # NoCurrent /\ untimely[current.id] \cap {"open", "bet"} = {}) => StakesMatch
=============================================================================
