# Formal model of onchain-rover

TLA+ models of the parts of onchain-rover that hold money and motors, checked
with TLC on small instances and, where marked, proved with TLAPS for every value
of the constants. This file says what the system consists of, what is modelled,
what each run and theorem shows, and what is left.

## 1. The system

Two drivers stake money on a race between two robots. A *sidecar* (Node,
`sidecar/src`) keeps the race rooms, drives an *escrow contract* on a chain with
its facilitator key, hands robot sessions to phones and asks a finish camera for
the winner. On each robot a *harness* (Rust, `robot-harness`) owns the motors.
Spectators bet in a *market contract*.

| Component | State | Operations | Hard behaviour | What makes it correct |
|---|---|---|---|---|
| `chain/contracts/RaceEscrow.sol` | races, nonces, fee counters, roles; the token's balances and allowances | open, join (with or without permit), lock, start, finish, settle, cancel, change of roles | order of signed entries, replays, several races on one balance, role changes mid-race | nobody is entered without consent; the escrow owns exactly the open stakes; results are final |
| `chain/contracts/Clanker500Escrow.sol` | the same on native coin | joins sent by the driver | the same, without nonces | the same |
| `sidecar/src/rounds.ts` | rounds in memory and (`race-store.ts`) on disk | the round's status machine and its mirror of the chain | functions called in any order by concurrent handlers | no run ahead of the chain, no result lost or changed |
| `sidecar/src/index.ts`, `chain.ts` | none of their own | HTTP handlers that snapshot a round, await a transaction, then mark the round | everything between two awaits interleaves; lost receipts; restarts; failing robots | the round agrees with its race |
| `sidecar/src/evidence.ts` | evidence records | write-once result hash | finish retried with other data | the hash on chain is the hash of the stored evidence |
| `robot-harness/src/main.rs` | recorded command, sessions, the motors | drive, stop, emergency stop, reset, authorize, deadman | tokio workers interleave between locks; serial writes fail | a latched stop and an ended round hold; a command is cleared when drives cease |
| `sidecar/src/robot-link.ts` | pilot sessions, control channels, the last command, a command waiting for REST | sessions, frames, mode changes, stop, own deadman | channels and robot sockets that end late; one command over REST while others wait | a stopped robot stays so; speeds within the grant; silence ends in a stop |
| `sidecar/src/harness-bridge.ts` | latest targets, sockets, authorized tokens | pass frames to the harness | frames that await a token overtake each other; targets captured before a socket opens; targets gone stale | only granted commands are sent; silence ends in a zero |
| `sidecar/src/clanker500-chain.ts` and the `/clanker500` routes | none of their own | driver-sent joins read back; open, lock, start, finish, settle, cancel | receipts that are not looked at; transactions behind one another | the round says nothing of its race that is not so |
| `contracts/RaceMarket.sol` | bets, pools, judge | open, bet, settle, claim, change of judge | rounding, several races on one balance | every claim can be paid; shares as promised |
| `sidecar/src/race.ts`, `settle.ts` and the `/race` routes | the room's race and its bets; the market's race it believes it runs | open, bet, arm, start, finish | a photo of up to 28 s between recording a winner and settling; bets mined late; restarts lose all | the market's winner is the room's |
| `solana/programs/clanker5000` | the escrow and the market as a Solana program, a vault per race and market | as the EVM contracts | token accounts are chosen by the caller | as the EVM contracts |
| `sidecar/src/session.ts` | the operator's signed authorization of the fleet | issue, verify, reset | another message issued while a signature is verified | the message verified is the one issued |
| `robot/negotiate.py` | offers | two-sided price negotiation | termination, bounds | a deal lies between both reserves |
| Others (identity, telemetry, leaderboard, detectors, Treasury, passes, web clients, scripts) | | | look-ups, signal processing, display | see `components` in PROJECT.json |

The components interact as follows. Phones and the operator call the sidecar's
routes at any time and concurrently. The sidecar's handlers read and change
rounds, submit transactions, and call the harness through `robot-link.ts`. The
chain sees the drivers' signatures, which the sidecar only relays.


## 2. Modules

| Module | Models | Built on |
|---|---|---|
| `StakePool` | abstract: what any race escrow promises about money | |
| `BetPool` | abstract: what any parimutuel market promises | |
| `RaceLedger` | abstract: the statuses, entrants and results of races | |
| `RaceEscrow` | `chain/contracts/RaceEscrow.sol`, its token and its signers | refines `StakePool` and `RaceLedger` |
| `Clanker500Escrow` | `chain/contracts/Clanker500Escrow.sol` and accounts that refuse the coin | refines `StakePool` and `RaceLedger` |
| `Rounds` | the functions of `sidecar/src/rounds.ts`, as operators from round to round | |
| `RaceRoom` | the handlers of `sidecar/src/index.ts` with `chain.ts` and `race-store.ts` | composes `Rounds` and `RaceLedger` |
| `NativeRoom` | the `/clanker500` routes with `clanker500-chain.ts` | composes `Rounds` and `RaceLedger` |
| `SolanaEscrow`, `SolanaMarket` | the two halves of `solana/programs/clanker5000` | refine `StakePool` and `RaceLedger`; `BetPool` |
| `SolanaProgram` | the program as a whole | composes the two |
| `RaceMarket` | `contracts/RaceMarket.sol` | refines `BetPool` |
| `BettingRoom` | `race.ts`, the `/race` routes and the market calls of `settle.ts` | composes with `RaceMarket` |
| `Harness` | `robot-harness/src/main.rs`: drive, stops, pilot sessions, deadman | |
| `RobotLink` | `sidecar/src/robot-link.ts`: sessions, control channels, the commands to one robot | |
| `HarnessBridge` | `sidecar/src/harness-bridge.ts` | |
| `RaceEscrow_proofs`, `Clanker500Escrow_proofs` | theorems about the two EVM escrows | the module they name, `SumLemmas` |
| `SolanaProgram_proofs` | theorems about both halves of the Solana program | `SolanaProgram`, `SumLemmas` |
| `Betting_proofs` | theorems about `RaceMarket` and `BettingRoom` | both, `SumLemmas` |
| `RaceRoom_proofs` | theorems about `RaceRoom` | `RaceRoom` |
| `Harness_proofs` | theorems about `Harness` and `HarnessBridge` | both |
| `Sidecar_proofs` | theorems about `RobotLink` and `NativeRoom` | both |
| `SumLemmas` | sums over finite sets: what adding to one term, or to two, does to the whole | |
| `MC*` | symmetry sets and constant functions for TLC | the module they name |

`RaceLedger` is the seam of the project. `RaceRoom` and `NativeRoom` are checked
against it and not against a particular contract; each of the three escrows is proved to
implement it. What the rooms show therefore holds with the real escrow under them. `StakePool` and `BetPool` say, once for all
implementations, where money may go.

Operators with names such as `CancelableFinished` or `StatusAfterAnyJoin` stand
beside the definition they vary. They are wrong on purpose: each is the form a
plausible bug would give the definition below it, and is kept to confirm that the
property it belongs to notices.

### RaceEscrow

One action per external function of the contract; a reverting call is no step.
`status`, `entrant`, `joined`, `stakeAmount`, `feeAmount`, `feesCollected` and
`winnerSlot` are the fields of the `races` mapping. `signed` is the set of all
EIP-712 entries ever signed, `permits` the usable ERC-2612 permits, `allowance`
the escrow's allowance. A joining call is the whole of `_joinWithAuthorization`:
the checks of the signature, both token transfers, the fee counters and the
status. Time is a tick counter, against which deadlines are compared.

Assumptions: drivers are neither the treasury nor the escrow (`AccountsAssumption`);
amounts come from a fixed supply, so that `uint256` arithmetic does not overflow;
nobody sends tokens to the contract other than by joining; a slot above 1 reverts.
Left out, because no guard reads them: timestamps of the phases, the proof hash,
the local round id.

### Clanker500Escrow

The same races on native coin. Joins are sent, and paid, by the driver; there are
no signatures, nonces or fees. `refusing` is the set of accounts that revert when
they receive coin, which makes `settleRace` and `cancelRace` fail as a whole. The
contract has no `receive` function, so its balance changes by joins and payouts
only; `nonReentrant` and the order of effects make each call one step. Its two
slots are compared with each other whichever joins first. In `RaceEscrow`
only slot 1 is compared with slot 0, so there a driver who joins slot 1 first may
also take slot 0; the abstract specifications allow for that, and `TwoDrivers` is
stated of `Clanker500Escrow` alone.

### Rounds and RaceRoom

`Rounds` keeps the names of `rounds.ts`. `X(round)` is what the function makes of
a round; `CanX(round)` says that it does not throw.

Node runs one piece of a handler at a time, from await to await. A handler
without an await is one action (`Create`, `LocalStep`). `lockRound` sets the status,
awaits the robots and persists afterwards (`BeginLock`, `EndLock`, which may fail
to persist). A handler that awaits the chain or the finish camera is a record in
`calls`: `Request` takes the snapshot, `ReadNextRaceId` is `chain.ts` reading
`nextRaceId` before it sends `openRace`, `Mine` lets the transaction take effect,
`Resume` marks the round as it is by then and goes on from `finishRace` to
`settleRace`. `Reject` is a revert or an RPC error, `Timeout` a wait for a receipt
that gives up while the transaction may still be mined, `Crash` a restart from
disk with the transactions already sent still pending.

Assumptions: only the sidecar's facilitator key drives the escrow; a round is
saved atomically. Local cancelling leaves stakes on chain by documented design
(the operator cancels on chain separately), and no property says otherwise.
Left out: display names, robots and lanes, expiry of robot sessions, timestamps,
evidence and proof hashes; a driver who is absent is one without a wallet.
Autostart is covered as the requests it makes, not as a timer; the development
routes are sequences of the same requests.

### NativeRoom

Built like `RaceRoom`, with `Rounds` and `RaceLedger`. A call first reads
(`nextRaceId`, or the receipt of a driver's join), then estimates its transaction
(`SendTransaction`: it must succeed as things stand), then waits. `unmined` holds the
facilitator's transactions in the order of their nonces; `Mine` takes the first, which
may revert by now, and the waiting handler goes on either way, because `wait` does
not look at the receipt's status. `GiveUp` is a wait that ends in an error or a
restart of the sidecar. Drivers join by themselves (`DriverJoins`).

Assumptions: native rounds go through the `/clanker500` routes and the general routes
that finish a race, choose a winner and cancel; drivers learn a race's id from its
round; rounds in memory and on disk are the same, since the only function that lets
them differ is `lockRound`, which `RaceRoom` has.

### SolanaEscrow, SolanaMarket, SolanaProgram

One action per instruction; an instruction that fails is undone as a whole. The caller
chooses which of a driver's token accounts pays or is paid, so a driver has several
(`TokenAccounts`, `Owner`); `StakePool`'s purse is their sum. Vaults are per race and
per market. A bet and a nullifier are accounts that can be created once. Drivers' and
bettors' token accounts are taken to be different ones. Left out: timestamps, hashes,
rent, the registries and the treasury of the same program.

### RaceMarket and BettingRoom

`RaceMarket` has an action per external function. `CanOpen`, `CanBet`
and `CanSettle` say that a call does not revert, since `BettingRoom` also
sends calls that do. `wager` is history, the stake as it was before a claim clears it.
Nobody sends tokens to the market other than by betting.

In `BettingRoom` each request to `/race/open`, `/race/bet` or `/race/finish` is a handler
with one action per stretch of code between two awaits. `Mined` lets a transaction take
effect or revert; `Fail` is an awaited call that throws, after which the transaction
may be lost or be mined late (`"orphan"`); `Restart` loses everything in memory.
`opened` and `result` are history: what the room caused and recorded. So is `untimely`:
for each race of the room, which of four circumstances `/race/open` met, since the route
waits for none of them. `"open"` is another open request, or its transaction though the
request has failed or the sidecar has restarted since; `"photo"` a finish whose photo is
awaited; `"bet"` a bet whose transaction a handler is waiting for; `"settlement"` a pending
settlement of the race the market will open next. The last one comes from a room race whose own open reverted
unnoticed (another key was judge). By nonce it is mined before the next open and reverts;
here transactions of one key are mined in any order, which covers dropped and resent ones.
The guard's key is used by this sidecar only, so a replaced judge makes
no calls; `RACEMARKET_ADDRESS` is set.

### Harness

The handlers run on tokio's multi-threaded runtime and hold one lock at a time,
so a request is a task with one step per critical section: check, write, record.
A message on a drive socket is a drive request, the end of a socket is the request
`close`. `lapsed` is the deadman's comparison of `last_cmd_at` with
`deadman_ms`; it may become true at any moment and is cleared by recording a
drive. `WriteFails` is the serial port failing before or while flushing; drive and
stop handlers give up, the deadman and a closing socket log and go on. Whether
drives need a token is a start-up option, chosen in `Init`. Both wheels are one
signed speed; the soft odometry limit may turn any forward speed into zero.
Left out: camera, lidar, telemetry, camera aim, and what is kept only to be
displayed.

### RobotLink

One robot as the sidecar sees it; a callback is one action, and each turn of the
REST loop (`flushRestDrive`) is `Deliver` or `RequestFails`. `last` is `lastCommand`,
`stopped` is `stoppedByDeadman`, `pending` and `carrying` are the command that waits
for the loop and the one it is sending. `listed` says whether a channel is still in
`pilotClients` or `webrtcPilotClients`: authorizing and revoking clear these maps at
once, while the channel's own end comes later (`Disconnect`). `received` is the
command that last reached the robot's end; a failing request may have reached it, at the
moment it fails or before, but not later.
A session past its end and one removed are the same (`Off`), since `requireSession`
refuses both. Sockets deliver in order and at once; a socket that is open on one
side only is not modelled. The minimal interval between frames drops frames, which
is no step. Left out: camera aim, telemetry, traces, the probing of robot addresses
(a failing probe is a failing request), and the token cache.

### HarnessBridge

One robot's bridge. A frame whose token is not known with its speed mode is in the bag
`awaiting` until its request ends; requests end in any order. `target` is the latest
drive and camera target with its freshness; `Flush` is one tick of the timer, `captured`
what ticks that await a socket will send when it opens (they go on together, so the
last one counts). Over REST, `posting` and `latestRestDrive` are the command being
sent and the one that waits. `told` says whether the last command the harness got
moves the robot. A command is its token, its mode, and whether it moves anything.
Left out: telemetry, and the robot's addresses.

## 3. Runs

Deadlock is checked in `Harness`, `RobotLink`, `RaceMarket`, `BettingRoom`, `SolanaProgram`
and `HarnessBridge`. The EVM escrows and the two rooms of stakes set
`CHECK_DEADLOCK FALSE`: when their bounds are used up and their races are over, they
really have nothing left to do.

| Run | Shows | Bounds |
|---|---|---|
| `RaceEscrow_amounts` | consent, fees, stakes before the start, final results | one race, two drivers, two signed entries, two stakes, two keys and two treasuries, one tick |
| `RaceEscrow_races` | money of one race never pays for another; both refinements | two races, four entries, fixed amounts |
| `Clanker500_races` | both refinements, two different drivers | two races, two stakes, two keys, drivers who refuse coin |
| `RaceRoom_faults` | the round lags behind its race, stakes are findable on disk, joins agree | one round, two races, two concurrent calls, crashes and lost receipts |
| `RaceRoom_results` | result and status follow the chain; robots are released after the chain's lock | one round, one race, two calls, crashes |
| `NativeRoom_races` | what a native round says of its race, its joins and its stakes is so | one round, two races, two calls, two transactions under way, waits that give up |
| `SolanaProgram_accounts` | exact vaults, claims covered, all three refinements | two races, three token accounts of two drivers, two facilitators; a market with three bettors and one judge |
| `RaceMarket_bets` | claims are covered on a shared balance; refinement of `BetPool` | two races, three bettors, bets of 0 to 2, two keys |
| `BettingRoom_races` | the market's winner is the room's and bets stay with their race, but for races opened at certain moments | two races, two requests at once, one human, a judge who changes |
| `Harness_requests` | caps, latched stop, ended round, deadman | two threads, deadman, one pilot, three speed modes of which two are given, failing port |
| `RobotLink_pilots` | grants, the stop mark, the sidecar's deadman | two sessions, one socket and one data channel, two modes, full reverse and zero, failing requests, one replaced robot socket |
| `HarnessBridge_frames` | granted commands, rest after silence, no command left waiting | one pilot, two modes, drive and camera frames, two of which await the harness at a time, sockets or REST |

Why these bounds are enough. Money is shared between races, so two races suffice
for one to be paid with the other's stakes. A replay needs one signature used
twice, a stale entry one tick or one more signed entry. In `RaceRoom` every hazard
is one call overtaking one other request or call: two calls at a time and any
number of handlers without awaits cover it, and the second race is the one
that a stale `nextRaceId` leads to. Overtaking in the harness takes two threads, and the deadman
is a third. A frame that overtakes another takes two that await the
harness. Rounding shows with three bettors, two of them on the winner, and a shared
balance with two races. In `RobotLink` a session matters to the next one only, and what is left of
a replaced pilot is one channel beside the new pilot's. Drivers, wallets, rounds and call places are interchangeable, so
symmetry is used wherever the run has no liveness property and no operator picks
among them.

### What the properties say

- *Escrow.* `EntriesConsented`: every entrant signed for that race, slot and
  amount, and no signature is used twice. `FeesAccounted`: the two counters and the
  treasuries' money agree, across changes of treasury. `StakedBeforeRun`: from
  `Locked` on, both stakes are in. `ResultStands`: a finished race keeps its winner
  and cannot be cancelled. `Solvency`: the contract owns exactly the open stakes.
  `MoneyMovesByRace`: every step moves what is owed to at most one race, and the
  balance by exactly as much.
- *Room.* `LocalBehindChain`, `StakesKnown`, `JoinsAgree`, `ResultAgrees`,
  `OutcomeStands`: what a round says about its race is true of
  it at every moment between any two awaits, and what is decided stays decided.
  `LockedWithStakes`: a round that has a race is locked, and its robots handed out, only
  after the race was locked on chain, and the race's entrants are the wallets that hold the
  round's slots at that moment. It does not say that the race still stands (weakness 12).
- *Native room.* `BehindUnlessCancelled`: a round never says more of its race than is
  true, although reverted transactions are not noticed, unless one of the two has been
  cancelled. `ConfirmedIsStaked`: a driver who is down as joined has a stake in that slot.
  `LockedRoundsAreStaked`: a round that is locked or runs has both stakes in.
- *Solana.* `VaultsExact`: each vault holds its race's open stakes, the treasury the fees.
  `VaultCoversClaims`: every claim can be paid.
- *Bets.* `ClaimsCovered`: the market's balance covers what all races owe, despite
  rounding. `SettledAsRaced`: a market race that is settled has the winner the room recorded
  for the race it was opened for, unless some race was opened while another open, its
  transaction, a finish photo or the settlement of a race never opened was outstanding.
  `BetsFollowRace`: a bet in the odds that has a stake has it in the market's race of the
  present one, unless that one was opened while another open, its transaction or a bet's
  transaction that a handler waited for was outstanding. Everything else may be under way when
  `/race/open` is called, and anything may overlap, fail, be mined late or be cut off by a
  restart at other times. Without the conditions neither holds (weakness 13).
- *Harness.* `SpeedsCapped`: the cap of the mode reported with a command holds,
  although modes change while drives are under way. `LatchedStopHolds`: with the stop
  latched, the motors at rest and no drive past its check, nothing moves them.
  `EndedRoundHolds`: after the last session has ended and the last drive is done,
  the motors only come to rest. `DeadmanClears`: if drives cease, the recorded
  command becomes zero for good.
- *Link.* `SpeedsGranted`: no command on its way exceeds what its own session was
  granted. `StoppedStays`: while telemetry shows the robot as stopped, nothing that
  moves it is sent, except a request already under way. `SilenceStops`: without frames
  and mode changes the recorded command becomes zero for good.
- *Bridge.* `CommandsGranted`: what is or may still be sent carries a token the harness
  was given with that mode. `RestsWhenQuiet`: when frames cease, each socket's channel
  is told to rest for good or has no socket. `QueuedIsSent`: over REST no command waits
  for ever.

Type invariants: `RaceEscrow`'s is checked by a run. `TypeOK` is proved for `RaceEscrow`,
`RaceRoom`, `NativeRoom`, `Harness`, `RobotLink`, `Clanker500Escrow` and `BettingRoom`, and its
equivalents for the bridge, the market and the Solana program are parts of their inductive
invariants.

### Fairness

`Harness` and `RobotLink` have one liveness property each, `HarnessBridge` two. In `Harness`, weak fairness is
assumed for the steps of a task that has begun (`TaskStep`: a thread goes on), for
the deadman's loop (`CheckDeadman`: it wakes every 50 ms) and for the clock (`Lapse`).
In `RobotLink` it is assumed for the deadman's interval timer, the clock, and the end
of a request, which `AbortSignal.timeout` forces after 1.5 s. In `HarnessBridge` it is assumed
for the flush timers, the clock that makes a target stale, and the end of requests;
nothing is assumed of the sidecar or of the sockets, which may stay closed. Nobody is obliged to
send a request. The escrows and the room have no liveness to offer on their own:
every step of theirs is somebody's decision.

### Known weaknesses

The properties are stated so that they hold of the code as it is. The following are the
places where a reader might expect more. The definitions named here are in the modules
and do not hold; adding one to a configuration shows the counterexample.

1. `SettleCanBeRetried` (`RaceRoom`): if the receipt of `finishRace` is lost,
   `operator/settle-winner` sends `finishRace` again for ever and the pot stays in the
   escrow, although `docs/LOCAL_CHAIN_RACE_HARNESS.md:164` calls the route idempotent.
2. `OneRoundPerRace` (`RaceRoom`, two rounds): two concurrent opens read the same
   `nextRaceId` and attach one race to two rounds. So may two native rounds (`NativeRoom`, whose
   run has one).
3. `EstopStops` (`Harness`): a drive that passed its check before an emergency stop and
   writes after it leaves the motors running with the stop latched and the recorded
   command zero (`robot-harness/README.md:135`).
4. `MotorsWatched` (`Harness`): a drive that overlaps the deadman's stop leaves the motors
   running with the recorded command zero, which the deadman ignores.
5. `MotionWatched` (`RobotLink`): a session issued over a WebRTC pilot who is driving zeroes
   the recorded command without sending it, and the sidecar's deadman then sees a command
   at rest; only the harness's own deadman is left.
6. `attachChainRace` sets `chainStatus` back to "opened" when a race is opened again, or
   when the answer to a second open comes late. A round already joined or locked cannot
   go on then (`RaceRoom`), or goes on locally only and cannot be settled (`NativeRoom`).
7. Clanker500: a cancel mined after `finishRace` reverts, the round is marked canceled
   all the same, and the sidecar will not settle the race any more. `confirm-join` compares
   the sender with the wallet of the request, not with the one that claimed the slot.
8. Betting: the stakes of all the room's bettors come from one account, so the market
   takes one per race (`settle.ts:199` reads otherwise); arming the room does not close the
   market; if settling fails after the winner was recorded, it cannot be retried; receipts
   are not looked at.
9. Bridge: a drive that awaits its token can overtake a later stop, until it is stale;
   over REST nothing is sent when the sidecar's socket closes; the bridge's map of tokens
   and the harness's may disagree after two mode changes at once.
10. A stop sent over the robot's socket can overtake a drive request still under way,
   which is why `StoppedStays` begins when that request has ended.
11. Autostart's timers are lost in a restart, and two concurrent fee payments of one
   driver may both be made; neither is in a model.
12. `LockedRaceStands` (`RaceRoom`): `lockRound` goes by the status marked last. If a cancellation is
   mined before it is marked, or its answer is lost, the round is locked and the robots are
   handed out for a race that has been refunded.
13. `WinnersMatch` and `StakesMatch` (`BettingRoom`) are what `SettledAsRaced` and `BetsFollowRace`
   say without their conditions. Each condition is needed; every one of these happens:
   - `/race/open` times out or the sidecar restarts while its transaction is pending. The
     next call reads the same `nextRaceId` (`settle.ts:191`); once both are mined, the room bets on
     and settles the race of the first call.
   - `/race/open` is called while a finish photo is awaited. `onChainRaceId` is read after the
     photo (`index.ts:525`), and the new race is settled with the old winner.
   - `/race/open` is called while a bet's transaction is awaited. The answer puts the bet into
     the new race's odds (`index.ts:446`), with its stake in the old one.
   - A settlement of a race whose open had reverted unnoticed (receipts are not looked at) is
     dropped and sent again after the next open: it settles the race that got the id.

## 4. Theorems

All theorems are about every value of the constants that satisfies the modules'
assumptions: any number of drivers, races, bettors, rounds, calls, tokens, threads and
frames, and any amounts. "States" gives the property of a run the theorem is about, if
there is one.

| Module | Theorem | States |
|---|---|---|
| `RaceEscrow_proofs` | `InvariantHolds`, `TypeCorrect` | `[]IInv`, `TypeOK` |
| | `RacesAreStaked` | `StakedBeforeRun` |
| | `AlwaysSolvent` | `Solvency` |
| | `LedgerByRace` | `MoneyMovesByRace` |
| | `FeesAgree` | `FeesAccounted` |
| | `EntriesAgreed` | `EntriesConsented` |
| | `ResultsFinal` | `ResultStands` |
| | `Refinement`, `LedgerRefinement` | `ImplementsStakePool`, `ImplementsRaceLedger` |
| `Clanker500Escrow_proofs` | `InvariantHolds`, `TypeCorrect` | `[]IInv`, `TypeOK` |
| | `DriversDiffer` | `TwoDrivers` |
| | `Refinement`, `LedgerRefinement` | `ImplementsStakePool`, `ImplementsRaceLedger` |
| `SolanaProgram_proofs` | `VaultsStayExact` | `VaultsExact` |
| | `EscrowRefinement`, `EscrowLedger` | `ImplementsStakePool`, `ImplementsRaceLedger` |
| | `ClaimsPayable`, `MarketRefinement` | `VaultCoversClaims`, `ImplementsBetPool` |
| `Betting_proofs` | `InvariantHolds` | `[]IInv` of the market |
| | `ClaimsPayable`, `Refinement` | `ClaimsCovered`, `ImplementsBetPool` |
| | `RoomUsesMarket` | `Spec => MarketSpec` |
| | `RoomTypeCorrect`, `RoomInvariantHolds` | `[]TypeOK`, the room's invariant |
| | `RoomClaimsPayable` | `ClaimsCovered`, behind the room |
| | `RacesSettledAsRaced`, `BetsStayWithRace` | `SettledAsRaced`, `BetsFollowRace` |
| `RaceRoom_proofs` | `InvariantHolds`, `TypeCorrect` | `[]IInv`, `TypeOK` |
| | `NeverAhead` | `LocalBehindChain` |
| | `StakesStayKnown`, `JoinsAreReal` | `StakesKnown`, `JoinsAgree` |
| | `ResultsAgree` | `ResultAgrees`, where `OneRoundPerRace` |
| | `OutcomesFinal`, `LocksFollowStakes` | `OutcomeStands`, `LockedWithStakes` |
| `Harness_proofs` | `InvariantHolds`, `TypeCorrect` | `[]IInv`, `TypeOK` |
| | `CommandsStayCapped` | `SpeedsCapped` |
| | `LatchedStopKept`, `EndedRoundKept` | `LatchedStopHolds`, `EndedRoundHolds` |
| | `BridgeInvariantHolds`, `CommandsAreGranted` | `[]BridgeInv`, `CommandsGranted` |
| `Sidecar_proofs` | `InvariantHolds`, `TypeCorrect` | `[]IInv`, `TypeOK` of `RobotLink` |
| | `GrantsKept`, `StoppedRobotStays` | `SpeedsGranted`, `StoppedStays` |
| | `NativeInvariantHolds`, `NativeTypeCorrect` | `[]NativeInv`, `NativeTypeOK` |
| | `ConfirmedStaked`, `LockedStaked` | `ConfirmedIsStaked`, `LockedRoundsAreStaked` |
| | `NativeBehind` | `BehindUnlessCancelled`, where `OneRoundPerRace` |

### The inductive invariants, and why they are needed

- *RaceEscrow*: `IInv == TypeOK /\ StakedBeforeRun`. `TypeOK` alone does not type a payout:
  `SettleRace` pays `entrant[r][winnerSlot[r]]`, which is `NoDriver` unless both slots were
  joined before the race was locked, and that is `StakedBeforeRun`. The fees are
  carried as sums over races and treasuries (`FeeSums`), and consent as a count (`Consent`): a
  driver's entries are as many as the nonces used, each has its signed entry behind it, and each
  used nonce an entry, so no signature can serve twice.
- *Clanker500Escrow*: `IInv == TypeOK /\ RacesStaked /\ TwoDrivers`, for the same reason.
- *SolanaProgram*: `EscrowInv` adds to the types that entries are exactly the joined slots,
  that a vault holds its race's open stakes, that races are opened in order and that the
  treasury holds the fees. `MarketInv` is that of `RaceMarket`, vault by vault.
- *RaceMarket*: `IInv == MarketType /\ BetsRecorded /\ PoolsAreSums /\ Covered`. That a
  balance covers the claims is not inductive as it stands: a claim divides by the winners' pool,
  and the shares sum to at most the pot only because each pool is the sum of its bets and
  an open bet is the bettor's recorded stake. `Covered` sums over races, `PoolsAreSums` over
  bettors.
- *BettingRoom*: `RoomUsesMarket` shows that every step of the room is a step of the market or
  leaves it alone, so what the market promises to any caller holds behind the room. The two
  properties of the room rest on `RoomBase` (types and what each handler awaits) and `InTime`:
  which market race every awaited answer and every late transaction belongs to. It speaks of
  all behaviours, and each of its parts carries the condition it needs: `OpenClear` (the last
  race was not opened while another open was outstanding) for the link between `onChainRaceId`
  and that race, `BetClear` (nor while a bet was awaited on chain) for the odds, `Timely` (the
  condition of `SettledAsRaced`, on all races) for the results.
- *RaceRoom*: `IInv == TypeOK /\ RoundsSound /\ CallsSound /\ ChainSound /\ StakesKnown /\
  ResultKept`. A round lags behind its race only because every call that will mark it does too,
  and that needs what each call, before and after its transaction is mined, knows of
  its race: `CallsSound`. A restart takes a round back to what was saved, so `RoundsSound` also says how
  far disk may be behind memory, and `ResultKept` that a finished race has a round on disk with
  its winner. `RoundsSound` includes the shape of a round by itself (`Shaped`): in
  particular, one that is down as joined or locked on chain has both drivers down as joined,
  which is what ties the wallets in the slots to the race's entrants when the round is locked.
  `ResultsAgree` is stated for states in which no race is attached to two rounds;
  known weakness 2 is that one may be, and its result is then that of one of the two only.
- *NativeRoom*: `NativeInv == NativeTypeOK /\ RoundsSound /\ CallsSound /\ TransactionsSound /\
  ChainSound /\ ResultsWon`. A handler does not look at its receipt, so what it may rely on when
  it resumes (`Answered`) has to hold of a transaction that reverted as well. It does because the
  transaction was sent when its race was where it needs it to be (`TransactionSound`), and races only
  go on (`ChainGrows`): where it reverts, another has already brought the race that far, or
  cancelled it (`PastNeeds`). `Awaited` says that a handler waits for a transaction of its own
  kind and race, and that nobody waits for two, so that an answer is never taken for another's.
  A late answer to opening may reset `chainStatus`; `RoundSound` therefore speaks of a
  running round's race by its status as well. Whose a result is, `NativeBehind` says only where no
  race is attached to two rounds, as in `RaceRoom`; that a result is some round's
  (`ResultsWon`) holds without.
- *Harness*: `IInv == TypeOK /\ SpeedsCapped /\ OnlyDrivesMove`. A command is recorded within
  its cap only because no task but a drive carries a speed, and the motors keep their type only
  because the caps hold.
- *HarnessBridge*: `BridgeInv` adds to `CommandsGranted` the types and that the mode the bridge has
  recorded for a token is one the harness was given: `authorizedTokens` is what lets a
  frame pass without asking. `PassesOn` names what the actions hand on to one another.
- *RobotLink*: `IInv == TypeOK /\ CommandsIssued /\ SessionsWithin /\ RestWhileStopped`. A command
  stays within its session's grant because its session stays what it was when the command
  was given, and a stopped robot stays so because what waits for the REST loop is at rest too.

### How the proofs are laid out

Each module proves that the initial states satisfy the invariant, that each action keeps it (one
lemma per action or group of actions, such as `JoinIInv`, `SettleIInv`, `CancelIInv`, which
`NextIInv` combines), and combines the two with temporal reasoning. The refinement proofs go the
same way: one lemma per action that maps to an abstract step (`JoinMaps`, `SettleMaps`, `CancelMaps`)
and one for all that stutter (`StillMaps`).

Sums over races, bettors and treasuries are `MapThenSumSet` of the community modules.
`SumLemmas` proves what the others need of it: the sum is a natural number, it moves with one
term by as much, terms that agree give sums that agree, and shares rounded down add up to no
more than the pot. The library's theorem on induction over finite sets takes an operator as its
parameter, which the provers cannot instantiate; the lemmas argue by a minimal counterexample instead.

### Assumptions

Each is an `ASSUME` of the module it is about, and TLC evaluates it in every run. Besides the obvious (a
stand-in such as `NoDriver` is none of the values it stands beside), these are: drivers
are neither the treasury nor the escrow (`AccountsAssumption`); the sets summed over are finite
(`Treasuries`, `Bettors`, the Solana program's `TokenAccounts` and `Markets`); the caps of the speed modes are in
order (`HarnessAssumption`, `LinkAssumption`); in `RaceRoom` what a fee request reports is a
fee status (`FeesAssumption`). Bounds such as `MaxOpens` need only be natural numbers.

### What is model-checked only

- Liveness: `DeadmanClears`, `SilenceStops`, `RestsWhenQuiet`, `QueuedIsSent`. Fairness and `ENABLED` are
  out of the prover's reach.
- What `BehindUnlessCancelled` and `ResultAgrees` say of results where one race is attached to two
  rounds: nothing, as known weakness 2 shows; the runs have one round.

## 5. Plan

Evidence hashes, join fees, autostart timers with fairness, the negotiation as a
bounded algorithm.

## 6. Not modelled

Of the modelled components: autostart timers and join-fee payments of the room, camera
aim and telemetry of the link and the bridge, the pilot sessions of `race.ts`, the Solana
program's registries, treasury and attestation, and `chain-backend.ts`, which chooses the
client at start-up.

PROJECT.json lists every component with its status and reason. In short: identity
and naming services, telemetry, events, leaderboard and the web clients do not
decide anything about money or motors; finish detectors and estimators are numeric
signal processing; robot scripts drive hardware; deployment scripts run once. The
registries (Treasury, reputation, event pass, attestation) are single-transaction
contracts with little interaction.
