# Verification of the Planet CharLu client

TLA+ models of the Planet CharLu client (a Python 3.11 asyncio client of the
SpacePort Bazaar trading protocol), TLC runs that check them on small instances,
and TLAPS proofs of the results that matter most. `PROJECT.json` lists the
components, runs, mutants, hazards and theorems, and maps every definition to the
lines it stands for.

## 1. The system

| Component | State | Operations | Talks to |
| --- | --- | --- | --- |
| Session (`session.py`) | `world` (latest snapshot), `_pump_error`, `_world_updated` event, the pump task | `open_session` (handshake), `_pump`, `send`, `sync`, `wait_for`, `reconcile`, `stop_pump` | Connection, Commands; read by the Runner |
| Commands (`commands.py`) | table request id -> future | `register`, `resolve`, `reject`, `fail_all`, `discard`, `send_command` | settled by the pump, awaited by the Runner |
| Connection (`connection.py`) | the WebSocket | `send`, `messages`, `close` | the Bazaar server |
| Runner (`strategy.py`, `_run_trading`) | loop position, latency samples | decide, record, send with a 15 s deadline, reconcile with another, back off, or sleep until a newer snapshot | Session, policies, run log |
| Policies (`strategy.py`: `BaseStrategy`, `RestrainedTradingStrategy`, `SimplifiedTradingStrategy`) | attempts of the tick, commands sent, retry tick, partner rotation, last advertisement, measured delays | `choose`, `record` | Domain |
| Domain (`domain/*.py`) | immutable views of a snapshot | bundle arithmetic, expiry, filters over offers | Policies |
| Live report (`structured_log.py`, `main.py`) | events `_dirty`, `_stopping`, a worker task, up to one thread per caller | `request_refresh`, `_render`, `__aexit__`, final renders | run log, Runner |
| Run log (`structured_log.py`) | the JSON Lines file, `_seen_transactions` | `tick_snapshot`, `transactions_settled`, `decision`, `command_result`, `run_ended` | written by the Runner, read by the live report |
| Scenario (`scenario.py`) | position in a ten-step script | `run_sample_scenario`: six commands, a wait after each, the final sync | Session; the validator |
| Codec, config, text log, HTML summary, generated code, validator binary | none that decides anything | conversion, input, formatting | |

**How they interact.** One asyncio loop runs two tasks on the session: the
*pump*, the only reader of the socket, which replaces `world`, settles the futures
of the request table and sets the event; and the *runner*, which decides on
`world`, registers a future, writes the command, awaits the future and then waits
for a snapshot that shows the effect. They share `world`, `_pump_error`, the
request table and the event. The policies are synchronous and pure but for
their own memory. The live report adds a third task and real threads, which share
the log file and the page.

**What is hard here.**

- Ticks, results and snapshots are pushed independently: "newer" does not mean
  "includes my command".
- The event is cleared and re-tested around an await, by a runner that may sleep
  without any deadline.
- Replies may arrive before the write that caused them returns, or after the
  deadline has cancelled the caller.
- A decision is made on one stock and takes effect on another, with several
  offers open that partners may accept at any moment.
- The request records are a lifetime budget shared by every decision.
- Transactions, results and acceptances are pushed in no fixed order, and every
  snapshot repeats all transactions: what is learnt, timed or logged from one must
  be so once, and not before the result it belongs to.
- The scenario waits for world versions by number, without a deadline on its sends.
- Cancelling a task does not stop the thread it awaits.

**What makes each part correct.** *Session*: decisions only on snapshots that
reflect all earlier commands; no lost wake-up, no lost reply, no leaked table
entry; snapshots only move forward; a dead pump stops the client; every command
ends. *Policies*: promised stock is there while the upkeep kept for it lasts; at most one open offer per partner,
within the limit; the budget is never overrun and routine spending leaves the
reserve; trades are never unfavourable; imports are not given away; gifts do
not eat the reserve; nothing is ordered twice; every settled order is timed.
*Run log and live report*: no transaction is logged twice or later than its tick;
one writer at a time; the page never goes back; no refresh request is lost;
shutdown ends and leaves the complete report. *Scenario*: against a validator that
keeps to its guide the script never fails, sends nothing before it has handled
what is due, and ends; a report of completion is true whatever the validator did.

## 2. Modules

Session part:

| Module | Models |
| --- | --- |
| `PendingTable` | `PendingRequests`: the table and what each operation does to the futures it handed out |
| `Session` | handshake, pump, runner and shutdown around an unspecified decision; the server by what the client relies on |
| `ReadYourWrites` | the abstract promise: one command at a time, none issued before the effects of all earlier ones are seen |
| `SessionProperties` | types, properties, the refinement mapping, the inductive invariant |
| `MCSession` | instance for TLC |
| `SessionProofs`, `SessionSafetyProofs` | lemmas on queues and types; the inductive invariant and the theorems |

Trading part:

| Module | Models |
| --- | --- |
| `Resources` | bundles and their arithmetic |
| `Market` | what a policy sees and remembers, the commands, the accounting both families share |
| `TradingPolicy` | `choose` of `BaseStrategy` and `RestrainedTradingStrategy` |
| `SimplifiedPolicy` | `choose` of `SimplifiedTradingStrategy` |
| `Trading` | a policy on a market that moves between a decision and its effect |
| `TradingProperties`, `MCTrading` | properties; instance for TLC |
| `PromiseProofs` | the fold that adds up what open offers promise, counted in parcels |
| `PolicyProofs` | what a decision of any policy can be |
| `TradingProofs` | the invariants of the market and the theorems |
| `Latency` | the measurement of the delays the default policies adapt to, on `Trading` |
| `LatencyProperties`, `MCLatency`, `LatencyProofs` | properties; instance; proofs, with the refinement of `Trading` |

Log and report part:

| Module | Models |
| --- | --- |
| `LiveSummary` | the render task, its threads and the shutdown path around an unspecified loop |
| `LiveSummaryProperties` | properties of the report |
| `RunLog` | the trading loop's log entries, on `LiveSummary` |
| `RunLogProperties` | properties of log and page |
| `ReportProofs` | the proofs about both, with the refinement of `LiveSummary` |

Scenario part: `Scenario` (the script and its validator, on `Session`),
`ScenarioProperties`, and `ScenarioProofs`, which uses the session's lemmas.

### 2.1 Session

An action is what a task does from one await to the next, so interleavings of pump
and runner are those the event loop allows. `pc` names the await at which
the runner is suspended:

| `pc` | Code |
| --- | --- |
| `AwaitState`, `AwaitReadiness` | the two reads of `perform_readiness_handshake` |
| `Loop` | the top of `_run_trading`'s loop, with a snapshot just read |
| `SendTask` | `wait_for(session.send(...), 15)` has created the task, which has not run |
| `Flushing`, `AwaitResult` | inside `connection.send`; awaiting the future |
| `SyncTask`, `SyncCheck`, `SyncSleep` | `sync`: task created, request written, asleep |
| `Synced`, `IncludeSleep` | `reconcile`'s second wait |
| `Idle` | `wait_for(..., timeout=None)` after `choose` returned `None` |
| `Stopping`, `Stopped` | left the loop; after `main`'s `finally` |

`Decide`, `SendStart`, `SendFlushed`, `ReceiveOutcome`, `SyncStart`, `SyncWait`,
`IncludeWait`, `IdleStart`, `IdleWait` and `Finish` are the runner's steps;
`PumpState`, `PumpResult`, `PumpProtocolError`, `PumpUndecodable` and
`PumpClosed` the branches of `_pump`, each with its `finally`. `Timeout` is
either 15-second deadline, at any await it covers, even when the answer has
just arrived; `Interrupt` is Ctrl-C. A snapshot is a record of what the
properties tell apart: run, sequence, version, phase, health and the set of
recorded requests.

The server is external. It is constrained only where the client relies on it:
messages arrive in order, `snapshot_sequence` counts the states pushed on a
connection, versions do not decrease, an applied command is recorded in later
snapshots, and a result that states a version states one that covers the effect.
Otherwise it is free: it never answers, answers twice as fast as the write returns,
repeats a snapshot, sends garbage or a state of another run, pauses, or closes with
a suffix of its messages lost.

### 2.2 Trading

`Decide` evaluates the policy on the current `view` and records the decision, as
`choose` and `record` do; `Apply`, `Refuse` and `RateLimit` are the server's
answer, any number of market steps later (`Tick`, `PartnerAccepts`,
`PartnerOffers`, `PartnerWithdraws`, `PartnerAdvertises`). The steps in between
are those of `Session`; the two models meet in one fact, proved there
(`DecidesOnSettled`): a decision is only made on a snapshot that reflects every
earlier command, hence at most one command is outstanding (`command`). A
snapshot that is old when it is read is the same as a `Decide` followed by market
steps. `Restart` is a new process: a new policy object that counts the records it
finds, on a server that has fenced off the old connection.

An operator of the policies yields the *set* of decisions the code may return:
empty for `None`, more than one where the order is left to ids, to the
iteration of a set or to the order of the snapshot's lists. Both `choose`
functions keep their order of branches (withdraw, accept, urgent purchase,
advertise, routine purchase, gift; for the simplified policy withdraw, accept,
refill, advertise, share). The thresholds that adapt to delay are functions of
the delay `l` in ticks; `Decide` takes any `l` up to `MaxLatency`.

`Latency` says where `l` comes from: `samples` is `latencies`, `waiting`
`pending_trade_times`, `seen` `seen_transactions`. `Learn` is `_learn_suppliers`,
the first thing `choose` does, whether it then decides (`TimedDecide`) or not
(`Look`); `Reconcile` is the end of the loop's pass, which starts to time an order
and records how long the command took. An acceptance (`OrderSettles`) may come
before the result is read. Delays are counted in ticks of one length and rounded
up as `latency_ticks` does; a change of speed during a run is covered by `Trading`
only, whose delays are free. `Latency` implements `Trading` (section 4).

### 2.3 Live report and run log

A report is named by the number of events it shows. `worker` is the position of
`_render`, `main` that of the main task, `render[c]` the thread that caller `c`
(the worker, `__aexit__`, `_run_client`'s `finally`) has at work: queued, or between
reading the log and writing the page. `Interrupt` cancels whatever the main task
awaits and drops a thread only if it has not started. The environment's faults
are counted: `interrupts` and `failures` (renders that raise).

`RunLog` puts content into the entries: `view` is the snapshot of the present pass
of `_run_trading`'s loop (`Pass`), any number of pushes after the last, and `log`
holds the transactions of each entry. Its steps are named for the stage of the
loop (`Wait`, `Decide`, `Result`, `Reconciled`, `Finished`, `TimedOut`, `Failed`)
and each is one of `LiveSummary`'s logging steps, so that the numbers of events
`LiveSummary` counts are the lengths of `log`.

### 2.4 Scenario

`Scenario` keeps `Session`'s connection, handshake, pump, waits and sync, and
replaces the runner by the script: `Begin`, `ScriptSend`, `StepAnswered`,
`WaitForSnapshot` for each of the six commands (`cur`), `GiftIsGone`, `StepFailed`,
`ObjectMissing` and `LimitDenied` where `_require` or an exception ends it, `LimitConfirmed`,
`FinalSync` and `Complete`. `Awaited` is the predicate of each wait. `Deadline` is
the five seconds of `wait_for` and `sync`; `session.send` has none.

The validator is external and modelled by `validator/README.md` (`Guide`): results
and states in either order, P02's acceptance and gift as pushes of their own, the
sixth command refused. `Stray` is any departure, at most `MaxStrays`: every step
of `Session`'s server (ticks, repeats, faults, refusals, closing), a gift taken
back, or an answer later than a deadline.

## 3. Runs

| Run | Checks | Bounds and why they suffice |
| --- | --- | --- |
| `session` | `TypeOK`, `Inductive`, `DecidesOnSettledWorld`, `NoLostWakeup`, `ReplyIsKept`, `TableHoldsOnlyInFlight`, `WorldOnlyAdvances`, that `Session` implements `ReadYourWrites`, and the liveness properties `PumpDeathStopsRunner`, `CommandEnds`, `SnapshotWakesIdle` | 2 commands (an earlier one to be settled), 3 versions, 3 states (one for the handshake, and a tick and an answer in either order), 2 messages in flight: a result and its state, or a tick overtaking both |
| `session_pause` | finding 1 | 1 command |
| `trading_base` | default policy: `TypeOK`, `FirmOffersCovered`, `OpenOffersLimited`, `RoutineLeavesReserve` | 5 ticks and a cap on offers above the 5 ticks the code asks for, so that `max(5, 2L+1)` and the end of the run decide how long an offer lives; 2 partners who sell food, 3 records, 2 commands a tick, latency of 1 or 2 that changes between decisions; a stock of 9 water and 1 food, rich enough to promise and short enough to need a rescue |
| `trading_rescue` | finding 5 | an offer that lives the code's 5 ticks in a run of 6, one record |
| `trading_terms` | on `Latency`: `BudgetKept`, `TradesAreFavorable`, `ImportsAreKept`, `NoOrderSeenTooSoon`, `FewOrdersTimed`, `DelayTypeOK` | partners offer gifts, fair and unfair terms and ask for imports, to a station short of food and to one short of its specialty; 2 commands a tick, 2 records, one restart, one open offer that lives a tick, so that orders settle, expire and are followed by others; 2 ticks are enough to be rate limited, to back off and to run out of records; a window of 2 delays, which overflows |
| `trading_restrained` | `GiftsSpareTheReserve` | the 15-tick reserve scaled to 4, with offers of at most 2 ticks in a run of 7, so that the reserve ends before the run does; a stock just rich enough for a gift and a scarce one; partners who trade three units at once, enough to bring the stock down to the reserve on the day of the gift; a partner who sells nothing may advertise food before the end; two commands a tick, one restart of the client at any moment |
| `trading_simplified` | `CommitmentsCovered`, `OneOrderPerResource` | thresholds scaled from 25/15/5 to 4/3/2 ticks so that all of them are crossed in 5 ticks |
| `trading_budget`, `trading_survival` | findings 2 and 3 | the size of `trading_base`, no delay |
| `report` | `TypeOK`, `OneRenderAtATime`, `FinalReportIsComplete`, `LoggedOnce`, `SettledIsLogged`, `PageTellsTheRun`, `PageOnlyAdvances`, `RefreshIsRendered`, `ShutdownEnds` | 5 entries (one rendered, one during the render, one after, and two ticks to log), ticks 0 to 2, one transaction, one interrupt, one failed render |
| `report_interrupt` | finding 4 | 2 events, one interrupt |
| `scenario` | `HandledBeforeSending`, `NoSpuriousFailure`, `CompletedIsComplete`, `EndsOrAwaits`, `CompletesExercise` | the whole exercise (6 commands, 9 versions and states) with room for one state more, 4 messages in flight (a result, its state and both of P02's moves), one departure from the guide |

The trading runs have two interchangeable
partners (symmetry); nothing in the properties or in the policies tells them
apart. No run disables the deadlock check: the explicit `Terminated` steps are
the only places where a system may stop. `Inductive` is run so that a
counterexample to a conjunct shows before its proof is attempted.

`FirmOffersCovered` is what holds of the cover of open offers, for every policy, and
`CommitmentsCovered` what ARCHITECTURE.md:115-117 says of it: "Outgoing offers retain
upkeep for their lifetime". Routine purchases and gifts do retain it (`Spendable`,
strategy.py:311), but an urgent purchase leaves three ticks' upkeep
(strategy.py:340) and is open for `max(5, 2L+1)` ticks (strategy.py:307) if the
server's rules allow it. Three ticks' upkeep lasts for the day of the decision and
three more. An offer is *firm* while it has more of its life left than the longest
life (`LongestLife`) has beyond those four ticks (`Overhang`); with the code's five,
an offer of the full length is firm but for its last tick. While an offer is firm, all
that is promised of what it gives is in stock, whatever the delays and even if the policy
never acts again. That bound is exact: for one tick more TLC finds a violation, and
`trading_rescue` is the violation of `CommitmentsCovered`. The simplified policy has one
floor for all its offers, which lasts until the last of them has expired, so for it
nothing overhangs, and `trading_simplified` checks `CommitmentsCovered` itself. `trading_terms`
and `trading_restrained` are about other things and shorten offers to keep their graphs
small; the theorem covers every length.

`GiftsSpareTheReserve` is about what a gift may cost later. When it is made,
`can_gift` leaves upkeep for the reserve and the gift's whole life. A trade accepted
while the gift is open is only held to the reserve of its own day, and the ticks
after it are paid from that: what is left covers the reserve and the gift's
remaining ticks, less the ticks an offer may live. No more is true: in the
same run, the full reserve at every moment a gift is open is violated, by a
trade that leaves exactly the reserve and the tick after it, until the policy
withdraws the gift. What the property says is enough for nothing to become urgent while a
gift is open, provided the reserve is longer than the longest life of an offer by two
ticks and by twice the longest delay. The code's 15 ticks are, for delays of up to 3
ticks (longer ones if the rules cap the life): an offer lives 5 ticks for delays of 1 and
2, and 7 for delays of 3. The run keeps
the two ticks and the delay, on a reserve of 4 and offers of 2.

### Fairness

`Session!FairSpec` has weak fairness on the handshake, the pump, the runner, the
timers and shutdown: an asyncio loop runs every ready task and fires every due
timer. Nothing is assumed of the server, nor of Ctrl-C. `CommandEnds` therefore
rests on the two deadlines alone, and `PumpDeathStopsRunner` on the `finally` of
`_pump`. `LiveSummary!FairSpec` has weak fairness on the worker, on shutdown and on
each thread (file operations return); the trading loop may wait for partners for
ever. `RefreshIsRendered` and `FinalReportIsComplete` are stated of runs that are
`Undisturbed`: a render that fails is not retried before the next request.
`RunLog!FairLogSpec` is the same fairness.

`Scenario!ScriptFairness` adds the validator: as long as it has followed its guide
it goes on with it, and answers within the deadlines (an expiry of one while
something is due counts as a departure). After a departure nothing is assumed of
it, and `EndsOrAwaits` is what remains: the script ends, or waits for an answer that
has no deadline.

## 4. Proofs

Each holds for all values of the constants. `Session` and the properties use no
recursive operators, so that the SMT backend is available.

| Theorem | Module | States |
| --- | --- | --- |
| `InductiveInvariant` | `SessionSafetyProofs` | `Spec => []Inductive` |
| `TypeCorrect`, `DecidesOnSettled`, `WakeupsKept`, `TableBounded`, `ReplyNeverDropped` | same | the safety properties of the session |
| `WorldAdvances` | same | the action property `WorldOnlyAdvances` |
| `Refinement` | same | `Session` implements `ReadYourWrites` |
| `BudgetNeverOverrun` | `TradingProofs` | `Spec => []BudgetKept`, for every policy, market and number of restarts |
| `TradingTyped`, `OpenOffersStayLimited` | same | types (no quantity below zero); at most one open offer per partner, within the limit |
| `EveryTradeIsFavorable`, `ImportsStayOrBuySpecialty` | same | the action properties `TradesAreFavorable`, `ImportsAreKept`, for every policy |
| `RoutineSparesTheReserve` | same | the action property `RoutineLeavesReserve` of the default policies |
| `NeverOrderedTwice` | same | `OneOrderPerResource` of the simplified policy |
| `FirmOffersStayCovered` | same | `FirmOffersCovered`, for every policy, all rules and all delays |
| `CommitmentsStayCovered` | same | `CommitmentsCovered` of the simplified policy |
| `GiftsSpare` | same | `GiftsSpareTheReserve` of the restrained policy, if `RESERVE_TICKS - LongestLife` is at least 2 and `2 * MaxLatency` |
| `DelaysTyped`, `OrdersAreTimed`, `FewOrdersAreTimed` | `LatencyProofs` | types of the measurement; no settled order goes untimed; no more orders are timed than may be open |
| `MeasuringRefinesTrading` | same | `TimedSpec => Spec`: `Latency` implements `Trading`, so that all theorems of `TradingProofs` hold of it |
| `SummaryTypes`, `OneRender`, `PageAdvances`, `FinalReport` | `ReportProofs` | the safety properties of the live report |
| `EachLoggedOnce`, `EarlierTicksLogged`, `PageIsTrue` | same | what the log and the final page tell of a run |
| `LogRefinesSummary` | same | `LogSpec => Spec`: `RunLog` implements `LiveSummary` |
| `CompletedExercise` | `ScenarioProofs` | `CompletedIsComplete`, for any number of departures from the guide |
| `SendsWhenHandled`, `ScriptNeverFails` | same | `HandledBeforeSending`, `NoSpuriousFailure`: the exercise by the guide |

Assumptions: those of the modules (`BoundsAssumption`, `RulesAssumption`,
`PolicyAssumption`, `SimplifiedAssumption`, `TradingAssumption`, `LatencyAssumption`,
`SummaryAssumption`, `RunLogAssumption`, `ScenarioAssumption`: constants have their
types, this station is not its own partner, no delay is longer than `MaxLatency`, the
exercise has its six commands), which TLC evaluates in every run that has them.
Theorems about one policy or family of policies name it in their hypotheses, as
the table says.

*Session.* "The runner decides on a settled world" is not inductive: it says
nothing of messages under way. `Inductive` adds that every snapshot held or under
way is sound (not ahead of the server, a record implies the version of its effect)
and ordered by sequence, that results are honest, that at most one command is
with the server and it is the last one issued, unanswered, while the runner
awaits it, and that all commands but the last are settled. `NoLostWakeup` needs in
addition that an awaited future is either done or still in the table, and that
the pump has ended exactly when it has an error. `ReplyNeverDropped` is inductive
beside it: what is answered while the future is unset is unread, the server's
answer puts it there, and as long as the future stays unset what the pump reads
was not it, because the id is in the table. The refinement maps `issued` to
`1..cur`, `decided` to `answered`, `effective` to the requests with an effect and
`seen` to those at or before the version of `world`; the step `Decide` maps to
`Issue` because of `DecidesOnSettledWorld`, `PumpState` to `Observe` because of
`SnapshotsAreOrdered`.

`Inductive` is written in two layers. `Coherent` is what holds of the connection whoever
sends the commands: types, sound and ordered snapshots, effects that are
answered, one command at the server. The rest is about the trading loop. The
lemmas on the session's steps assume only `Coherent`, so that the proofs about the
scenario rest on the same ones.

*Trading.* `BudgetInv` adds to `BudgetKept` that the memory is a record whose count
is a number. Its argument: every policy passes `MayAct`, which compares the greater
of the two counts with the limit, and `record` counts before the server can.

The other properties are about a decision made on one state and applied in
another, so what is inductive is what the command under way relies on.
`MarketInv` says, besides types: every open offer has the form a policy or a
partner gives it (`OfferInv`, with `EvenTerms` for ours); the offer an `accept`
names is, if it is still there, the one it was decided on (`AcceptInv`, ids are never
reused); an offer under way goes to a partner without an open one, and in the
simplified policy orders a resource no open one orders; and what is open keeps
the limits (`LimitsInv`). `PolicyProofs` supplies what any branch of either `choose` may
return (`Proposal`, `Agreeable`, `Spares`); the steps of `Trading` are then sorted into the
three that add something (`Decide`, the server placing our offer, a partner
placing one) and all others, which take offers away or let time pass (`QuietStep`).
Trades are favourable because terms were checked when decided and offers do not
change.

`FirmOffersStayCovered` and `CommitmentsStayCovered` rest on `BackedInv`: for each resource and
every number of ticks `k` that some offer giving it is still firm, the stock covers what all
open offers promise plus upkeep for `k` ticks; and the command under way, if it is an
offer or an accept, keeps it so whenever it takes effect. A tick turns the
statement for `k + 1` into the one for `k`, upkeep for one of them having been
paid. A decision establishes it because each policy leaves at least its floor: the
reserve, or three ticks in a rescue, which reach as far as any offer is firm
(`Reaches`, `FloorsReach`); for the simplified policy, upkeep until the last of its
offers has expired. There `Overhang` is 0 and every open offer is firm. The sum over open offers is a fold over a
set. Induction over sets is not available, so `PromiseProofs` counts instead: the
sum is the number of *parcels* (an offer and one of the units it promises),
which the library's theorems on cardinality can compare, and that the fold
computes this number follows from a smallest counterexample.

`GiftsSpare` follows the same plan with `CarriedInv`: while a gift is open, for every
number of ticks `k` up to the horizon the property names and to the end of the run, the
stock covers what is promised plus upkeep for `k` ticks, for each resource upkeep
consumes; a gift under way counts as one. Hence nothing is critical
(`NothingCritical`), so no rescue may go below the reserve, and what is
decided is held to it (`PurchaseCarried`, `AcceptCarried`, `GiftCarried`). Both invariants
pass over the steps that decide and settle nothing by the same argument (`Frame`).

`MarketInv`'s parts and `BackedInv` were run through TLC, with its quantifiers bounded,
on the configurations of section 3 before their proofs.

*Measurement.* `NoOrderSeenTooSoon` is inductive together with the types: an order
is settled only with an id given before, so the id a result brings has not been
seen. The refinement needs only that samples are delays of at most the run; it
carries `MarketInv` over, from which `FewOrdersTimed` follows by `TimedInv`: every
open offer being timed is ours, no more orders are timed than offers may be open,
and while an order or its result is under way there is room for one more.

*Live report.* `SummaryInv` adds, until the first interrupt, that each thread has
its caller waiting for it, that callers take turns (`TakeTurns`), and that no
thread holds an older report than the page (`ThreadsAreCurrent`). `FinalReport`
needs one conjunct more, `LastReport`: once the log is complete, the thread that
renders last has read all of it.

*Run log.* `LogInv` says that the log holds exactly `seen`, each transaction once,
and that all transactions but those of the present tick are seen. `PageIsTrue`
follows from it and from `FinalReport`, carried over by `LogRefinesSummary`.

*Scenario.* The session's invariant does not carry over as it stands: the script waits for
versions, not for records. `ScriptInv` is `Coherent` and four facts that hold whatever
the validator does: each step behind the script has taken effect, the
snapshot the script acts on shows the effects of all steps it has waited for, a
refusal can only be the last command's, and the last `sync` is answered by a snapshot
of the whole exercise. `CompletedExercise` follows from it, for any `MaxStrays`.

The other two theorems are about the exercise by the guide, `strays = 0`. `ByGuide` says
that then the run is on its course (`Guided`): position in the script, what the
validator has applied and what P02 has done agree (`Course`, `InStep`); the
version the script waits for is one that is held or on its way (`CaughtUp`, `Waits`);
every reply is in the table or in the queue (`Replies`, `OneAtATime`); nobody has failed
(`Alive`). It is preserved by each of the script's, the pump's and the validator's
steps while these are by the guide, and a departure makes it vacuous for good. `ScriptInv` and
`ByGuide` were run through TLC on the configuration of `scenario` first.

Only model-checked: all liveness (`PumpDeathStopsRunner`, `CommandEnds`,
`SnapshotWakesIdle`, `RefreshIsRendered`, `ShutdownEnds`, `EndsOrAwaits`,
`CompletesExercise`): TLAPS here has no reasoning about fairness or ENABLED. Every
invariant and every action property of the runs is proved. What the functions and
folds of the models compute is proved only as far as the theorems need it.

## 5. Findings

1. **A pause ends the client** (`session_pause`, `PauseDoesNotStop`).
   `session.send` tests the phase in a task of its own (`asyncio.wait_for` of Python
   3.11), after the decision. A pause applied in between raises `NotRunningError`,
   which the loop does not catch; README.md:140-142 lists pausing among what it
   waits through.
2. **Rescues use up the budget for withdrawals** (`trading_budget`,
   `WithdrawalHasBudget`). ARCHITECTURE.md:118-122 says a safety withdrawal is
   never what runs out of budget. Gift accepts and rescues are not rationed and can
   take the last record.
3. **Critical specialty is sought but not accepted** (`trading_survival`,
   `SpecialtyRescueAccepted`). The docstring at `strategy.py:74-78` promises both;
   `pays_only_specialty` admits the exception only when `SEEK_SPECIALTY_TO_TARGET`
   is set, which the default policy does not.
4. **A stale report can overwrite the completed one** (`report_interrupt`,
   `CompletedReportStays`). Ctrl-C while `__aexit__` awaits the worker leaves the
   worker's thread running next to the final render; the docstring at
   `structured_log.py:316-317` rules that out.

5. **A rescue offer outlives the upkeep kept for it** (`trading_rescue`,
   `CommitmentsCovered`). ARCHITECTURE.md:115-117 says "Outgoing offers retain upkeep
   for their lifetime and use a five-tick TTL". An urgent purchase leaves three ticks'
   upkeep and is open for five: when the policy cannot withdraw it in time, it
   promises in its last tick what upkeep has consumed.

Seen, and not claimed by a run: `transactions_settled` is called only with the
first snapshot of a tick, so what settles later in the last tick of a run is never
logged, although `run_ended` counts it and the docstring `structured_log.py:3-13`
speaks of "each settled transaction" (`SettledIsLogged` and `PageTellsTheRun` state
what does hold); and any end other than a finished run or a timeout writes no
`run_ended`, so that the page goes on saying it is live.

## 6. Abstractions, and what is not modelled

- Bundles, ticks and records are exact; names, request ids (random in the
  code, numbered by issue here), wording and encodings are not modelled.
- `max_command_bytes` never binds for the commands the policies build and is left
  out. Delays are any number of ticks in `Trading`, measured in `Latency`. The pause of a run is modelled in
  `Session` only; in `Trading` a station that cannot act is not `alive`.
- `Market!Advertised` leaves out the directory of stations (strategy.py:315, 523): the
  policies of the model may turn to more partners than those of the code.
- `Latency!GoOnTiming` drops every order that is not open in the snapshot, the code
  those the snapshot lists as closed or expired (strategy.py:160-163): the snapshots
  of the server list the closed offers of a run.
- A page is written in one step (`write_text` of a small file); a second Ctrl-C,
  which kills the process at once, is not modelled. A run without a log file has
  no live report; validation mode renders on the event loop.
- `Session` has one caller of `send` at a time, as the repository has.
- The log's entries hold their transactions only; the open offers and the fields
  of the other events are formatting. `run_started` is not an entry of its own. What
  the scenario logs, between two of its awaits, is left out.
- Not modelled: `config.py`, argument parsing, `connect` with its error hints, the
  text log, the HTML package, generated Protobuf code, the validator binary and the
  scripts (`demo_local_run.py` is a server for a demonstration): input, output and
  formatting without shared state. Concurrent callers of `PendingRequests` do not
  occur in the repository.

## 7. Plan

Done, in this order: the session and its refinement; the trading policies
on a moving market; the live report; the first theorems of each; the scenario on
the session; the run log on the live report; the measurement of delays on the
market; their theorems and refinements.

Then the proofs about the market: `Trading`'s types and limits, its action
properties, the cover of commitments, `FewOrdersTimed`; and `ReplyIsKept`.

Then the three invariants of the scenario, for which the session's invariant was split
into what the connection and what the trading loop keep; and
`GiftsSpareTheReserve`, restated for runs longer than the reserve, where its first form
(the full reserve at every moment) turned out not to hold.

Then the cover of commitments with the offer lives the code asks for: what holds of
every offer (`FirmOffersCovered`), and where the documented claim fails.

Left: an abstract specification of the market promise (what is promised is
covered), implemented by each policy.
