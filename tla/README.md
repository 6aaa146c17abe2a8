# A formal model of the trading backend

This directory holds TLA+ modules, TLC configurations and TLAPS proofs for the
Python backend of the AI Trading Platform (`src/backend/app`). The backend takes
orders from a mobile app or from its own signals, checks them against risk
limits, submits them to a broker (Dhan, Upstox or paper), and must never lose
track of, repeat or under-reserve an order when requests overlap, a broker call
times out, a store fails or a process restarts. That core is modelled in most
detail. Around it are modelled the parts that keep state of their own (accounts,
feeds, candles, outboxes, paper desks) and the rules of the analysis, backtest
and training parts that decide something, over small integers.

Contents: 1 inventory, 2 modules, 3 runs and their bounds, 4 fairness,
5 proofs, 6 what is not modelled, 7 disagreements found, 8 plan.

## 1. Inventory

Paths are relative to `src/backend/app`.

| component | state it keeps | operations | what is hard | correct when |
|---|---|---|---|---|
| Live submission (`live_execution_gateway.py`, `ai_execution_orchestrator.py`, `submission_recovery.py`, `broker_order_lifecycle.py`) | a lifecycle per call, held only in memory | `execute_request`, `authorize`, `execute`, `_recover_existing`, `_recover_ambiguous`, `_apply_broker_result` | overlapping calls for one client order id, time-outs, crashes between the intent, the broker call and the resolution | one broker order per client order id; exposure reserved while an order may fill; a resolved intent hides no order |
| Submission intents (`submission_intent_store.py`, `submission_intent_recovery.py`, `models/submission_intent.py`) | one intent per client order id, in a JSON file or a database table | `create`, `get_unresolved`, `record_broker`, `resolve`, `unresolved` | two backends with different locking; replays; crashes between the temporary file, the backup and the replace | a resolved intent is immutable; the broker order bound to an intent is a real one |
| Risk reservations (`risk_reservation_store.py`, `durable_risk_reservations.py`, `models/risk_reservation.py`) | amount and status per reservation key | `reserve`, `release`, `reconcile_client_order`, `reconcile_stale`, `reconcile_authoritative_orders` | callers with snapshots of different ages; partial fills told out of order | the active sum fits the limit; an order that may fill stays covered |
| HTTP order path (`api/orders.py`, `order_execution_service.py`, `order_lifecycle.py`, `order_state_machine.py`, `execution_persistence.py`, `idempotency.py`, `idempotency_store.py`, `risk_gate.py`, `execution_authorization.py`) | order rows, the execution-state file, idempotency claims, per-process lock | `create_order`, `submit`, `_recover_claimed_execution`, `_save_recovered`, `_mark_submitted`, `cancel_order` | whole-file saves of copies loaded outside the lock; claims that survive a crash; two processes | one order per claim; the file never ahead of the broker; a sent order stays recorded |
| Broker router (`broker_router.py`, `broker_adapter.py`, `broker_registry.py`) | routes, their generations, reconciliation counters | `submit`, `_require_execution_ready`, `_recover_after_submit_failure`, `get_snapshot` | age of the reconciliation, fingerprint read twice around the lookup | nothing is sent on a state the last reconciliation did not see |
| Startup, safety and emergency halt (`main.py`, `startup_execution_state.py`, `safety_state.py`, `emergency_halt.py`, `broker_recovery.py`, `multi_account_startup_recovery.py`, `recovery_manager.py`, `startup_reconciliation_gate.py`, `startup_order_recovery.py`, `startup_recovery.py`, `api_order_reconciliation.py`) | the startup state machine of a process, the shared safety-state file | the lifespan of `main.py`, `halt`, `clear`, `clear_all`, `engage_risk_circuit`, `reset_risk_circuit` | one process starting while another halts; a halt between the check and the clear | READY only after a reconciliation newer than every halt; a halt is never lost |
| Reconciliation (`reconciliation*.py`, `broker_reconciliation*.py`, `order_reconciliation*.py`, `portfolio_reconciliation*.py`, `reconciliation_state_store.py`) | the last check per account and route | `check`, `build_verified_result`, `reconcile`, `record_check` | an observation that is old when it is used | a verified result only from a clean check with no unresolved intent |
| Execution authorizations (`execution_authorization_store.py`, `broker_context_attestation.py`, `broker_execution_context.py`) | one-time tokens in SQLite | `issue`, `consume` | the clock read before the lock; two consumers of one token | a token is consumed at most once and never after it expired |
| Execution repository and event pipeline (`transactional_execution_repository.py`, `live_execution_repository_bridge.py`, `order_submission_service.py`, `execution_event_*.py`, `*_dispatcher.py`, `*quarantine*.py`, `execution_outbox_recovery_worker.py`) | event log, sequence numbers, identities, quarantine, outbox | `append`, `dispatch`, `quarantine`, `replay` | duplicated and reordered broker events; a crash between two tables | an event is applied once, in sequence, or stays quarantined |
| Alerts (`execution_alert_*.py`, `workers/execution_alert_worker.py`) | outbox rows with lease, attempts, next time | `claim`, `deliver`, `retry`, `dead_letter`, `requeue` | two workers, a lease that runs out during a delivery | an alert is delivered or dead-lettered, never lost |
| Broker connectivity and rate limits (`broker_connectivity*.py`, `broker_health_*.py`, `broker_rate_limit.py`, `provider_failover.py`) | failures, state, token window | `record_success`, `record_failure`, `acquire` | counters at their limit, clocks | no order on a disconnected route |
| Broker adapters (`brokers/*`, `dhan_adapter.py`, `upstox_adapter.py`, `trading/broker.py`) | HTTP clients | `submit_order`, `cancel_order`, `get_orders` | remote failures and statuses | statuses normalised, never guessed |
| Broker accounts and OAuth (`api/broker_accounts.py`, `services/*`, `oauth_state_store.py`, `broker_credentials.py`, `broker_factory.py`) | account rows, routes, OAuth states | connect, disconnect, quarantine, consume state | a row and a route changed in two steps | a route exists only for an active account |
| Portfolio and positions (`portfolio.py`, `position_manager.py`, `portfolio_state.py`, `accounting.py`, `partial_exit.py`, `trailing_stop.py`) | positions, cash, realised profit | `apply_fill`, `close`, `mark` | crossing zero, partial closes | cash and profit add up to the fills |
| Pre-trade risk (`risk_engine.py`, `pretrade_orchestrator.py`, `risk_circuit_*.py`, `session_*.py`, `portfolio_*_risk.py`, `position_sizing.py`) | circuit breaker, session baseline | `evaluate`, `engage`, `reset` | an in-memory breaker beside a persisted one | once engaged, blocked until reset after a reconciliation |
| Market data (`market_data/*`, `market_data*.py`, `candle_*.py`, `stream_candle_pipeline.py`, `data_quality.py`, `historical_*.py`) | candles, stream position, reconnect state | ingest, aggregate, resync, reconnect | late, duplicated and reordered ticks | a closed candle is not changed; gaps are resynchronised |
| Paper trading (`paper_*.py`, `brokers/paper.py`) | in-memory orders and positions | `submit`, `fill`, `close` | sequences of partial fills | as portfolio |
| Strategy, indicators, ICT/SMC, confluence, options (`strategy*.py`, `ict*`, `smc*`, `confluence.py`, `options*`, `technical_*.py`) | none | marks on a growing chart; scores, decisions, requests | marks that change when bars come; scores at their thresholds; evidence dropped between two layers | a mark once drawn stays; a decision follows its evidence |
| Backtests (`backtest*`, `walk_forward*`, `monte_carlo.py`, `performance_metrics.py`) | a portfolio for the length of a run | `run`, `process_bar` | look-ahead, partial exits, several exits on one bar | no use of future bars; equity is cash and positions |
| Machine learning and AI (`ml_*.py`, `ai_*.py` without the orchestrator, `model_registry.py`, `ensemble*.py`) | model registry | build a dataset, fold, train, gate, predict | windows at their edges; labels that look ahead | what is judged was not trained on |
| Authentication and API shell (`auth/*`, `api/*` without orders and emergency halt, `app_factory.py`, `config.py`, `db.py`) | users, sessions | requests | pure I/O | - |
| Android client, mobile screens, Alembic migrations, CI, tests | - | - | - | - |

How they interact. A request enters `api/orders.py`, which writes a row and calls
`OrderExecutionService.submit`; that takes the claim in the idempotency store,
the reservation in the risk store, writes its intent to the execution-state file
and calls `BrokerRouter.submit`, which reads the safety state and the last
reconciliation before the adapter is called. The AI path
(`LiveExecutionGateway`) instead creates a submission intent and reserves
through `DurableRiskReservationAdapter`. Startup reads all of these stores,
compares them with the broker and either clears the safety state or halts.
Several API processes may share the stores; inside one process request threads
share `_claim_lock`.

## 2. Modules

The order core. Each row names what the module composes or refines.

| module | models | composes |
|---|---|---|
| `OrderIdentity` | the identities both paths key their stores by, and the size of each order | - |
| `BrokerBook` | the broker: sent, received, listed, filled, finished orders (external, from how the adapters' answers are used) | `OrderIdentity` |
| `SubmissionIntents` | `SubmissionIntentStore` as one step per call: `create`, `record_broker`, `resolve` | `OrderIdentity` |
| `RiskReservations` | `RiskReservationStore`: `reserve`, `release`, `reconcile_client_order` | `OrderIdentity` |
| `OrderLedger` | the abstract specification of both paths: an identity is new, intended, sent, tracked, and never goes back | - |
| `LiveSubmission` | the AI/live path, one action per store or broker call | the four above, refines `OrderLedger` |
| `OrderExecution` | the HTTP path with processes, threads, the lock, restarts and the emergency halt | `RiskReservations`, `BrokerBook`, refines `OrderLedger` |
| `StartupSafety` | the lifespan of `main.py`, the startup state machine and the circuit breaker of each process, the safety state they share; halts, clears, engagements and resets | - |

Delivery of events and alerts.

| module | models |
|---|---|
| `ExecutionRepository` | the transactions of `TransactionalExecutionRepository`: orders, positions, applied events, cursors, identities, quarantine, outbox |
| `EventDelivery` | the callback paths into that repository, and the publishers and the consumer out of it, with leases, crashes and a second database (composes `ExecutionRepository`) |
| `AlertDelivery` | the alert outbox: leases, workers, retries with a delay, attempts that run out |
| `HealthAlerts` | hooks of several threads that derive the health from metrics and ask the alert policy |
| `OrderSubmissions` | the durable outbound orders: submit, retry, `reconcile_pending`, recovery runs with approvals |

Stores, recovery and accounts.

| module | models |
|---|---|
| `IntentStores` | the file and the database backend of the intent store, one step per file or statement, and the import of one into the other; refines `SubmissionIntents`, but for what the database does with a row that changed since it was read (`StoresAreAtomic`) |
| `StateFiles` | the safety-state and execution-state files with their backups, one step per system call, with what is not yet synchronised lost in a crash |
| `StartupRecovery` | the recovery of the orders a process left behind, and the gates after it |
| `ReconciliationChecks` | overlapping checks of one account, their state row, the safety store, the admission of an order; and the repository's other comparisons of the same two books |
| `IdentityRecovery` | orders known by the client's id only: the pass over the unresolved intents, the recoveries of a router and of a gateway whose submission raised, the matcher of a reconciliation |
| `BrokerReports` | four brokers' words for an order's state, the translators, the live lifecycle and the cancel that reads the order again |
| `BrokerAccounts` | account rows and routes changed in two steps by overlapping requests, failing commits, startup |
| `Grants` | one-time execution authorizations and OAuth states, with clocks read early |
| `OnceOnly` | the three once-only guards: claims that expire behind a connectivity gate, repeated executions, bindings of identities by processes that read and insert at once |

Books, market data and research.

| module | models |
|---|---|
| `LocalOrders` | order records, their state machines and position in one process, brought up to date from broker snapshots |
| `FillJournal` | the durable journal and the processor that book fills into the ledger of a process |
| `PaperBacktest`, `PaperDesk` | the paper portfolio in the bar-by-bar backtest; the four paper books |
| `PreTrade` | the chain of `PreTradeOrchestrator` before an order |
| `MarketFeed` | the realtime feed: transport, reconnects, resynchronisation, fan-out to bounded queues |
| `CandleBuilding` | the candle builders side by side on one stream of ticks |
| `HistoryFetch` | backfills and replays through failing feeds into stores |
| `ChartStructure` | what the structure engines draw on a chart that grows |
| `Signals` | from readings to decisions and from decisions to order requests |
| `ModelTraining` | datasets, folds, baseline, gate, windows and search |

`MCLiveSubmission`, `MCOrderExecution`, `MCStartupSafety`, `MCDeliveries`,
`MCMarketFeed` and `MCComponents` are the instances for TLC. Components that share no
state with another are checked in one run: in `MCComponents` a variable `running`
names the component of a behaviour, chosen in its first state; only that component
moves, the others stay as they start. So the states add up instead of multiplying, and
a property of one component is checked in the behaviours that run it and holds
trivially in the others. `MCOrderExecution` does the same for the order path and seven
components around an order, of which the constant `Parts` lists the ones a run is
about, `MCStartupSafety` for the startup and the local orders, and `MCDeliveries` for
the event pipeline and the alert outbox, with both fairness conditions, each of which
asks nothing of a behaviour of the other.

`LiveSubmissionProofs`, `OrderExecutionProofs`, `StartupSafetyProofs`,
`DeliveryProofs`, `RecoveryProofs` and `BookProofs` hold the
theorems, `SumTheorems` lemmas about sums over finite sets and folds over
sequences (section 5).

Definitions called "Mutant" in a comment are deliberately wrong variants of the
definition that follows them. No specification uses them; each replaces its
original once, to show that a property fails without the code it models.

State and code. In both path modules a worker is a call in progress. Its record
(`wk[w]`) holds what the code keeps in local variables and in objects built for
the call: the client order id, the position between two calls to a store, the
broker or the router (`step`), and what those calls returned. Everything durable
or shared is a variable of its own: `intents`, `reservations`, `claims`, `rows`,
`file`, `safety`. One action is one call to such a thing together with the
local code up to the next one, because that is where another thread, another
process, a crash or a failure can step in. What a thread holds under
`_claim_lock` is `LockedSteps`: `Authorize` needs `LockFree`. The other modules
cut the code the same way: at each database transaction (`EventDelivery`,
`AlertDelivery`), statement (`IntentStores`, `Grants`), system call (`StateFiles`),
`await` (`MarketFeed`, `HistoryFetch`) or call outside a lock (`OnceOnly`,
`HealthAlerts`, `PaperDesk`); where the code is synchronous and has one caller,
at each of its public operations.

The broker. `orders[b]` goes through `unused`, `inflight` (the request left,
nothing arrived), `NEW`, `PARTIALLY_FILLED` and the final statuses, or `lost`.
It becomes visible to the caller only after it was received, so a lookup right
after a time-out may find nothing although the order will arrive: the case all
the recovery code is about.

Startup. `boot[p]` is the position of a process in the lifespan of `main.py` with
what its startup has observed: the accounts that were active, the time each was
observed, those that failed. `machine[p]` is its `StartupExecutionStateMachine`,
`breaker[p]` its in-memory `TradingRiskCircuitBreaker`. `safety` is the file of
`SafetyStateStore`: each operation of the store holds a file lock and is one
step; the lifespan's check of the halt (`HaltCheck`), its observation of each
account (`Observe`), and its `clear_all` (`ClearSafety`) are separate steps,
with anything of any other process in between. `OrderExecution` sees the same
startup from the order path, with only the outcomes that matter there
(`StartsHalted`, `StartsFailing`, `StartsReconciled`), but with the comparison
of the execution-state file and the reservations with the broker's book, which
`StartupSafety` reduces to the faults `snapshot` and `drift`; `StartupRecovery`
and `ReconciliationChecks` take those comparisons apart.

Abstractions, all named in the modules: quantities and prices are small
naturals; orders of a module are for one symbol unless it says otherwise; an
authorisation that fails for any reason is one refusal; time-outs are the choice
to answer or not; in `OrderExecution` the safety state is what a submission needs
to know of it (`clear`, `stale`, `halted`); a score is in the smallest unit its
engine adds.

## 3. Runs and their bounds

| run | states | what it asks |
|---|---|---|
| `live_workers` | 408,066 | Two workers with a client order id each, four calls in all, crashes, time-outs, lost requests, late answers and refused authorisations, one exposure limit that fits one of the two orders: `AtMostOneOrder`, `LiveOrdersAreReserved`, `ResolvedIntentsHideNoOrder` and the refinement `ImplementsLedger`. |
| `live_shared` | 251,393 | Two workers on one client order id, authorisations that may refuse: what remains true although two orders may leave: a durable intent is there before each (`OrdersFollowIntents`). |
| `exec_single` | 299,727 | Two threads of one process, one client order id, three requests, two restarts, failing stores, halts, a late broker: `SentOrdersAreRecorded`, `FinalRecordsStay`. |
| `exec_processes` | 837,541 | Two processes with an order each that do not fit together, on old snapshots: `ExposureWithinLimit`; or one of the seven components around an order below. |
| `startup_safety` | 619,072 (544,624 of the startup, up to symmetry) | Two processes, none, one or two active accounts, every fault of a startup, one stop, one ordered halt, the circuit engaged and reset: `AcceptsOnReconciledAccounts`, `HaltNeedsNewerReconciliation`. Or the local orders of one process. |
| `deliveries` | 181,781 | Events: two orders, messages late, again and out of order on three callback paths, two publishers, one fault: `PositionsAreTheFills`, `ConsumerSeesEachEventOnce`, and `EventsArePublished` under fairness. Alerts: two events, two workers, two attempts, one fault: `AlertsReachAnEnd` under fairness. |
| `components` | 397,396 | The other fourteen components below, one to a behaviour. |
| `live_duplicate`, `exec_lost_update`, `intent_sessions`, `feed_ready`, `account_routes` | - | One property each, which the code does not have; see section 7. |

The components of the three runs, with the states of each and its properties.
`ComponentsTypeOK` is the type invariant of those of `components`; of the parts of
`exec_processes` the type invariants are theorems (section 5).

| run | `running` | module | states | properties |
|---|---|---|---|---|
| `exec_processes` | `execution` | `OrderExecution` | 86,902 | `ExposureWithinLimit` |
| `exec_processes` | `submissions` | `OrderSubmissions` | 80,856 | `CallersAreToldOneOrder` |
| `exec_processes` | `recovery` | `StartupRecovery` | 89,806 | `ReadyMatchesBroker` |
| `exec_processes` | `checks` | `ReconciliationChecks` | 167,183 | `TradesOnWhatItKnows` |
| `exec_processes` | `identities` | `IdentityRecovery` | 137,736 | `OrdersFoundAreTheirs` |
| `exec_processes` | `plans` | `PreTrade` | 82,181 | `OpenRiskWithinBudget` |
| `exec_processes` | `desk` | `PaperDesk` | 103,344 | `PaperBooksBalance`, `PositionsNearTheLimit` |
| `exec_processes` | `health` | `HealthAlerts` | 89,533 | `UnhealthIsAlerted` |
| `startup_safety` | `orders` | `LocalOrders` | 74,415 | `PositionIsTheBookedFills` |
| `components` | `feed` | `MarketFeed` | 53,400 | `SubscribersSeeOneFeed` |
| `components` | `candles` | `CandleBuilding` | 67,043 | `CandlesAreTheirTicks` |
| `components` | `paper` | `PaperBacktest` | 8,311 | `EquityIsTheMoney` |
| `components` | `journal` | `FillJournal` | 12,154 | `FillsAreBookedOnce` |
| `components` | `grants` | `Grants` | 29,562 | `GrantsAreWonOnce` |
| `components` | `stores` | `IntentStores` | 22,268 | `ImportsOnlyUnresolved`, `StoresAreAtomic` |
| `components` | `accounts` | `BrokerAccounts` | 34,385 | `RoutesAreCommitted` |
| `components` | `charts` | `ChartStructure` | 5,461 | `NothingRepaints` |
| `components` | `reports` | `BrokerReports` | 4,156 | `FinalViewsAreTrue` |
| `components` | `signals` | `Signals` | 11,542 | `DecisionsFollowEvidence`, `RequestsKeepTheRules` |
| `components` | `files` | `StateFiles` | 3,362 | `LoadsTheLastSave` |
| `components` | `once` | `OnceOnly` | 28,302 | `OnceMeansOnce` |
| `components` | `history` | `HistoryFetch` | 94,943 | `HistoryIsWhole` |
| `components` | `research` | `ModelTraining` | 22,507 | `ResearchSeesOnlyThePast` |

Where a passing run or a property is narrower than the code allows, the reason is a
disagreement of section 7, and the property names the exception where it can.

- `AtMostOneOrder` of the live path holds when no client order id is executed by two
  workers at once (`live_workers`) and not otherwise (`live_duplicate`).
- `LiveOrdersAreReserved` is an action property: authorisations may be refused in
  `live_workers`, and the refusal of a retry of the same client order id is the only step
  after which a live order may be without its reservation.
- `SentOrdersAreRecorded` holds with one writer of the execution-state file
  (`exec_single`) and not with two threads that serve two ids (`exec_lost_update`).
- `ExposureWithinLimit` is checked with one request per client order id and without
  restarts: a retry gives back the reservation of the order in flight, and a request
  authorised on an older exposure by another process can be sent after the restart's
  reconciliation cleared the safety state.
- `ImportsOnlyUnresolved` does not speak of behaviours in which a process died between
  the two renames of the archive; any other death may come at any time.
- `StoresAreAtomic` names what the database backend adds: imports, and the write of a
  broker order on a row that changed since it was read. `intent_sessions` shows what that
  write does to a resolved intent.
- `PositionIsTheBookedFills` bounds what is booked of a broker order by what it filled
  only while that order is the one the broker has of its client order id. Rows of two are
  not told apart by the code, and the run has two of one id.
- `DecisionsFollowEvidence` excepts a DSL strategy that waits for an indicator against the
  side it trades (`WaitsForItsSide`), and `OpenRiskWithinBudget` speaks of behaviours in
  which no symbol was ordered on both sides or at two distances (`OrderedOneWay`). The
  runs have such a strategy and such orders; without these premises TLC violates both.
- No property of the order rows is checked: after a refused retry a row says what the
  retry was told.

Bounds. Two identities, two workers and two processes are the least that have a race,
a shared limit and a foreign process; the limits hold either order but not both, so
the limit is a real constraint; three requests for one identity give submit, claimed
retry and replay; two restarts give a restart of a recovered state. One row to a
snapshot is enough for the local orders, whose recoveries take any number of snapshots
one after the other. A clock of three values orders a halt, an observation and a clear
in every way; two accounts are the least for which one may fail. One fault in
`deliveries` is a crash, a failed publication or a lost lease at any point, with the
retry that follows it. The components have two of everything that may race (submitters
and a recovery run, subscribers, users of a grant, callers of a store, requesters,
checks, hooks) and three or four of what is consumed in sequence (ticks, saves,
candles, versions): enough for an early one, a late one and one in between, which
every property of theirs that fails under a mutant needs at most. Bounds only cut the
number of calls, crashes and restarts (`MaxAttempts`, `MaxRequests`, `MaxRestarts`,
`MaxStops`, `MaxHalts`, `MaxFaults`, `Max...`) and end the clock (`MaxTime`,
`MaxGrantTime`), never a state inside a call. The alphabets of prices, bars, readings
and rows are listed in `MCComponents` and `MCOrderExecution`, with what each member is
there for. `CHECK_DEADLOCK FALSE` is set where all bounded calls are spent and the
program would idle.

## 4. Fairness

The safety specifications assume no fairness. Two do, both checked in
`deliveries`.

- `EventsFairness` of `EventDelivery`: weak fairness of each publisher's step and
  of the end of a lease. A publisher is a loop over the outbox that always comes
  back, and a lease ends by the clock. A callback may arrive or not, a fault may
  happen or not: nothing fair is asked of them, and `MaxFaults` bounds the faults.
- `AlertsFairness` of `AlertDelivery`: weak fairness of each alert worker's step
  (a `while` loop with a sleep), of an event falling due and of a lease ending (the
  clock). Whether a publication succeeds is a choice inside the worker's step and
  is not fair: `AlertsReachAnEnd` counts an event whose attempts ran out as ended.

`FairSpec` of `StartupSafety` (weak fairness of each process's lifespan) states
what would be assumed of a startup; no run needs it, since what the code promises
of a startup is safety. Nothing in the order paths is promised to happen: a request
whose process dies is taken up again only if its client retries, which no fairness
of the code provides.

## 5. Proofs

Every theorem holds for all values of the constants, under the named assumptions
of the modules (`ExposureAssumption`, `BookAssumption`, `ExecutionAssumption`,
`DeliveryAssumption`, ...: the types of the parameters, null values outside their
sets, bounds that are naturals), which TLC evaluates in the runs. Hypotheses beyond
those are in the theorem and named below. The pattern is the same throughout: a
property is seldom inductive, so an invariant says in addition what every call in
progress has established at its step, and what cannot have changed since.

Of the 40 properties of the passing runs 37 are stated by a theorem. PROJECT.json lists
the theorems that hold under the assumptions of the modules or under a hypothesis the
code needs; `ExposureWithinLimitCorrect`, whose hypotheses leave out the retries and the
restarts that break the limit in the code, is proved and not listed.

`LiveSubmissionProofs`. `TypeInv` joins the type invariant with what a worker holds at
each step (`WorkerOK`) and what an order is (`OrderOK`): an intent is bound only to
what a lookup by its own client order id returned, and the book never relabels an
order (`TypeCorrect`, `BindingsCorrect`). `PrecedeInv` adds that a worker past
`create` has an intent: `OrdersFollowIntentsCorrect`, and the action properties
`HistoryCorrect` and `ReservationsShrinkCorrect`. `OneOrderInv` adds that a worker
about to submit has an intent nobody else is at, and no order yet; it is inductive
only if no two workers execute one client order id (`DisjointCalls`), the hypothesis
of `AtMostOneOrderCorrect`, and `live_duplicate` shows that it cannot be dropped.
`ResolvedInv` adds that a resolved intent is bound, which gives
`ResolvedIntentsHideNoOrderCorrect` and the refinement `LedgerImplemented`: each
handler is one step of `OrderLedger` or a stutter. `ReservedInv` adds that a worker
between its reservation and its submission holds the full amount, and that whatever a
worker read of an order lags behind the order. It gives `LiveOrdersAreReservedCorrect`
under `DisjointCalls`: each step of a worker, of a lookup or of the broker keeps the
reservation of every live order it does not settle, but for the refused authorisation
of a retry, which the property names (section 7).

`OrderExecutionProofs`. `ExecInv`: at most one worker per client order id is between
the claim and the send (`OneSubmitter`), such a worker has no order yet, and every
record in the file, in any copy of it and in what a lookup returned is true of an
order in the book (`RecordOK`). Saves replace the whole file with old copies, but
fills only grow and final statuses stay, so an old truth is still true. It gives
`TypeCorrect`, `AtMostOneOrderCorrect`, `RecordsNeverRunAheadCorrect` and
`LedgerImplemented` (a claim is the ledger's `Intend`, a send its `Send`, the
completion of a claim its `Track`). `RowsInv` adds what each request will write into
its row where a request of an id is alone (`OncePerId`), on which `ExposureInv` rests.
`FileInv` adds that the one request at work in the locked section holds a copy that
equals the file but for its own id, under `OneWriter` (one thread, or threads of one
process serving one id): `SentOrdersAreRecordedCorrect`, `FinalRecordsStayCorrect`.
`ExposureInv` counts: what is at the broker or may still be sent (`Committed`) is
covered by active reservations, these fit the limit, and while the safety state is
clear an order of another process was not there to be seen. It needs `Durable`,
`OncePerId`, finitely many ids and no restart, and gives `ExposureWithinLimitCorrect`.
The sums rest on `SumTheorems`: how the sum of a function over a finite set changes
when one value or one member does. A fold over a sequence is there too: the community
module defines it by a `CHOOSE` of a function on sets of positions, so that there is
one is proved by a least counterexample (`FoldExists`), and what the start has and
each step keeps, the fold has (`FoldIn`, `FoldStays`). An operator with an operator
argument cannot be instantiated by a lemma, so each folded operator has its own copy
of the last step.

`StartupSafetyProofs`. `BootInv` says what a startup has established at each step
of the lifespan: every active account observed before the clear (`Complete`),
READY only while serving on observed and reconciled accounts (`ReadyOK`), the
breaker set if the process started after the engagement that is still stored
(`CircuitOK`): `TypeCorrect`, `AcceptanceCorrect`, `CircuitCorrect`; `HaltsCorrect`
and `UnlockingCorrect` are action properties from the same invariant.
`LocalInv` is about the order records a startup recovers: a record is of the account
of its broker order and bound to no other order; a record made from a row without the
client's id (`BesideNothing`) stands beside one that has booked nothing and is not
bound to that order, and the client's record books an order whose rows do not name it
only once it is bound to it (`BookedWhenBound`). So whichever record a row reaches, it
is the only one of its order that may book (`Target`), and what a transition adds to
the position is what it adds to that record (`TransitionKeeps`, `ChangedKeeps`,
`LocalOrdersCorrect`). The parts about a broker order are of one that is the only order
taken under its client id so far (`Sole`); the position is the sum of what was booked for
any orders.

`DeliveryProofs`. `PositionsInv`: the positions are the sums over the set of events
recorded so far, which is finite and grows by one
(`PositionsAreTheFillsCorrect`). `ConsumerInv`: the outbox only grows, a batch a
publisher claimed is part of it, and a message about to be marked as published was
consumed (`ConsumerSeesEachEventOnceCorrect`). `HealthInv`: an execution that is not
healthy was alerted with its status, or a hook that will see it has yet to finish
(`UnhealthIsAlertedCorrect`). `WholeInv` says of every candle a history job has to
fetch that it is in the archive or still to be asked for: in the call at hand, in the
rows that came, in a later chunk or in a gap that is left; and that the pages so far
hold all there was up to their cursor (`HistoryCorrect`).
`ChartCorrect` compares a chart with the one longer by a bar: the swings of the longer
one are those of the shorter and swings at one later bar (`Grown`), so what is before
a swing, what breaks it first and what levels with it first stay as they were
(`LabelsGrow`, `BreaksStay`, `EqualLiquidityGrows`); every other mark looks at bars
the two have in common. `ResearchCorrect` compares two histories that `Agree` up to a
bar: an example labelled by then and a parameter chosen on a window trained by then are
the same in both, since each reads only bars up to its own end; the folds follow each
other (`FoldsFollow`). Its hypothesis is that the gate asks for more than no examples
of a class (`ModelGate.class > 0`): with a share of zero it approves a model that has
not seen a label.
`CandlesInv` says that an aggregator that refuses late ticks has one candle for each
bucket of the ticks it took, in order, with the values of the ticks of that bucket
(`Groups`, `MakesUp`), and that the buckets of its ticks never go back; that
`CandleBuilder`, which refuses nothing, has one for each run of ticks of one bucket; and
that a candle is put into the history only if it is newer than all in it. One tick more
either begins a candle (`GroupsNew`, `RunsMore`) or joins the last (`GroupsJoined`).
From `Groups` it follows that `Aggregate` makes these candles and no others
(`AggregateIs`) and that a wider frame makes the same of candles as of ticks
(`MakesUpThrough`, `AggregateFramed`), which needs the wide frame to be a multiple of
the base frame. `FindGaps` is a fold, and what holds of its cursor after each step
(`FoundSoFar`) is shown by an induction over the steps (`LookSteps`, `GapsFound`,
`CandlesCorrect`).

`BookProofs`. `GrantsInv`: a caller past the statement that takes a grant is the only
one of it, whenever it read its clock (`GrantsCorrect`). `OnceInv`: for each of the
three guards, who acts holds a claim of a life nobody else was given, and a binding is
only inserted where neither of its two ids is bound (`OnceCorrect`). `JournalInv`: a
ticket is claimed before it is booked, and the ledger's fills are the sum of those
booked since the process started (`FillsCorrect`). `RequestsCorrect` needs no more
than that a request is made in the step of its decision; its lemmas are about
`EvidenceFor`, `Levels` and `Lots`. `EvidenceCorrect` says for each engine how much
evidence a reading has for a side (`WeightOf`) and when that is enough beside a
prediction (`Enough`): an engine decides for the side that has enough
(`FollowsWeights`, one lemma per engine), more evidence is more weight for its side
and no more for the other (`WeightsGrow`), mirrored evidence swaps the weights
(`WeightsMirror`), and what is enough stays enough when the weight grows or the
prediction turns to its side (`EnoughGrows`, `EnoughFavours`). It has no hypothesis:
the property itself excepts a strategy that waits for the other side
(`WaitsForItsSide`). A DSL strategy for both sides with an indicator condition that
wants `BUY` holds on falling prices and sells on them once the indicator has turned to
`BUY`; without the exception TLC finds it with the strategy `both` of
`SomeStrategies`. `LimitInv` counts the checked positions that are open together with
the threads that have passed the check and not yet inserted theirs (`LimitCorrect`).
`MoneyInv` says of each of the four paper books that what was earned, less the entry
fees, is what came in and what the open positions cost, and that the rows of the
journal with the gains threads are about to record are what was earned
(`BooksCorrect`); its lemmas say what a sum does when a row is appended, when a quote
closes a set of positions at once, and when a set is listed in any order. `MoneyOK`:
the realized result less the fees is the money the fills moved and what is held at
cost, kept by each of the four things a bar can do to a position (`EquityCorrect`).
`BudgetInv`: what is open or filled at the broker is so in the process' own view, so a
snapshot that agrees with that view counts at least the risk of all that is open, and
an order about to be sent has its amount left in the budget (`BudgetCorrect`).
Proposals may be of either side. The guard compares net quantities, and the property
says how far that reaches: as long as the orders sent so far are on one side and at
one distance for each symbol (`OrderedOneWay`), and with a budget above zero (zero
switches the check off). Without `OrderedOneWay` it is false: a position whose exit is
not known yet and a new one of the other side cancel in the comparison, and TLC finds
the budget passed.

`RecoveryProofs`. `StoresInv`: what a reader of the store finds through primary,
backup and temporary file, and that the archived files are whole until a process
dies between their renames (`ImportsOnlyUnresolvedCorrect`). `StoresAreAtomicCorrect`
shows the refinement step by step: a database session whose row is as it was read takes
a step of the atomic store, and one whose row has changed can only be a late record,
since a resolution wants the row it read bound and unresolved, and columns it does not
change it does not write. `SubmissionsInv`: every broker order id a call
was told, or will write, is that of the order's row or not yet contradicted
(`CallersAreToldOneOrderCorrect`). `ReadyInv` is what the startup has established at
each of its gates (`ReadyMatchesBrokerCorrect`). `AccountsInv`: a route was built
from a version of its account that is committed or whose requester has yet to
commit or take it back (`RoutesAreCommittedCorrect`). `ChecksInv`: a verdict is of
books that were as read, and a cleared safety state is known to be
(`TradesOnWhatItKnowsCorrect`). `ReportsInv`: an answer of the broker is true of its
order however late it is heard (`FinalViewsAreTrueCorrect`). `SearchInv`: what a
pass or a recovering gateway holds are rows the broker listed that say what the intent
says (`OrdersFoundAreTheirsCorrect`). `FilesInv`:
at each system call of a save or a restore one of the two files is whole, and
which (`LoadsTheLastSaveCorrect`). `FeedInv`: each subscriber has a cursor in the
feed; it was given all it watches up to there, and from there on all of it waits in its
queue, as far as the queue was not closed full (`GivenUpTo`, `WaitsFrom`,
`FeedCorrect`); what one tick keeps, a message folded over its ticks keeps.

Type invariants of the components around an order. Some follow from the invariants
above or from what each step does alone (`SubmissionsTypeCorrect`,
`ChecksTypeCorrect`, `SearchTypeCorrect`, `DeskTypeCorrect`); three say more than
that values have their sets. `HealthTypeCorrect`: an alert names a reason, because
every limit that makes a snapshot critical is above one that gives a reason
(`UnhealthHasReasons`). `PlansTypeCorrect`: the result of a day stays a
number, because the levels a position is closed at exist: a net quantity that is not
zero has an order of its sign (`SumHasSign`).
`RecoveryTypeCorrect`: a recovery is under way in each of its stages, and the net
position it was shown is a number, for finitely many orders.

Proved but run under no configuration, since a checked property implies or resembles
them: the type invariants of the three cores and of the seven components around an
order of `exec_processes`, `BindingsAreReal`,
`HistoryIsWriteOnce`, `ReservationsOnlyShrink`, `CircuitSurvivesRestart`,
`LockedUntilRestart`, `LocalTypeOK`, and of `OrderExecution`
`AtMostOneOrder`, `ImplementsLedger` and `RecordsNeverRunAhead`.

Only model-checked, and why:

- `EventsArePublished`, `AlertsReachAnEnd`: liveness under fairness, out of the
  prover's reach.
- `ComponentsTypeOK`: the types of fourteen modules that are proved about in different
  modules; what their proofs need of them is in the invariants above.

## 6. Not modelled, and why

- `reconcile_stale` of the reservation store: no caller.
- SQLite as the reservation backend: its transactions do not hold the advisory
  lock; the deployed backend is PostgreSQL.
- The age limit of a reconciliation in `BrokerRouter`: a refusal that may always
  happen.
- `cancel_order` of `api/orders.py`: it calls methods the router does not have and
  answers 502. `BrokerReports` models the cancellation for a router that can read an
  order (`RouterReads`), which `BrokerRouter` cannot.
- `OrderLifecycle.apply_fill` (`order_lifecycle.py:62`), a second way to change the filled
  quantity of a record: nothing in `app` calls it; `transition` is the one that is modelled.
- Two threads closing one position of `paper_execution.py` at once: between the test of its
  status (54) and `daily_pnl +=` (62) nothing is locked. CPython 3.12, the version of
  `backend/Dockerfile`, switches threads at calls and backward jumps, of which these lines
  have none, so `DeskCloses` is one step; on another interpreter it need not be.
- The link that fails between the gate of `execution/__init__.py` (61) and the submit (71):
  it is in `OnceOnly`, whose `PaperSubmits` asks the link no more, and no property says that
  nothing is submitted on a link that failed.
- Quarantine decisions: the modules that take them raise (section 7).
- Rate-limit buckets and the health runner: counters with no other state, and a
  runner that calls a method its supervisor does not have.
- Floating-point indicators, learners, option greeks, statistics: no state that
  survives a call, and nothing a small integer would stand for. What is decided from
  their values is in `Signals`, what is trained on is in `ModelTraining`.
- The wiring of `app_factory.py:97`, where the authorization has no risk gate and refuses
  every HTTP order: `OrderExecution` models the authorization with a gate, as its class and
  its tests have it, and is broader than the process as it is wired today.
- The startup of several accounts with a store that lacks `record_check`
  (`reconciliation.py:114`) and with provisioning as it is (`broker_factory.py:157`) never
  gets past its first observation. `StartupSafety` has both cases (`ChecksRecorded`); the
  runs take the one in which the checks are recorded, which is what the rest of the lifespan
  is written for, and which has every behaviour of the other.
- Wire decoders, encryption of credentials, token exchange, authentication, HTTP
  adapters, clients, migrations, CI: input and output around the modelled core.

## 7. Disagreements found

Each of these has a run that TLC violates; PROJECT.json quotes the lines.

- `live_duplicate`: two overlapping calls of `execute()` for one client order id
  both find no unresolved intent, `create` answers the second as a replay, and
  both submit (`live_execution_gateway.py:147`).
- `exec_lost_update`: requests load the execution-state file before the claim
  lock and save all of it, so one erases another's record of a sent order
  (`api/orders.py:65`).
- `intent_sessions`: a database session reads an intent, another binds and resolves it, and
  the first writes its own broker order or status into the resolved intent
  (`submission_intent_store.py:151`).
- `feed_ready`: an instrument becomes READY after its history was loaded although
  the connection was lost meanwhile (`market_data/resync.py:60`).
- `account_routes`: a route's account id is a text and is compared with a number, so
  no active account is ever found to have its route (`broker_factory.py:157`).

What follows was read while modelling; the modules have the code as it is, or leave
the dead part out. No run checks it. Paths are relative to `src/backend/app`, those
of `tests/` to `src/backend`.

Order paths

- `broker_router.py:190` and `:217` read `.value` of a plain string: `submit` raises
  after every answer of an adapter, and every HTTP order takes the path of an
  unknown outcome.
- `live_execution_gateway.py:143`: an acknowledged resting order (NEW) is handled
  as an unknown outcome.
- `ai_execution_orchestrator.py:105`: a retry whose authorisation is refused
  releases the reservation of the first, ambiguous submission.
- `order_execution_service.py:163`: a retry that finds the claim taken and no order
  yet releases the reservation of the order in flight. A request the router refused
  is recorded SUBMITTED and its claim stays CLAIMED; a cancellation after a partial
  fill is recorded with fill 0, on which the next startup halts.
- `api/orders.py:141`: the refusal of a retry becomes the row's status, REJECTED,
  while the first call's order lives.
- `order_lifecycle.py:73`: a record loaded from the file has no state machine; no
  transition of it succeeds.
- `risk_gate.py:120`: without the durable store each request has a reservation book
  of its own; reservations of opposite sides net.
- A request of another process authorised on an older exposure can be sent after a
  restart's reconciliation cleared the safety state.
- Nothing passes position readers to the gateway, so with reconciliation enabled its
  position gate always refuses.
- `order_submission_service.py`: `submit` sends a PENDING order again on a retry; a
  recovery between a caller's registration and its send can put two orders at the
  broker; `reconcile_pending` increments a metric that does not exist, and raises.

Startup, safety, reconciliation

- `reconciliation.py:114`: the engine gets a state store without `record_check`, so
  no startup of several accounts becomes READY.
- `main.py:126` and `:169`: a startup that checked the halt before an operator ordered
  one lifts it when it observes its accounts after it: `clear_all` asks for
  observations younger than the halt and for no operator.
  `HaltNeedsNewerReconciliation` says that much and no more.
- `api_order_reconciliation.py`: a PENDING row without a record keeps every later
  startup FAILED.
- `startup_reconciliation_gate.py`: with one account the gate compares with a state
  the manager does not report, so it is never READY.
- `recovery_manager.py`: `reset_halt` is called without its argument; internal
  orders carry no fills, so a filled order always drifts.
- `emergency_halt.py:48`, `portfolio_reconciliation_guard.py:19`: `clear` without
  arguments raises a TypeError.
- `safety_state.py:166`: an older observation can overwrite a newer reconciliation;
  a process's breaker does not see another process's engagement. A primary file that
  cannot be read is replaced by its backup, the state before the last save.
- `record_check` overwrites unconditionally: an older VERIFIED check can unblock
  after a newer HALTED; its time is that of the comparison, not of the reads; no
  symbol, side or quantity of an order is compared.
- `StartupRecoveryCoordinator.recover` has no caller; orders in
  PENDING_RECONCILIATION do not count as unresolved.
- Migration of the intents drops the broker binding; a crash between the two renames
  lets the next startup import a resolved intent (`startup_migrations.py:138`).

Identities and events

- `ReconciliationMatcher` by attributes can bind another client's order; candidates
  already bound are not excluded. `recover_submission_intents` searches one route's
  book for intents of all routes and compares no account.
- `TransactionalReconciliationSnapshotProcessor`, `approve_and_apply`,
  `bind_deterministic`, `drain_once`, `quarantine.resolve`: raise a TypeError on
  every call.
- The cursor of an order is inserted without ON CONFLICT: its second sequenced event
  raises. The canonical dispatcher drops the sequence number. SUBMITTED, CANCELLED
  and REJECTED overwrite any status.
- `publish_once` stops at the first message that fails; an alert whose attempts ran
  out stays pending forever; `ExecutionAlertStore` has no `record`, so no alert is
  ever stored and the hook swallows the error.
- `bind` of an identity is an INSERT OR IGNORE: when another process was first it does
  nothing and returns as if it had bound (`order_identity_registry.py:55`).
- `OrderReconciler._validate_identity` does not compare the broker's order id: the rows of
  two broker orders of one client order id, of the same terms, reach one record, which
  then stands for both.
- The fill journal commits before the ledger: a fill before SUBMITTED, or a crash in
  between, is claimed and lost.

Brokers and accounts

- `_canonical_broker_status` does not accept NEW or PARTIALLY_FILLED, which the
  adapters' answers and `tests/test_dhan_adapter_submission.py:46` use: a
  submission raises after the broker accepted the order.
- Upstox `cancel` answers CANCELLED for an acknowledgement; a partially filled,
  cancelled order is reported PARTIALLY_FILLED; EXPIRED and PART_TRADED of Dhan are
  refused; raw Dhan rows have `orderId`, not `order_id`.
- A stale PATCH after a disable publishes a route for a disabled account; the bad
  credentials of one account quarantine the account of the request; a disabled
  account's route lingers in other processes.

Books, market data, research

- Paper: the journal call passes `opened_at` twice; `daily_pnl` never resets; the
  exposure limit is of the new position alone; `fill` overwrites the entry with the
  last fill's price. Pre-trade: the exposure limit ignores open orders; fewer losses
  than `cooldown_after_loss` block; a short position blocks everything.
- Backtest: a trailing stop moved at a bar's close is checked against that bar's low
  (AI_TRADING_PLATFORM_BLUEPRINT.md:1330); fills are at the stop even on a gap.
- `backfill_provider_adapter.py:15`: with `chunk_seconds` below the step of the
  timeframe the end of a chunk lies before its start; the feed is asked for such
  ranges, the cursor moves on, and the job reports done with a hole. `HistoryFetch`
  takes chunks of at least a step.
- `historical_replay.py:34`: `stream` pages forward but the store returns the latest
  rows, so a replay of more than a batch skips the earliest rows and raises, although
  `tests/test_historical_replay.py:27` expects them.
- `CandleBuilder` reopens a past bucket on a late tick; `TickCandleAggregator` shares
  its last tick between timeframes; a publication lost to a full queue loses the rest
  of its message.
- `ict_engine._choch` can never be BEARISH: its conditions repeat the BULLISH ones;
  `smc_structure.detect_structure` uses swings not confirmed yet.
- `strategy.py:106`: the timeframes' score is added to signed points, so aligned
  bearish timeframes weaken a bearish signal (blueprint, line 2295). A confluence
  does not pass its side on, so a bullish one can open the gate to a SELL.
  `AIDecisionEngine.decide` checks neither symbol nor time of a prediction.
- Training: the last labels of a fold look into the validation; `run_ml_backtest`
  predicts candles it was trained on; nothing calls `ModelArtifact.create` after the
  gate; a Monte Carlo of shuffled profits ends every path at the same equity.
- Modules that cannot be imported or are never called: `walk_forward_evaluator.py`,
  `api/ml_training.py`, `api/ml_trainer.py`, `api/walk_forward.py`,
  `api/upstox_oauth_complete.py`, `backtest.py` and `market_data.py` (shadowed by
  packages), `PersistentExecutionLedger`, `broker_events.ingest_event`.

## 8. Plan

The components of section 1 are modelled as far as section 6 says, and every safety
property of the passing runs but one is proved. What is left is `ComponentsTypeOK`, part
by part, from the type parts of the invariants above, as has been done for the
components of `exec_processes`; and the delivery of one event by two workers, a property
of how often rather than whether.
