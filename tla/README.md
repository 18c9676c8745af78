# CAT-PRO: a TLA+ verification development

CAT-PRO (`src/README.md`, `src/docs/ARCHITECTURE.md`) is a multi-exchange
trading system: one Node.js process runs eight strategies in SHADOW, PAPER and
LIVE mode against several exchanges. These modules model the part of it in which
a mistake costs real money and which tests hardly reach: how a LIVE plan, once
admitted, is taken through durable journals, a dispatcher, asynchronous handlers
and an order gateway to an exchange, across crashes, failed writes, lost replies
and overlapping calls; and how a PAPER plan is run, accounted and paid back out
of one shared account, across a crash at any of its durable writes.

All source paths below are under `src/backend/src/`; `C/` stands for
`execution/live/central/` and `S/` for `strategies/services/`.

## 1. Inventory

| Component | State | Operations | Hard behaviour | What makes it correct |
|---|---|---|---|---|
| JSONL snapshot journals (`core/persistence/JsonlSnapshotStore.ts`) | one append-only file per owner, each line the owner's complete state | `append`, `readAll`, `readLatest`, `replaceAll` | a write that breaks off; a line glued to a torn tail; a file that cannot be read | a restart reads the newest acknowledged snapshot |
| LIVE execution queue (`C/CentralLiveExecutionQueueService.ts`) | plan -> queue record, in memory and journaled | `enqueue`, `leaseNext`, `beginDispatch`, `recordDispatchProgress`, `acknowledgeDispatch`, `sweep` | leases and authority windows running out around a crash; memory ahead of disk | dispatch only inside the window; settled for ever |
| LIVE outcome journal (`C/CentralLiveExecutionOutcomeJournalService.ts`) | plan -> dispatch record | `begin`, `recordProgress`, `complete` | written beside the queue's journal, never atomically with it | one outcome per dispatch; agrees with the queue |
| Dispatcher and system (`C/CentralLiveExecutionDispatcherService.ts`, `...System.ts`, `...HandlerRegistry.ts`) | the `running` flag; calls in flight | `intake`, `runOnce`, `resume`, `finalize` | handlers are awaited while `runOnce` may be called again | journal before handler; pending before new work; nothing settles twice |
| LIVE order gateway (`C/CentralLiveOrderExecutionGateway.ts`) | idempotency key -> order record | `executeOrReconcile`, `readOrReconcile`, `cancelOrReconcile`, `enrich` | calls overlap and write back copies taken before an await; a crash between PREPARED and the reply | a key is submitted at most once; what is recorded is real |
| Adapters, of which the Binance one is modelled and stands for the others, and poller (`execution/live/adapters/`, `execution/live/polling/OrderPoller.ts`) | none of their own | `execute`, `getOrderStatus`, `cancelOrder`, `waitForFinalState` | lost replies, timeouts and venue expiry racing fills | a final result is the exchange's final word |
| Fill-fee evidence (`execution/live/evidence/OrderFillFeeEvidenceService.ts`) | none | `inspect` | fills that are not complete yet | complete only when fills add up |
| Maker-then-hedge handler and its production port (`execution/live/handlers/PassiveMakerThenHedgeLiveLifecycleHandler.ts`, `execution/live/production/CentralLiveProductionLifecyclePorts.ts`) | none of its own: each call asks the gateway and the evidence store again | `resume`: submit or reconcile, read, cancel, hedge, settle, conclude | calls of one dispatch overlap; the maker fills while it is cancelled; the authority ends on the way | the maker's fills are hedged once and exactly; every call tells the same, true outcome |
| Lifecycle evidence store (`C/CentralLiveLifecycleEvidenceStore.ts`) | sealed records, in memory and journaled | `seal` | memory ahead of disk | the settlement is what the exchanges executed |
| The three other lifecycle handlers (`execution/live/handlers/`) | revisions in the evidence store | `resume` | several orders, residual exposure | as above |
| Shared recovery (`recovery/`) | staged LIVE intents, in memory; PAPER exposures through the simulation journal | `stage`, `expire`, `reconcile` | restarts forget the LIVE ones | what is staged is the residual |
| Strategy One action authority (`execution/live/tiny-live/StrategyOneTinyLiveActionAuthorityService.ts`) | authority -> state, journaled | `preview`, `authorize`, `cancel`, `consume`, `bindPair`, `finalize`, `resolve` | several previews at a time, TTLs, a state written long after what it is about | one attempt at a time, within the daily cap; its journal can be replayed |
| Strategy One coordinator (`arbitrage/execution/ArbitrageExecutionCoordinator.ts`) | none of its own | `execute` | consumption, binding and the pair's first record are appends to different journals, and each may fail or be the last before a crash | an authority is spent once and settled by what the pair says |
| Strategy One pair (`execution/live/arbitrage/StrategyOneTwoLegLiveExecutionService.ts`) | session per pair, journaled; runs in flight | `executeOrReconcile`, `reconcileSession` | two legs awaited together, either may fail or stay unknown | never a submission before its boundary is journaled; a verdict is true |
| Strategy One recovery (`execution/live/recovery/StrategyOneTwoLegRecoveryResolutionService.ts`, `...RestartRecoveryService.ts`) | resolutions bound to a session revision | `resolveSession`, classification | joins runs in flight, restarts | CLEAN only if nobody is exposed; a resolved attempt lets new ones in |
| Central PAPER queue and worker (`S/CentralPaperExecutionQueueService.ts`, `...WorkerService.ts`) | plan -> queue record, journaled | `enqueue`, `leaseNext`, `defer`, `acknowledge`, `runOnce` with its catch block | seven durable writes to five journals and an account before a plan is done | a completed plan has its result; every plan ends |
| PAPER capital allocation (`S/CentralPaperCapitalAllocationService.ts`) | plan -> allocation, journaled | `reserve`, `release`, `restore` | journal and account are written one after the other | capital held is found again by a restart, and held while an exposure is open |
| PAPER results (`S/CentralPaperSimulationJournalService.ts`, `...PositionLedgerService.ts`, `...PositionAccountingService.ts`, `...OpenPositionLifecycleService.ts`, `recovery/services/CentralPaperRecoveryLifecycleService.ts`) | result -> journal record, position group, accounting record | `capture`, `record`, `close`, `book`, `post`, `recover` | two timers and a restart work on the same result | a profit is in the account once, and booked |
| Trading account (`trading/account/`) | balances; a ledger of applied transaction ids | `reserveCapital`, `releaseCapital`, `recordProfit` | losses, clamps at zero | capital neither appears nor vanishes |
| Capital reservations (`trading/capital/`), paper trading and two-leg lifecycle (`trading/`) | reservations, trades | `reserve`, `consume`, `release`, expiry | several callers of shared balances | reserved never exceeds available; released once |
| Order lifecycle and fills (`execution/live/lifecycle/`, `fills/`) | order and fill records | updates from polling and private streams | duplicates and reordering | fills never regress or double |
| Market data, strategies, ranking, risk, analytics, operations, routes, frontend, deployment | caches, reports | I/O, numeric decisions | freshness | outside these models |

How they interact. `intake` evaluates and journals an admission, then enqueues
the plan. The host calls `runOnce`: it takes up a record in DISPATCHING, else the
oldest pending journal record, else leases new work; it journals the dispatch
(outcome journal), moves the queue record to DISPATCHING (queue journal) and
awaits the handler. The handler submits its orders through the gateway, which
journals the intent before it calls an adapter. A terminal result of the handler
is journaled, then acknowledged in the queue. Each of the three services holds
its records in memory and appends the complete map to its own file after every
change. The LIVE spine ends where a lifecycle handler reports an outcome; a residual
it leaves goes to shared recovery.

On the PAPER side `enqueue` takes a plan in and three interval timers do the rest:
the worker leases a plan, reserves its capital, simulates it, journals the result,
records a position group, accounts a closed one and acknowledges; the lifecycle
closes open groups, posts profits and returns capital; the recovery settles what
was left exposed. Each run is synchronous, so timers never overlap, but a crash or
a failed append may come at each of their writes, and what one run leaves half done
another has to finish. `PROJECT.json` lists the same components with their status.

The composition is wired but off by default: `CentralLiveExecutionSystem` is
constructed disabled and nothing in `src/` calls its `runOnce` on a timer yet.
The models take the gates as open, since that is the state they are written for.

## 2. Modules

| Module | What it is |
|---|---|
| `JsonlSnapshotStore` | Constant-level: what one journal file holds as far as a restart can tell (`base`, `tail`, `tip`), and what an append, a broken append and a read make of it. Used by both services' modules. |
| `JsonlSnapshotDisk` | The abstract journal: the summary above, changed by appends. |
| `JsonlSnapshotFile` | The file, symbol by symbol; implements `JsonlSnapshotDisk` under the refinement mapping `Summary`. |
| `PlanExecution` | Abstract: what central LIVE execution promises of a plan, as one status per plan. |
| `CentralLiveDispatch` | Queue, outcome journal, dispatcher and intake; implements `PlanExecution` under `PlanStatus`, read off the two disks. |
| `CentralLiveOrderGateway` | The gateway, the adapter and poller behind it, and the exchange. |
| `PassiveMakerThenHedge` | One dispatch of the maker-then-hedge handler with its port, evidence store and recovery bridge, over the gateway as far as a handler can tell. |
| `StrategyOneTinyLive` | The controlled lane of Strategy One: authority, coordinator, pair, resolution and restart gate, over the gateway as far as a pair can tell. |
| `TradingAccount` | Constant-level: the account's arithmetic with its clamps. |
| `CentralPaperExecution` | The PAPER path: queue, worker, capital, results, accounting, lifecycle and recovery around one account. |
| `MC*` | Instances for TLC. |
| `FiniteSums` | Facts about natural numbers and sums over finite sets, for the proofs. |
| `JsonlSnapshotStoreTheorems`, `JsonlSnapshotFileProofs`, `CentralLiveDispatchProofs`, `CentralLiveOrderGatewayProofs`, `PassiveMakerThenHedgeProofs`, `StrategyOneTinyLiveProofs`, `CentralPaperExecutionProofs` | Theorems and proofs. |

### State and actions against the code

*Memory and disk.* `queue`/`queueDisk`, `journal`/`journalDisk` and
`record`/`disk` are a service's `Map` and its file. `SaveQueue`, `SaveJournal`
and `Store` are `set` + `persist`: the map changes first and the append then
returns or throws; a throw ends the call with memory ahead of the disk, or
enters the catch block that the code has at that place (`StoreFallsBack`).

*Atomicity.* JavaScript runs a call until its next `await`. `turn`
(dispatcher) and `busy` (gateway) hold a synchronous stretch that makes several
journal writes: one write per step, and while it lasts only `Restart` can come
in. Everything that awaits is two steps with anything in between.

*Dispatcher.* `turn.step` names the place in `runOnce`: `begin` (70), `dispatch`
(71 or 61), `resume` (85), `progress` (99), `acknowledge` (115). `inFlight[p]`
counts calls of `handler.resume` that have not returned; `running` is true only
in the synchronous part, since the promise is returned and not awaited. The
handler is any sequence of submitting, throwing, reporting MONITORING and
finishing.

*Gateway.* `call[c]` is what one caller awaits: the exchange's reply to the order
(`create`), the poll, a status read, a cancellation, the fee evidence; `seen` is
the record it captured before and writes back, `reply` an answer on its way. What
the exchange does and when its answer is stored are separate steps: a poll is read
(`PollReads`), times out and cancels (`PollCancels`, whose reply may be lost after
the exchange has obeyed) and reaches the gateway (`PollEnds`); a status read or a
cancellation is answered (`StatusRead`) and stored later (`StatusReturns`), or
refused (`StatusFails`). `order[k]` is the exchange's side, counts the orders it
accepted under the key in `placed` and may end by itself (`Expire`). `fees` of a
record is the quantity its fee evidence covers.

*Maker and hedge.* `call[c]` is one `resume()` under way: where it stands (`at`),
the order it is at (`on`), how often it has read it and the evidence of each order
it has (`seen`), which is all `assertSettlement` and the outcome are computed from.
`order` is what an exchange holds, `record` what the gateway knows of it: nothing,
an unsure submission, a FAILED without an order id, or a result. A known record may
lag behind the exchange, as overlapping calls write back older copies, but invents
neither fills nor an end: `FillsAreReal` and `FinalResultsAreFinal` of the gateway
are used here as what a handler may rely on, and `SubmittedAtMostOnce` as the
behaviour of a key. `settlement`/`sealed` is the evidence store's record in memory
and as a restart reads it, `staged` the recovery intents, `outcomes` everything
that resume() has ever returned for this dispatch, `completed` that the dispatcher
journaled one. Quantities are whole lots; a fee in the base asset takes one lot of
every `FeeDivisor` filled, one in the quote asset none, and one in a third asset
makes `validateOrder` throw, since the production port gives it no valuation.
`Misreported` is what `gateway_denied` shows (an order that lives behind FAILED):
the properties about truth except it, those about exactness do not.
A call that has its outcome is `returning` until the dispatcher journals it
(`Complete`); a crash loses both. A recovery intent is the residual together with the
reason for it, since both are in its key (Bridge:31-36, SharedRecoveryIntentService:
481-495) and the reason is what this very call saw of its cancellation (handler:84,
138); staging refuses a residual above `MaximumRecovery` and, at capacity, every new
intent. `full` is the set of stores (gateway, evidence, recovery) that other plans
have filled: they refuse new records and, the one in memory aside, stay full.

*PAPER.* `mem` and `disk` are five services' maps and their newest snapshots.
The account writes ahead, so `account` and `ledger` have one view. `job` is the
run under way: whose timer it is (`who`) and which durable write comes next (`at`);
each action is the code from one write to the next, so that `Crash` can come in
after every single one. A failed append throws with memory already changed and goes
on in the catch block the code has there. `terminal` is the pass over ended plans
at the start of a worker run, `restart` the reconciliation in the constructors.
Results are named by plan and attempt, because a plan whose lease ran out is
simulated again and may get a second one. The simulator is the set of outcomes it
can have, evidence and currency conversion may be there or not, and the emergency
stop is one of the refusals of a reservation. A scan over all groups is one job per
group: a group that throws is caught by itself, except the release for a posted
group (Lifecycle:114-116), which is outside the `try` and ends the scan. The model
may leave the groups behind it for a later scan, and its fairness owes nothing to
them (`ReturnPosted`).

*Strategy One.* An attempt is one authority and the pair session bound to it.
`journal[a]` is the authority's whole journal, because the constructor replays
it transition by transition and `resolve` asks whether a pair was ever bound;
`RECOVERY` is FINALIZED with `requiresRecovery`. `attempt[a]` is where
`execute` stands, `run[a]` the `executeInternal` in flight (`at`) with the legs
it awaits (`wait`) and their answers (`got`), `resolver[a]` a `resolveSession`
that waits for it. `record` and `order` are the gateway's record and the
exchange's order of a leg; the orders are FOK, so a leg fills whole or not at
all. `Quiet` says that no synchronous stretch is at work: what follows an await
starts only then, while the appends of a stretch are one action each and only
`Restart` comes in between. The gateway is not composed but repeated as its
promise: a leg without a record is submitted by a fresh run at most once, an
unknown submission is never retried, and the answer is the enriched result, an
incomplete one, or a throw. What `gateway_denied` refutes of that promise is a
hypothesis here (`Denied`), not a claim. `Preflight` is the gate together with the
count of active attempts that the decision manager rejects on.

*Records.* Queue and journal records are named by the plan they come from, so
maps are indexed by plan; requests, hashes, evidence ids and prices are left
out. `orderSubmissionPerformed` is kept, for the services compare and copy it.
Statuses PENDING, OPEN and PARTIALLY_FILLED are one status OPEN; REJECTED of an
exchange shows up as CANCELLED with what had filled, both being terminal.

Operators whose comment begins with *Seeded fault* are not part of the
specifications: each is a plausible mistake in the definition it precedes, and
shows that the property listed with it in `PROJECT.json` notices it.

## 3. Runs

| Run | Shows | Bounds |
|---|---|---|
| `snapshot_file` | `SummaryIsExact` (refinement), `RestartReadsSummary` | 2 snapshots, 7 symbols: three complete lines, or two broken writes between complete ones |
| `dispatch_crash` | `TypeOK`, `HandlersAreTraceable`, `OutcomesAgree`, `SettledForever`, `PromiseKept` (refinement), `PlansSettle` (liveness) | 3 plans with authority ending at 0, 2 and 0, 2 records, clock to 3, leases of 1, 2 calls in flight, 1 crash, after which the handler of the first plan may be gone |
| `dispatch_appends` | `DispatchedWithinAuthority`, `OneUnsettledDispatch` | 2 plans (authority to 0 and 2), failing appends at every write, one restart that may fail to read either file |
| `gateway_crash` | `TypeOK`, `SubmittedAtMostOnce`, `SubmissionsAreJournaled`, `FinalResultsAreFinal`, `FillsAreReal` | 2 keys, 2 callers, quantity 2, capacity 1, 1 crash, failing appends, lost replies; symmetric keys and callers |
| `maker_hedge` | `TypeOK`, `HedgeIsExact`, `SettlementIsTrue`, `OutcomesAgree`, `OutcomesAreTrue`, `RecoveryIsTheResidual`, `OrdersAreSettled` (liveness) | 2 overlapping calls, buying maker of 2 lots, a fee lot per 2 filled in base, no tolerance, residuals staged up to 1 lot, 1 status read, 1 crash, failed append, lost reply or full store |
| `strategy_one_crash` | `TypeOK`, `OneAttemptAtATime`, `DailyCapKept`, `DispatchIsAuthorized`, `ExposureBlocks`, `VerdictsAreTrue`, `ResolutionsAreTrue`, `GateIsHonest` | 2 attempts of two legs, cap 1, 7 journal records an authority, 1 crash, failing appends, lost replies; symmetric attempts |
| `paper_crash` | `TypeOK`, `CapitalIsCovered`, `HeldIsOwned`, `PostedIsBooked`, `CapitalIsExplained`, `PositionsAreFunded`, `CompletedIsJournaled`, `ResultsAreFunded` | 2 plans (expiring at 2 and 0) of 2 out of capital 3, profits -1 and 1, leases of 1, 2 attempts, 1 queue record, clock to 2, 1 crash |
| `paper_live` | `PlansEnd`, `CapitalComesBack` (liveness) | 1 plan, a loss of 1, 2 conversions, clock to 3, 1 crash or failed append |
| `dispatch_pending` | violates `PendingStaysResumable` | 1 crash |
| `gateway_denied` | violates `AcceptedOrdersAreNotDenied` | lost replies, no crash |
| `strategy_one_resolve` | violates `AuthorityJournalReplays` | 1 crash |
| `strategy_one_stuck` | violates `ResolutionReopens` | 1 crash |

Why the bounds are enough. Two overlapping calls are what every race in this code
is made of: each has one captured copy. Three plans, one whose authority outlives
its first lease and two that only time 0 admits, put one plan before, at and after
every other's end, and two records make capacity run out with one plan left. One
crash is enough to lose every synchronous stretch at each of its writes; a second
crash only matters for torn files, which `snapshot_file` covers without bound on
crashes. Two attempts are what one-at-a-time and the cap of 1 are about, and
`AtMostOneAttempt` covers any number. Seven journal records hold the longest life
of an authority and one RESOLVED more. A clock of 2 passes a lease of 1 inside an
authority window of 2, and a clock of 3 ends every window. Quantity 2 has a
partial fill, and with a fee lot per two filled a hedge that differs from what the
maker filled; two more lots would only repeat that, and the theorems cover every
quantity and both sides. At these bounds a residual above the recovery limit, a fee in
a third asset and a quote fee above the admission do not occur; the safety theorems
cover them too, and in `OrdersAreSettled` they are exits like the others. Two PAPER plans of 2 compete for a
capital of 3; the one that is admitted longer can lose its lease and be simulated
twice. `paper_crash` leaves out failed appends because `HeldIsOwned` does not hold under them (memory
would be ahead of the disk when the account is touched); the theorems say so, and
`CapitalCovered` is proved with them. `CHECK_DEADLOCK FALSE` is set because an
idle system with the clock and restarts used up has nothing left to do.

`MaxClock`, `MaxInFlight`, `MaxRestarts`, `MaxFaults`, `MaxAttempts`, `MaxLog`,
`MaxLength` and the number of `Callers` bound the exploration and have no
counterpart in the code; `MaximumRecords`, `MaximumReads`, `MaximumEvidenceAttempts`,
`MaximumRecoveryAge` and the limits of `PassiveMakerThenHedge` on fees, exposure and
recovery have one.
`Faults` chooses what may go wrong in a run: `crash`, `failedAppend` (an append
throws with nothing written), `tornAppend` (it throws or dies with part of the
line written), `failedRead` (a restart cannot read a file), `lostReply` and
`fullStore` (other plans fill a store to its capacity).
`Redeployments` are the sets of plans whose handler a later build still registers.

Fairness, in the three runs with a liveness property.

* `dispatch_crash`: weak fairness on `StartRun` and `Continue` (the host keeps
  calling `runOnce`, and a synchronous call always runs to its end) and on `Tick`
  (time passes); strong fairness on a terminal return of a handler: one that is
  resumed over and over eventually finishes. Nothing is assumed of operators,
  crashes or the other returns. `PlansSettle` excepts the state `Blocked`, which is
  the defect `dispatch_pending` shows, but only for a plan whose outcome is not
  journaled yet.
* `maker_hedge`: that strong fairness is what this run justifies for one handler. It assumes that some call is resumed again and again, that a call whose
  answer is there goes on, that the dispatcher journals the outcome of a call that is
  still alive, and that from some time on the gateway and the exchanges answer
  (`<>[]` no `Disturb`). Nothing is assumed of fills, of the authority or of which
  call runs. `OrdersAreSettled` names the states it cannot leave: `Unusable` (a record
  without an order id, which is never sent or asked again; a fee every call refuses),
  `Unstageable` (a final residual that shared recovery refuses) and `Blocked` (a store
  that is still needed is full).
* `paper_live`: a run goes on to its end, time passes, and both interval timers
  fire however busy the other keeps the event loop (strong fairness, since the
  other's run disables them for its length); a lifecycle scan returns the capital of
  some posted group, if there is one (`ReturnPosted`), because a throw at the first
  keeps it from the others. Evidence, conversions, refusals of the account and intake
  are owed to nobody. `CapitalComesBack` demands the capital of a rejected or expired
  plan only if no fill of it is on disk: for one with exposure the code claims the
  opposite, and section 4 says what it does.

## 4. What the violations show

* `dispatch_pending`: a crash between the two journal writes of a dispatch leaves
  a lease that a later `enqueue` sweeps away (Queue:62, 199-210); the dispatcher
  then reports RECONCILIATION_REQUIRED for ever, for all plans.
* `gateway_denied`: adapters turn a lost reply into FAILED without an order id
  (Binance:173-254 and the four others), which the gateway settles as
  FEE_RECONCILED with nothing filled (216-219) while the order lives.
* `strategy_one_resolve`: `resolve()` looks at the pair and not at the state of the
  authority (Authority:759-794), so a second request appends RESOLVED after
  RESOLVED, which the constructor refuses at the next start (252, 1103): the process
  does not come up.
* `strategy_one_stuck`: a crash between PREPARED and the dispatch boundary leaves
  a session that no operation takes out of PREPARED. Once it is resolved the gate
  says CLEAN, but the preflight counts raw session states as active attempts
  (ControlledLiveRuntime:327-335), so the lane stays closed for ever.

`PROJECT.json` quotes the lines each contradicts.

The other modules carry behaviour that a reader of the code may not expect, as part
of what their properties hold under:

* `return this.resume(...)` in a `try/finally` lowers the dispatcher's `running`
  while the handler is still awaited (Dispatcher:51, 65, 72-75), so the guard at
  line 43 never sees a call that is at work. `dispatch_crash` and `maker_hedge`
  therefore let calls of one dispatch overlap.
* `readAll` turns a read error into an empty journal (Store:409-422) and the gateway
  starts from it (Gateway:87): with `failedRead` among the faults
  `SubmittedAtMostOnce` fails, which is why the theorem names that fault.
* `seal()` puts a settlement in memory before it appends (Evidence store:63): after
  a failed append the dispatch completes with the id of a record that is on no disk.
* A fee in a third asset makes every call of the maker-hedge handler throw at the
  first fill, with the maker order left open (`Unusable`); at a full gateway the
  hedge, at a full evidence store the settlement, and above the quote limit the
  residual is refused on every resumption (`Blocked`, `Unstageable`).
* Two cancellations of one timed-out order overlap; the exchange refuses the second,
  whose catch block (Gateway:172-178) writes the TIMED_OUT copy it captured over the
  CANCELLED result of the first. The guard against regressed results (256-260)
  compares with the captured copy only, and the catch blocks with nothing.
  `FinalResultsAreFinal` and `FillsAreReal` say that what is recorded is true, not
  that it stays.
* One call reads the open maker without fills, cancels it while it fills one lot and
  stages the residual as CANCEL_RACE_EXCESS; a second call finds the maker cancelled
  and stages the same residual as HEDGE_RESIDUAL. The reason is part of the key
  (Bridge:31-36), so the registry keeps both, although it calls staging idempotent
  (SharedRecoveryIntentService:318). `RecoveryIsTheResidual` holds of each: two
  intents, each for the whole residual. No fault is needed, only the overlap.
* A restart forgets every staged LIVE intent, while the outcome journal keeps its id.
* A PAPER plan whose simulation leaves a residual is staged for recovery and rejected
  (Worker:130); the next run releases the capital of every rejected or expired plan
  (198-206) while its journal record is still SHARED_RECOVERY_STAGED, although
  Worker:186 says it is held until recovery or accounting. No fault is needed.
  `CapitalComesBack` speaks of plans without a fill only.
* A PAPER plan whose lease runs out between its journaled result and its
  acknowledgement is simulated again and may get two results, of which the second
  is funded by the same capital; `PositionsAreFunded` speaks of plans with one.

## 5. Proofs

Every safety property that a passing run checks is stated by a theorem, for every
value of the constants; so are the two refinements. The proofs rest on the ASSUMEs
of the modules (finite sets, natural bounds) and on the hypotheses on `Faults` and
`Solvent` that are named here, each with what goes wrong without it. The larger
invariants (`PairInv`, `Funding`, `Solvent`) were model-checked on the runs'
instances before they were proved.

`CentralLiveDispatchProofs` (for any set of plans, windows, bounds and restarts).
Under *all* faults:

* `TypeCorrect`: `Spec => []TypeOK`.
* `DispatchWithinAuthority`: `Spec => []DispatchedWithinAuthority`. The property
  speaks of queue records in memory; a restart brings records back from the disk, so
  the invariant `AuthorityInv` demands the same of every snapshot a disk can yield,
  and, for records still LEASED, that the lease lies between admission and the end
  of authority, because `beginDispatch` compares the journaled start with the lease
  alone.
* `OneDispatchAtATime`: `Spec => []OneUnsettledDispatch`. `SingleInv` says of every
  snapshot that either disk can restore that it has the property by itself, and
  that a call on its way to the second of two writes is alone (`AloneOnTheWay`): the
  guards of `beginDispatch` and `begin` look at one service each.
* `JournalsAreAppended`: both journals behave as `JsonlSnapshotDisk!Spec`, so what
  `JsonlSnapshotFileProofs` shows of its file holds of theirs.

With crashes as the only fault (`CrashOnly`):

* `OutcomesNeverDisagree`, `HandlersStayTraceable`, `SettledPlansStaySettled` of
  `OutcomesAgree`, `HandlersAreTraceable`, `SettledForever`, and `PromiseIsKept`, the
  refinement `PromiseKept` of `PlanExecution`. All from `CrashInv` (theorem
  `CrashInvariant`): the outcome journal on disk is the one in memory, the queue in
  memory is ahead of its file only by sweeps, which `SweptSince` describes record
  by record, the two services agree on every plan (`Linked`), and each place in
  `runOnce` has what the writes before it established (`Established`). `PlanStatus`
  is a function of the two records of a plan, so each step maps to a step of
  `PlanExecution` or a stutter, plan by plan.
* `CrashOnly` is needed: with `failedAppend` or with `failedRead` added, TLC refutes
  each of the four on two plans (`HandlersAreTraceable` and `PromiseKept` with
  `failedAppend` even without a crash), since memory is then ahead of the disk when a
  handler starts, or a restart forgets a plan its handler is at work on. This is what
  the runs' fault sets say too.

`CentralLiveOrderGatewayProofs` (for any keys, callers, quantities):

* `TypeCorrect`: `Spec => []TypeOK`, under all faults.
* `AtMostOneSubmission`, `SubmissionsStayJournaled`: `DurableAppends => (Spec =>
  []...)`, where `DurableAppends` says that neither `tornAppend` nor `failedRead` is
  among the faults. `placed <= 1` is not inductive: `SubmissionInv` adds that a key is
  fresh at the exchange until its record is PREPARED in memory and on disk, that at
  most one call is in the state in which the order may still be sent, and that while
  it is, nothing has been placed. The assumption is needed: a restart that reads
  nothing submits a key again, which refutes the theorem without its `failedRead`
  half, and a torn tail followed by a second crash refutes the other.
* `RecordedFillsAreReal` and `FinalStaysFinal`: `FillsAreReal` and
  `FinalResultsAreFinal` under the same assumption, from `TruthInv`. A record may be
  overwritten with an older copy, so the invariant speaks of every copy there is: no
  result in memory, in the journal, captured by a call or in its reply claims more
  fills than the exchange has, one that is final is the exchange's last word, and
  one that is complete with its fees has the fees of exactly its fills; a
  call that polls, reads or cancels is about an order that was placed. It builds on
  `SubmissionInv`, because the argument is about *the* order of a key: with
  two orders under one key, which only an unreadable journal brings about, a result
  of the first would be measured against the second.

`PassiveMakerThenHedgeProofs` (for any callers, quantities, fees, sides, tolerances
and every fault):

* `ExactHedge`, `TrueSettlement`, `AgreedOutcomes`, `TrueOutcomes`,
  `ResidualRecovery`, `TypeCorrect`: `Spec => []...` of `HedgeIsExact`,
  `SettlementIsTrue`, `OutcomesAgree`, `OutcomesAreTrue`, `RecoveryIsTheResidual`
  and `TypeOK`, all from one invariant `Inv` (theorem `Invariant`). The argument is
  that an order is *finished* when its record is denied, or known and the exchange
  has closed it, that a finished order stays finished, and that its effect on the
  inventory no longer changes. A call at the hedge has seen the maker finished, one
  at the settlement both (or an immaterial maker), and what it has seen of a finished
  order has that order's final effect. So any two calls compute the same hedge, the
  gateway's key binds the first one's quantity, and settlement, residual and outcome
  are functions of the same final effects, whichever call gets there, before or after
  a crash, and whatever was sealed in between. Every intent that is staged, under
  either reason and by any call, is therefore for the same residual, though staging
  may refuse it and a crash forget it (`ResidualRecovery`); that there is only one is
  not so, and not claimed. The case without authority is separate:
  a plan is rejected unasked only when the maker has no record, and then none can
  ever be written. That at most one call submits a key (`OneSender`) is needed for
  typing and for `placed = 1`.

`StrategyOneTinyLiveProofs` (for any attempts, cap, bounds and every fault, with no
hypothesis):

* `AtMostOneAttempt`: `Spec => []OneAttemptAtATime`. `consume()` looks for no other
  attempt, so the property is not inductive; `OneInv` says it of every authority
  that `hasBlockingAuthority` would find, the issued and unexpired ones included:
  one is issued only when there is no other, and every later state of it was
  reached from one that blocked.
* `CapIsKept`: `DailyCapKept`. `consume()` does not count either; `CapInv` counts the
  issued attempts that have not lapsed as if they were consumed.
* `TypeCorrect` and `DispatchAuthorized`: `TypeOK` and `DispatchIsAuthorized`, from
  `DispatchInv`: a session exists only for an authority whose binding is in the
  journal, a run only for a session, and a leg is awaited, so that an order may
  appear, only past the journaled boundary. Typing needs one fact about reachability,
  `ReadsKnown`: only a leg with a recorded result is read again.
* `VerdictsStayTrue`, `ResolutionsStayTrue`, `GateStaysHonest`,
  `ExposureKeepsBlocking`: `VerdictsAreTrue`, `ResolutionsAreTrue`, `GateIsHonest`,
  `ExposureBlocks`, from `PairInv` (theorem `PairInvariant`). It says of each attempt
  by itself how authority, coordinator, session, run, gateway records and exchange
  orders fit (`AttemptFits`): a final result, in a record, in an answer a run
  holds or in the session, is how the leg's order ended; only the one run the
  coordinator waits for may still submit, and its session has no result yet and is
  not resolved (`StageFits`), so no order can appear behind a verdict; and a settled
  authority has two settled legs or one that the gateway denied (`SettledFits`).

`CentralPaperExecutionProofs` (for any plans, amounts, profits and bounds):

* `TypeCorrect` and `CapitalCovered`: `Spec => []TypeOK`,
  `Spec => []CapitalIsCovered`, under every fault. `Inv` ties the account to the
  ledger: a job at a place that touches the account has its transaction not applied
  yet (`Ready`), and an allocation past its reservation, in memory or on disk, was
  reserved (`Backed`); so the account's counter is the number of plans it holds
  capital for, and the clamps never cut more than a loss took.

The others under `DurableAppends` (here: no append fails), through any crashes:

* `CapitalStaysOwned` and `ProfitsStayBooked`, of `HeldIsOwned` and `PostedIsBooked`.
  Their invariant adds that memory and disk agree except for the one step a job is
  in, so what a crash reads back owns and books what the account has done.
* `CompletedStaysJournaled`, `PositionsStayFunded` and the action property
  `ResultsStayFunded`, of `CompletedIsJournaled`, `PositionsAreFunded` and
  `ResultsAreFunded`, from `Funding` (theorem `FundingInvariant`): an accounted
  result has its position group, and a completed plan has an accounted result and
  its capital until a profit is posted (`StoreFits`); the run under way is at a
  place whose earlier writes are there (`RunFits`); and memory agrees with the disk
  except for a sweep of the queue that was not saved (`Agreeing`). A crash drops the
  run, so `StoreFits` has to hold between any two of its writes.
* `CapitalStaysExplained`: `Spec /\ []Solvent => []CapitalIsExplained`. `Solvent` says
  that initial capital and posted profits together are not negative; where they
  are, `recordProfit` clamps at zero, as the code does, and the sum is off by what was
  cut. TLC confirms `Solvent` on the run's instance. `CoveredCapitalIsExplained`
  replaces it by a condition on the constants alone (`LossesCovered`: the capital
  covers the greatest loss of each possible result).

`JsonlSnapshotFileProofs` (for any snapshots and files of any length):

* `RestartsReadTheSummary` and `SummaryStaysExact`, of `RestartReadsSummary` and the
  refinement `SummaryIsExact`: an append after a clean tail becomes the newest
  complete line; after an unterminated one it is glued to it and the complete lines
  stay what they were; a broken append leaves a tail that parses or does not. So the
  three fields of the abstract journal are all that a restart and the next append
  depend on.

`FiniteSums` holds what the sums over plans and results need. Induction is by the
least counterexample (every set of naturals that is not empty has a least element),
which asks no prover to instantiate an operator. `JsonlSnapshotStoreTheorems` has the
two typing lemmas of the journal operators.

Only model-checked: the four liveness properties (`PlansSettle`, `OrdersAreSettled`,
`PlansEnd`, `CapitalComesBack`). Fairness and ENABLED are out of the prover's reach.
The theorems about `PassiveMakerThenHedge` and `StrategyOneTinyLive` are about those
modules, in which the gateway is what it promises its callers; that the
gateway's module keeps these promises is `AtMostOneSubmission`,
`RecordedFillsAreReal` and `FinalStaysFinal`, but the modules are not composed in one
theorem.

## 6. Not modelled

Everything `PROJECT.json` lists as `not_modelled`, with the reason there. Inside
the modelled files: `acknowledge()` of a bare lease (tests only), `readLatest`,
`replaceAll` and `clear`, snapshot shape checks, diagnostics, request hashes and
readiness checks that end a call before it changes state, timing evidence, and
floating-point tolerances. Of the Strategy One lane: the wallet reservation of the
coordinator with its hold and TTL (it blocks before anything is sent, and belongs
to the capital module), P&L, recovery intents and timing evidence, the turn of the
day, torn lines of its journals (an append happens or fails) and an order the
exchange accepts only after the crash of the process that sent it. Of the
maker-hedge handler: prices, quote notionals, expected-value evidence and what a
staged intent triggers later. Of the PAPER path: torn lines, journal capacities other
than the queue's, the order in which waiting plans are leased, the quantities of a
group, the daily metrics and the operator's resets of the account.

Most of the repository (market data, pricing, ranking, analytics, configuration,
routes, the frontend) is I/O, numeric decision or presentation without a protocol
between actors; a model of it would restate its assignments. What has one and is
still left out is in the plan below.

## 7. Plan

Done: the journals, the dispatch spine, the gateway, the Strategy One lane, the
maker-hedge handler and the PAPER path, in this order, because each later part
relies on the promise of the earlier ones. Next, in order:

1. *The other lifecycle handlers* (`SequentialThreeLeg`, `ParallelDerivative`,
   `TwoSidedPassiveMaker`) on the pattern of `PassiveMakerThenHedge`, and the
   composition of one of them with the dispatcher, in place of its strong fairness.
2. *Runs for known behaviour*: the exposure whose capital is released, the residual
   staged twice, the record that regresses, the fee in a third asset, the settlement
   that is on no disk, the PAPER plan with two results.
3. *Capital reservations* over trading accounts: conservation, release once,
   expiry racing consumption, and the hold that the Strategy One coordinator takes
   and may outlive.
4. *Strategy One, continued*: its journals over `JsonlSnapshotStore`; liveness
   (an attempt that starts is settled; a FAILED or exposed session without
   evidence for one leg can never be resolved).
5. *Order lifecycle and fills*.
6. *Proofs*: the gateway's truth with one torn or unreadable journal, where a key may
   get a second order; what holds of the dispatch spine after a single failed append;
   and the promises that `PassiveMakerThenHedge` and `StrategyOneTinyLive` take from
   the gateway, derived from `CentralLiveOrderGateway` in a module that composes them.

A new module comes with one passing run over all its properties; runs that ask the
same question of two modules are merged rather than repeated.
