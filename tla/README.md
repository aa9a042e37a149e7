# crypto_trade in TLA+

TLA+ models of the trading system in `src/`: a pipeline of three processes that
turns market signals into orders. The modules model the parts that keep state and decide;
TLC checks them on small instances, and TLAPS proves every safety property that a passing run
checks (of the order manager, the arbitrage manager, the main loop with its risk initializer, the
executor, the pool and the collector) for every value of the constants, and that the order
manager implements its abstract specification. Liveness is left to TLC. Paths
below are relative to `src/`.

    signal producers --> signal-collector --> pre-post-processor --> trading-engine --> exchange
                             events             orders, reports         WebSockets

## 1. Inventory

The three processes exchange messages over iceoryx2 shared memory. Nothing is written to
disk (`persist` in `pipeline/shared_state.rs:242` is a TODO), so a restart begins from `Init`.

### signal-collector

| part | state | operations |
| --- | --- | --- |
| subscribers (`ipc_subscriber.rs`), one thread each | the message in hand | receive, decode, `blocking_send` to the signal channel |
| signal manager (`signal_manager.rs`) | last signal of each kind, triggers by kind | `update_signal`, `get_last_signal_by_type`, `register_trigger` |
| triggers (`trigger.rs`) | none | `MTTrigger` fires; `MTCloseTrigger` and `HedgeTrigger` return `None` |
| event generator (`event_generator.rs`) | `sequence_id` | number an event, send it to the event channel |
| publisher (`ipc_publisher.rs`), a thread | none | encode and publish; an event that fails is logged |

They interact through two bounded channels (1024). *Hard:* a full channel blocks the main
loop, which then blocks the subscribers; the order in which several subscribers are served;
the last signal of any age. *Correct if* no event is lost by a full channel, events keep
their order, a newer signal of a source is never replaced by an older one, nobody blocks for ever.

### pre-post-processor

| part | state | operations |
| --- | --- | --- |
| order state machine (`order/order_state.rs`) | state of each order's machine | the transition table, `cleanup_terminal_orders` |
| order book (`order/order.rs`) | `Order` records, four indexes | add, `update_execution`, look-ups |
| order manager (`order/order_manager.rs`) | both of these, submission queue, fills, statistics | create, validate, get next, mark submitting / submitted / failed, process a report, cancel, clean up |
| arbitrage manager (`order/arbitrage.rs`) | pairs, order-to-pair map, statistics | create, add order, update status, cancel, clean up |
| pipelines (`pipeline/pipeline.rs`) | none | a chain of checks on a signal; the booking of a report |
| shared state (`pipeline/shared_state.rs`) | positions, quotas, exposure, counters | update position, quota, risk state |
| risk initializer (`risk_control/risk_initializer.rs`) | its own risk state, rules and calculator | `process_init_signal`, part by part |
| risk state (`risk_state.rs`) | symbol records, metrics; one copy in the loop, one in the initializer | daily reset, summary; trade and execution methods that nothing calls |
| risk rules (`risk_rules.rs`) | limits, rules by kind | written by an init; the rule chain is never built by the process |
| risk calculator (`risk_calculator.rs`) | windows of profits and exposures, a cache of 5 s | add points, compute metrics |
| main loop (`main.rs`) | two queues | `select!` over two subscriptions, two queues, two timers |

The order manager keeps **two copies of every order's state**: the machine's and the book's.
Handlers call the machine first (its refusal is the error of the method) and then write the
book, the fills and the counters. *Hard:* these copies part after a cancel request or a fill;
reports come late, repeated or in the wrong order; queue entries go stale; an error of the
order manager ends the process; an init that fails in the middle leaves what it has written. *Correct if* the copies differ only where they are meant to,
fills and quantities agree, a live order can be found, no order is counted or submitted twice,
a pair with one leg traded and the other dead is offered for a hedge, the exposure is that of the
positions, and the risk state is what the inits, and nothing else, have made it.

### trading-engine

| part | state | operations |
| --- | --- | --- |
| executor (`executor/executor.rs`) | one task per command | `execute`, `retry_execution`, concurrent sends |
| idempotent manager (`executor/idempotent.rs`) | generated ids | generate, check, clean up |
| health tracker, selector (`health/`) | metrics by connection | register, success, failure, remove, sweep; five strategies |
| pool (`ws_pool/pool.rs`) | connections, shutdown watch | start, send, shutdown |
| connection runners (`ws_pool/*_connection.rs`) | socket, timer, `waiting_pong`, `ConnectionState` | connect, subscribe, serve, reconnect |
| builder, signer, adapters, IPC manager | none | formatting; stubs |

*Hard:* every command is a task and every send an interleaving point; connections leave while
a send is out; timeouts and retries; a shutdown that comes while a runner sleeps; a peer that
vanishes. *Correct if* a failure means that nothing was sent, health is neither forgiving nor
brittle, no removed connection returns, each task ends, a dead socket is left, a shutdown is seen.

### test-signal-generator

| part | state | operations |
| --- | --- | --- |
| sources (`ice_mpsc_generator_fixed.rs`), one task each | the event in hand | receive market data, `send` to one channel of 2000 |
| main loop | the receiver, the statistics | receive and turn into a signal, print and reset, check the node |
| other generators | none shared between tasks | single loops, a broadcast version, an earlier version |

*Hard:* many fast sources and one receiver; termination while the channel is full. *Correct if* a
slow source is served in the end and a termination request ends the process.

## 2. The plan

The order of the work: the order manager first, because every trade goes through it, then what
calls it, then the engine, then the collector.

1. *(done)* `OrderState`, `PriorityQueue`, `OrderManager`, the abstract `OrderLifecycle`, and
   the proofs of its safety invariants.
2. *(done)* `Arbitrage` and its proofs; `PrePost`, which composes the loop, both pipelines, the shared state
   and the order manager's transition table; `Executor` over `ConnectionHealth`; `WsPool`;
   `SignalCollector`.
3. *(done)* `RiskInit`: the initializer with its state, rules and calculator, composed with the
   loop's own copy of the risk state in `PrePost`. `MpscGenerator`: the generator on one bounded channel.
4. *(done)* Proofs: what was left of the order manager, with its refinement; the main loop; the
   executor; the pool; the collector; the risk initializer with its folds over requests, and the
   calculator with its sums. No module that is proved about reaches a RECURSIVE operator.
5. *(left)* The statistics and forwarding of the pool; round trips of the encodings of
   `binary.rs`; the broadcast generator.

## 3. The modules and the code

**OrderState** is the transition table as three predicates `(state, event, next)`. An event
without a next state is the error of `get_next_state`. `Expire` is raised by `handle_order_expired`
(`order_manager.rs:403`) alone, which nothing calls since a report has no such status; nothing raises
`SystemError`. They are in the table and no run of the order manager takes them.

**PriorityQueue** is the array of eleven FIFO levels. `IsNext` and `Popped` say what
`get_next_pending_order` does with its loop of pops.

**OrderManager** has one variable per map of the code and an action for each public method.
`machine` and `book` are the two copies of an order's state. A method that returns an error
changes nothing, so its guard is enough. `handed` holds the orders that
`get_next_pending_order` has given to its caller, who is the only one to submit them.
Reports are any order known, any kind and any quantity, any number of times, which covers
loss, repetition, delay and invention. Prices, times and averages are left out.
No handler fails half-way: the machine's transition is its only fallible call and comes first.

**OrderLifecycle** is what the order manager promises about each order: none, pending, in the
market, done, in that direction; quantity is booked only in the market or with the last step;
a record is dropped only of an order that is done or fully executed. `OrderManager` implements
it (`ImplementsLifecycle`): `phase` is read off the machine and `kept` off the book, so the
refinement relates the two copies.

**Arbitrage** models each method of the arbitrage manager and its callers' two obligations,
which the order manager meets: an id is new when it is added and a terminal status is final.
The list of dead states in `update_order_status` (`LegFailed`) is not that of `is_terminal`: it leaves
out `Expired`. The property on hedges reads "dead" off `is_terminal` and states what the code makes
of the difference: a pair with one leg filled and the other expired is neither offered nor settled.

**PrePost** is the main loop. Subscriptions append to two queues; `ProcessSignal` and
`ProcessReport` take one item each, and are whole branches of `select!`, which has no await
inside them that lets another branch in. The state machine is `OrderState`'s; an order of the
loop is created and validated at once and nothing submits it (no code calls `mark_submitting`).
Positions and quotas are written under the `{:?}` form of a report's symbol and read under a
signal's symbol, which never coincide: hence two disjoint sets of keys. `pending_orders` is
never raised, so the limit on it cannot refuse anything and `CanTrade` leaves it out. The age
and the cooldown depend on the clock: `inTime` is any answer. A risk init is worked off by
`RiskInit`'s initializer; if it succeeds, the loop replaces its own `riskState` by a copy of the
initializer's and applies the summary, and if it fails the error is logged and nothing else
happens. The restrictions of a summary are entered in quotas that exist, which are those of the
tickers (`shared_state.rs:143`, `:257`): no signal reads them. `Cleanup` is the hourly timer, which resets
the day's counts of the loop's copy only, and only if it falls in the first minute of a day.
`CanTrade` leaves out the check of the capital too, and any lot is worth more than the limit of
exposure: both only concern prices. A signal the code would stop for its capital may pass here.

**RiskInit** is part of `PrePost`'s state (`InitRisk`, `ProcessInit`). The parts of a request
are applied in the order of the code: limits, symbol states, positions, rules, history. A symbol
state with an invalid restriction time ends the init; the parts before it stay. A symbol state replaces
the symbol's record, a position is added to it. The rules are kept as the name of the init that
last wrote each part, which is enough to say which one is in force. The calculator's cache may or may not
have expired when an init asks for the metrics: `RestoreHistory` allows both.

**ConnectionHealth** and **Executor**: metrics as records; the score kept in whole numbers up to
its threshold of 50, the round trip time by the points it earns (the two extremes). A task is
`execute` or `retry_execution`; a send is an action of its own that ends by success or by
failure, the timeout included. A copy counts as sent when the connection accepted it. What the
connections answer is left open: the pool of the present code refuses every send (see `ws_send`),
and the executor should be right for a pool that does not. In the same way connections are
registered in the model although `main.rs` never registers one.

**WsPool**: `start`, the runners, the shutdown. `channels` says which of the two copies of a
connection holds a command channel. A socket may go dead without a word; writes to it may
succeed for as long as the model likes. The main program exits soon after a shutdown; the pool is
modelled as the library it is. Statistics and the forwarding of messages are left out, and so is
the branch of the runner that takes commands, which no send can reach.

**SignalCollector**: threads, channels and the main loop, with two small capacities for 1024. The number of
a signal at its source is history, which the properties on order need.

**MpscGenerator**: the channel with its permits. A sender without a permit waits, and a permit freed by
the receiver goes to the sender that has waited longest, as the semaphore inside the channel
does. The main loop's answer to a termination request is a `send` of its own into the channel it
alone receives from, and a return: so the branch that would receive `Shutdown` is
never taken. A comment in the code says that events come first, but the `select!` has no `biased` and
chooses at random. The statistics are counted as the code counts them: an order-book event that is
only logged and a send that fails are signals sent. These counters (`SaysSent`, `Counted`,
`PrintAndReset`) are there because the handlers change them; nothing decides on them and no property
reads them.

**OrderManagerProofs**, **ArbitrageProofs**, **RiskInitProofs**, **PrePostProofs**,
**ExecutorProofs**, **WsPoolProofs**, **SignalCollectorProofs** and **MpscGeneratorProofs** hold the
proofs.
The `MC...` modules hold the values of the instances. Operators marked `Mutant` in a comment are what a plausible mistake would make of the definition
that follows; no specification uses them. Each shows that a property depends on the code.

## 4. The runs

| run | instance | what it shows |
| --- | --- | --- |
| `order_manager` | 2 orders, quantities 2 and 1, fills of 0 to 2 | the invariants of the order manager, and that it implements `OrderLifecycle` |
| `arbitrage` | 2 pairs, 3 orders, 3 creations | a hedge is offered for one-sided pairs, all of them but those with an expired leg; a settled pair is final and counted once; the order map agrees with the legs |
| `pre_post` | 2 small, 1 large signal, 3 risk inits, one of which fails at its second symbol; at most 4 signals and 2 reports | no signal is lost, the quotas count the reports taken and cover the positions, the exposure is current, no order while exposed, the inits explain the risk state and the window its metrics, signals drain |
| `executor` | 4 tasks, 2 connections, 2 attempts | failure means nothing sent, the threshold tolerates one failure, no removed connection returns, tasks end |
| `ws_pool` | 2 connections, 3 configurations | the pool's view follows the runner, a missed pong is real, dead peers are left, a shutdown is seen |
| `signal_collector` | 2 subscribers, 3 signals each, channels of 2 and 1 | events are accounted for and ordered, sources keep their order, subscribers are unblocked |
| `mpsc_generator` | 4 sources on a channel of 2 | a termination request ends the process or stops all of it, waiting sources are served |
| `order_retry` | as `order_manager` | *violated*: an order queued for a retry is submitted again |
| `pre_post_fill` | one order and a fill report of it | *violated*: a fill of an order of this process is processed |
| `executor_duplicate` | commands with and without an id | *violated*: duplicates are refused, and nothing else |
| `ws_send` | 2 connections | *violated*: a send on a connected connection is accepted |
| `signal_trigger` | as `signal_collector` | *violated*: a funding rate alone triggers nothing; a high spread stored before is enough for its arrival to trigger |

### Bounds

* `MaxExecuted = 3` is one more than the larger order, so overfills happen; `MaxCancelled = 3`
  is more than there are orders: a repeated confirmation is counted again.
* Two orders are enough for a queue with a stale entry before a live one, and for a cleanup
  that takes one order and not the other. Two sets of quantities tell a fill that completes an
  order from one that does not.
* Three orders on two pairs give a pair a third order, and three creations reuse an id.
  The instance is symmetric in pairs and in orders: no property or constant names one of them.
* `MaxLots = 2` stands for 100: two small signals reach the limit and the large one passes it.
  `MaxSignals = 4` leaves room for an order, a failed init, and inits before and after it;
  `MaxReports = 2` for a purchase and the sale that undoes it. `MaxHistory = 3` is less than the
  points of two inits, so the window drops some.
* Four sources on two places fill the channel with two senders waiting, which tells the order of waiting;
  `MaxCount = 1` because the loop reads no count, it only prints them.
* `SendBound = 3` sends per connection reach the threshold of the score from both sides;
  `MaxRegistered = 2` registers a connection again after its removal.
* A signal channel of 2 lets signals wait behind each other, and an event channel of 1 blocks the main
  loop at the second event; six signals fill both, with the main loop and a subscriber blocked.

### Deadlock

All runs say `CHECK_DEADLOCK FALSE`, because all of these systems may stop: the bounded
counters run out (`order_manager`, `arbitrage`, `signal_collector`), a process ends on an error
(`pre_post`, `signal_collector`), every task is done (`executor`), `start` fails
(`ws_pool`), the process returns or waits for itself (`mpsc_generator`). What must not stop is stated as liveness instead.

### Fairness

* `PrePost`: weak, on both queue branches; `select!` chooses at random among the ready ones.
  Polling is not assumed.
* `Executor`: weak, on the steps of a task and on the failing end of each send: the timeout
  of each send ends it. A success is not assumed.
* `WsPool`: weak, on connecting, subscribing, sleeping and the timer, each of which ends; strong on
  the observation of the shutdown, because the runner leaves and enters its loop while the
  choice of `select!` among ready branches is random. Nothing is assumed of the peer.
* `SignalCollector`: weak, on the loop and the publisher; strong on handing over, because the
  channel serves blocked senders in turn (a FIFO semaphore). Reading and dying are not assumed.
* `MpscGenerator`: weak, on the sources' sends, on receiving and on the node check. The runtime runs
  every task that is ready, the sources loop without end, and a tick that is due stays ready until
  `select!` takes it. Printing and termination requests are not assumed.
* `FairSpec` of the order manager: weak, on asking for the next order and submitting it.

## 5. The proofs

`OrderManagerProofs` proves, for any set of orders and signals, any quantities and any bounds:

* `TypeOKAlways`, which includes that the saturating counters stay naturals;
* `BookFollowsMachineAlways`: the two copies of a state differ only after a cancel request or
  between the status and the quantity of a fill;
* `FillsMatchExecutedAlways`: records and quantities agree;
* `LiveOrderReachableAlways`: no order that may still trade is missing from the book, or counted
  as completed before its quantity is executed.

The assumptions are those named in `OrderManager`: the orders are a finite set, `NoSignal` is not
a signal, quantities are naturals.

None of the three invariants is inductive alone. A fill needs the order in the book
(`SetBookState` and `UpdateExecution` are the `if let Some` of the code), which follows from
`BookFollowsMachine` only together with `RecordsBelong`: an id that was never generated has no
machine, no entry and no place in the queue, and an entry that is gone has no quantity. And
`LiveOrderReachable` needs `BookFollowsMachine` to know in which states a completed book can meet
a live machine: only `PartiallyFilled`, whose quantity `UpdateFacts` computes. `OrderInv` is the
conjunction of these, `OrderInvInit` and `OrderInvNext` the two steps, `OrderInvAlways` the result.
Lemmas on the queue (`PushFacts`, `PoppedFacts`, ...) say what a push and a run of pops leave; one lemma per
action, named `...Preserves`, proves the step, each starting from what the action does to the
order's machine (`TransitMoves`).

From `OrderInv` it goes on to prove, under the same assumptions:

* `EndsCountedOnceAlways` and `ActiveCountBoundedAlways`: each counter is compared with the
  cardinality of a set of orders (`Unended`; `Marketed` from above and `Awaited` from below), and
  `EndsOfNext`, `ActiveOfNext` and `AwaitedOfNext` say how each action moves both. `Awaited`, the orders
  still to end, keeps an order that was cancelled at a request until its confirmation comes, which is
  when both the count and `cancelled_orders` move;
* `ValidatedHasOnePlaceAlways`: `PushGivesPlace` and `PopHandsOver` say how an order gets and leaves
  its one place, `PushKeepsPlace` and `PopKeepsPlace` that the others keep theirs.

Last, `ImplementsLifecycleAlways`: `Spec => ImplementsLifecycle`. One
lemma per action (`...Refines`) maps it to a lifecycle step of one order or to a stutter under
`Phases` and `Sizes`; only `CleanupRefines` moves many orders at once. It needs two invariants: a record that is
dropped must be of an order that is done or fully executed, which is `LiveOrderReachable`, and the
phase is read off the machine while the size is in the book, which `BookFollowsMachine` relates.

`ArbitrageProofs` proves, for any finite set of pairs, any set of orders and any statuses:

* `TypeOKAlways`, `HedgeOfferedUnlessExpiredAlways` and `LegsAreMappedAlways`;
* `SettledIsFinalAlways`, an action property;
* `SettledCountedOnceAlways`, by the cardinality of the set of unsettled pairs, which leaves room in
  `completed_pairs` for each pair that goes out of `active_pairs`.

Here the strengthening is `PartialExact` (the state `PartialSuccess` is that of the two arms of the
match), `LegsInOrder` (a leg's terminal status is that of its order's machine, so a
later report of the same leg repeats it; a leg without an order has no status) and `SettledByLegs`
(how a pair was settled follows from its legs). Without the first a report could change one leg of
a settled pair. That a terminal status is final is the order manager's obligation, a guard of
`UpdateOrderStatus`. `ArbitrageInv` is the inductive conjunction; `AddOrderPreserves` and
`UpdatePreserves` also say what a step does to other and to settled pairs, which the last two
theorems need.

`RiskInitProofs` proves what the risk initializer and its calculator compute, for any requests and
any size of the window; `PrePostProofs` extends it. `InitializerInv` says that each symbol's record is
`Expected` of the inits processed, that the rules are `ExpectedRules` of them, and that the metrics are
those of the window. `InitializerStarts` and `ProcessInitPreserves` are its two steps. Every part of it
is about a recursion or a fold whose length is a matter of data, and the library's induction theorems
take an operator that the provers cannot instantiate. Two things stand in for them:

* *Induction over a set.* `SetInduction` says that a set with 0 and the successor of each of its
  naturals holds all naturals; it follows from `Smallest`, the library's well-foundedness of `<`.
  To prove something of every length, take the set of the lengths of which it is true.
* *A solution in hand.* `f[n] == ... f[n - 1] ...` stands for a CHOOSE of some solution, and says
  nothing until there is one. `RecursionExists` and `FoldExists` build it, for a recursion over `0..n`
  and for a fold over the subsets of a finite set; the definition's own equation follows, and with it
  `RunningSumDef`, `PeaksDef`, `SymbolStatesEffect` and `PositionsEffect`.

On these rest `SumOfAppend` and the other lemmas on sums, `TotalIsProfitLessLoss`, and the theorem
`DrawdownIsGreatestFall`: the pass of the calculator, which keeps a running peak and the largest gap
below it, finds the greatest fall between any earlier and any later point. `SymbolsAfterEffect` says
what the two folds of a request do to one symbol, `ExpectedOfAppend` what one init more does to what is
expected of it; that the two agree is the heart of `ProcessInitPreserves`.

`PrePostProofs` proves, for any signals, reports, init requests, limits and bounds, in three invariants:

* `LoopInv`, for `SignalsAccountedAlways`, `ExposureIsCurrentAlways`, `NoOrderWhenExposedAlways` and
  the half of `BooksMatchReportsAlways` about positions. The strengthening is `LoopTypeOK`, the types of
  what these read, `QuotasStartUnused`, and `NamesUntouched`: a position or a quota is never kept under
  the name of a signal, so the limits a signal is checked by are those of a new quota.
* `BooksInv`, for the other half of `BooksMatchReportsAlways`: the sum of the trades over all keys moves with the one quota
  that a report is booked in (`TotalTradesFollows`). It needs `NoTradesWithoutQuota`, since a quota
  that does not exist yet is made with no trades. A report that is refused moves `processedReports` and
  the sum not at all, and is counted by the process having stopped.
* `RiskInv`, for `InitsExplainRiskStateAlways` and `MetricsMatchHistoryAlways`: `InitializerInv`, and
  that the loop's copy is `Shown`, the records after the last success, before or after a reset of
  the day's counts. `ShownOfAppend` is the step: an init that fails leaves what is shown, one that succeeds
  shows everything up to itself, the failed ones before it included.

`TypeOKAlways` is from all three. The assumptions say that `Names` and `Tickers` are disjoint and
finite (the sum needs it; a process sees finitely many symbols), that messages and requests are well
typed, that a request has at most one history, that the window has a place, and that the bounds
are naturals.

`ExecutorProofs` proves, for any finite set of connections, any tasks and at least one attempt,
`TypeOKAlways`, `FailedMeansNotSentAlways`, `OneFailureToleratedAlways` and
`RemovedStaysRemovedAlways`. `AttemptsLeft` says that a task that goes on has not used its attempts up, and
`CopiesAreResponses` that a copy sent in the present attempt is among its responses: a failed
attempt, which has none, has sent nothing. `MetricsAreHistories` says which metrics some history of
sends leaves: failures are at most the errors, and before the first success every error is a failure and
the round trip time gives the points it starts with. Without it there are metrics of the
right type with one failure and a score below the threshold.

`WsPoolProofs` proves, for any finite set of connections and any configurations, `TypeOKAlways`,
`TrackedHaveRunnersAlways`, `StateFollowsSocketAlways` and `MissedPongIsRealAlways`, by one lemma
per action. The strengthening `ConnectingIsShown` is that a runner which connects shows it.

`SignalCollectorProofs` proves, for any signals, kinds and subscribers and any positive capacities,
`TypeOKAlways`, `EventsAccountedAlways`, `EventsInOrderAlways` and `SourceOrderKeptAlways`. The order
of a source is followed from its subscriber to the last signal: `SignalsInOrder` says that its
numbers grow along the channel and that the signal being handed over is newer than those in it.
`NumbersGrow` does the same for events: the one in hand is the newest, and a published one is older than
all that are on their way.

`MpscGeneratorProofs` proves, for any sources and any positive capacity, what the two liveness
properties of the generator rest on. `NoPermitLostAlways`: no sender waits beside a free permit.
`SelfSendIsFinal`: a loop that waits for a permit to send its own `Shutdown` never gets one.
`BlockedForEver`: the state that `TerminationHonoured` names as the bad end has no way out. The invariant
`GeneratorInv` adds that each sender has one place and that the loop is among the waiting
exactly while it sends.

### Only model-checked

* Liveness under fairness, which is out of the prover's reach as everything that uses ENABLED is:
  `SignalsDrain`, `CommandsFinish`, `DeadPeerIsLeft`, `ShutdownIsObserved`, `SubscribersUnblocked`,
  `TerminationHonoured`, `SourcesServed`.
* The runs that expect a violation.

## 6. What the runs found

1. **A failed order is not retried** (`order_retry`). `mark_submit_failed` puts the order back in the queue
   (`order_manager.rs:231`) in state `Failed`; `get_next_pending_order` drops whatever is not
   `Validated`, and the table has no way out of `Failed`.
2. **A fill ends the process** (`pre_post_fill`). The loop's orders stay `Validated`; a fill
   report of one is an invalid transition, and the `?` at `main.rs:244` leaves `run`.
   `doc/时间戳维护.md:285` has the report set the order to filled.
3. **The duplicate check is inverted** (`executor_duplicate`). A generated id is entered and then found
   by the check that follows, so the command is refused; an id of the caller is never entered,
   so two deliveries are both sent. `doc/pp.md:246` promises idempotence by client order id.
4. **No order can be sent** (`ws_send`). The pool keeps a copy of a connection made before its command
   channel is, and `send_to_connection` fails on each. `doc/pp.md:224`.
5. **The trigger acts on the funding rate** (`signal_trigger`), while `doc/时间戳维护.md:251` says that
   a funding rate alone triggers nothing.

Shown by the models as the code's behaviour, against no statement of the repository: a generator that
is asked to stop while its channel is full waits on itself for ever
(`ice_mpsc_generator_fixed.rs:312`), so it needs a second, harder signal; what a failed risk init has
written is handed out by the next one that succeeds; that one also brings back the day's counts that the daily reset has
cleared, because the reset does not reach the initializer's copy. A pair with one leg filled and
the other expired is never offered for a hedge (`arbitrage.rs:205` against `order_state.rs:55`), although
no code reports an expiry today. A cancelled pair that is settled afterwards is taken off
`active_pairs` twice, so that the number may be too small. From a risk init to the next report the
exposure reads 0, whatever the positions are (`overridden`). A repeated cancel confirmation is counted again.

Met while reading, and not stated as a run: the match of `signal_manager.rs:66` lacks
`RiskControlInit`; the collector publishes byte arrays on `events/trading` while the
pre-post-processor subscribes typed signals on `signal_service`; the exchange-id index of
the order book is never filled (`ExchangeIdIsIndexed`); a cancelled pair becomes active again when it
is given an order (`TerminalIsFinal`).

## 7. Not modelled

* Of `risk_control/`: `process_signal`, `process_execution` and the setters of restrictions of
  `risk_state.rs`, which nothing calls, so that the summary's global exposure is always zero; in the
  calculator the metrics of the day, the ratios (30 points), the value at risk (100 points) and
  `get_risk_score`, which are statistics on decimals that no decision reads; of `risk_rules.rs` the rules
  and their chain, which the process never builds. The chain is a second version of the pipeline's
  checks and not the same one: it refuses an exposure above 0.03 (`risk_rules.rs:282`), the pipeline one
  of 0.03 or more (`shared_state.rs:127`).
* Of the pool: the statistics of a connection, the forwarding of messages, and the branch of the
  runner that handles commands, which no send can reach.
* Of the engine: request building, signing, adapters and URLs, which format without state; the IPC
  manager, which consists of stubs.
* The other generators: `ice_mpsc_generator.rs` is an earlier version of the one modelled;
  `ice_generator.rs`, `ice_broadcast_generator.rs` and `test_runner.rs` are loops that share no
  state whose order could matter.
* `binary.rs` and the common types: byte encodings, planned as round trips.
* Configuration files.
* Prices, profits and rates wherever no decision depends on more than their sign.
