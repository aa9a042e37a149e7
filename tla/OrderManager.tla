---------------------------- MODULE OrderManager ----------------------------
(***************************************************************************)
(* The order manager of the pre-post-processor                             *)
(* (pre-post-processor/src/order/order_manager.rs and order.rs): the order *)
(* book, one state machine per order, the submission queue, the recorded   *)
(* fills and the statistics.  Every public method is an action; a call     *)
(* that returns an error changes nothing and has no action.  The callers   *)
(* (the main loop, the submitting side and the reports of the exchange)    *)
(* are free to call in any order, to repeat a report and to invent one.    *)
(***************************************************************************)
EXTENDS OrderState, PriorityQueue, FiniteSets

CONSTANTS
  Orders,          \* client order ids: random UUIDs, so each is generated once
  Signals,         \* ids of the signals orders are created from
  NoSignal,        \* not a signal
  Quantity,        \* the quantity of each signal
  ArbSignals,      \* the signals whose metadata carry an arbitrage_id
  FillQuantities,  \* filled_quantity of an execution report
  MaxExecuted,     \* bound on the quantity executed by one order
  MaxCancelled     \* bound on the cancelled_orders counter

ASSUME OrdersAssumption == IsFiniteSet(Orders)
ASSUME SignalsAssumption == NoSignal \notin Signals /\ ArbSignals \subseteq Signals
ASSUME QuantityAssumption == Quantity \in [Signals -> Nat] /\ FillQuantities \subseteq Nat

VARIABLES
  machine,         \* StateManager.machines: the state of each order's machine
  book,            \* OrderBook.orders_by_client_id: Order.state of each entry
  signalOf,        \* Order.signal_id; NoSignal for an id not generated yet
  executed,        \* Order.executed_quantity
  retryCount,      \* Order.retry_count
  exchangeId,      \* the orders whose exchange_order_id is set
  recorded,        \* the total quantity of fills[o]
  queue,           \* OrderManager.priority_queue
  handed,          \* orders get_next_pending_order has returned to its caller
  activeOrders,    \* OrderBook.active_orders
  exchangeIndex,   \* OrderBook.orders_by_exchange_id
  arbitrageOf,     \* ArbitrageManager.order_to_arbitrage (of this manager)
  totalOrders,     \* OrderStats.total_orders, and the other counters of it
  activeCount,     \* active_orders
  filledOrders,    \* filled_orders
  cancelledOrders, \* cancelled_orders
  rejectedOrders   \* rejected_orders

bookVars == <<book, executed, retryCount, exchangeId>>
indexVars == <<signalOf, activeOrders, exchangeIndex, arbitrageOf>>
reportStats == <<activeCount, filledOrders, cancelledOrders, rejectedOrders>>
stats == <<totalOrders, reportStats>>
vars == <<machine, bookVars, recorded, queue, handed, indexVars, stats>>

DefaultPriority == 5   \* from_signal; nothing changes it afterwards
MaxRetry == 3          \* from_signal

Generated == {o \in Orders : signalOf[o] # NoSignal}
InBook == {o \in Orders : book[o] # NoOrder}
Size(o) == Quantity[signalOf[o]]

Init ==
  /\ machine = [o \in Orders |-> NoOrder]
  /\ book = [o \in Orders |-> NoOrder]
  /\ signalOf = [o \in Orders |-> NoSignal]
  /\ executed = [o \in Orders |-> 0]
  /\ retryCount = [o \in Orders |-> 0]
  /\ exchangeId = {}
  /\ recorded = [o \in Orders |-> 0]
  /\ queue = EmptyQueue
  /\ handed = {}
  /\ activeOrders = {}
  /\ exchangeIndex = {}
  /\ arbitrageOf = {}
  /\ totalOrders = 0 /\ activeCount = 0 /\ filledOrders = 0
  /\ cancelledOrders = 0 /\ rejectedOrders = 0

-----------------------------------------------------------------------------
(* Steps shared by the methods                                             *)

\* transition_order: refused when the order has no machine or the machine has
\* no transition for the event.
Transit(o, e) ==
  \E t \in OrderStates :
    /\ Transition(machine[o], e, t)
    /\ machine' = [machine EXCEPT ![o] = t]

\* The `if let Some(order)` of every handler: an order whose machine accepts an
\* event is in the book (the invariant BookFollowsMachine).
SetBookState(o, s) ==
  /\ o \in InBook
  /\ book' = [book EXCEPT ![o] = s]

\* Mutant: one unit short of the quantity counts as filled.
StateAfterExecutionEarly(s, total, quantity) ==
  IF total + 1 >= quantity THEN "Filled" ELSE IF total > 0 THEN "PartiallyFilled" ELSE s

\* The state update_execution derives from the quantities alone.
StateAfterExecution(s, total, quantity) ==
  IF total >= quantity THEN "Filled" ELSE IF total > 0 THEN "PartiallyFilled" ELSE s

UpdateExecution(o, q) ==
  /\ o \in InBook
  /\ executed[o] + q <= MaxExecuted
  /\ executed' = [executed EXCEPT ![o] = @ + q]
  /\ book' = [book EXCEPT ![o] = StateAfterExecution(@, executed[o] + q, Size(o))]
  /\ UNCHANGED <<retryCount, exchangeId>>

\* Mutant: the fill is not recorded.
RecordFillSkipped(o, q) == UNCHANGED recorded

RecordFill(o, q) == recorded' = [recorded EXCEPT ![o] = @ + q]

\* Mutant: a plain subtraction on the counter.
DecrementPlain(n) == n - 1

\* saturating_sub(1)
Decrement(n) == IF n = 0 THEN 0 ELSE n - 1

CountFilled ==
  /\ filledOrders' = filledOrders + 1
  /\ activeCount' = Decrement(activeCount)
  /\ UNCHANGED <<cancelledOrders, rejectedOrders>>

CountRejected ==
  /\ rejectedOrders' = rejectedOrders + 1
  /\ activeCount' = Decrement(activeCount)
  /\ UNCHANGED <<cancelledOrders, filledOrders>>

\* Mutant: a cancelled order stays in the active count.
CountCancelledOnly ==
  /\ cancelledOrders < MaxCancelled
  /\ cancelledOrders' = cancelledOrders + 1
  /\ UNCHANGED <<activeCount, filledOrders, rejectedOrders>>

CountCancelled ==
  /\ cancelledOrders < MaxCancelled
  /\ cancelledOrders' = cancelledOrders + 1
  /\ activeCount' = Decrement(activeCount)
  /\ UNCHANGED <<filledOrders, rejectedOrders>>

-----------------------------------------------------------------------------
(* Creation, validation and submission                                     *)

\* add_order files a new order, in state Created, under its symbol and in
\* pending_orders, neither of which is read or shrunk again; it is not active
\* and carries no exchange id, so the other two indexes do not change.  The
\* arbitrage manager maps the order to its pair but holds no pair: nothing
\* calls create_pair.
CreateOrderFromSignal(o, signal) ==
  /\ o \notin Generated
  /\ signalOf' = [signalOf EXCEPT ![o] = signal]
  /\ machine' = [machine EXCEPT ![o] = "Created"]
  /\ book' = [book EXCEPT ![o] = "Created"]
  /\ arbitrageOf' = IF signal \in ArbSignals THEN arbitrageOf \cup {o} ELSE arbitrageOf
  /\ totalOrders' = totalOrders + 1
  /\ UNCHANGED <<executed, retryCount, exchangeId, recorded, queue, handed,
                 activeOrders, exchangeIndex, reportStats>>

ValidateOrder(o) ==
  /\ Transit(o, "Validate")
  /\ SetBookState(o, "Validated")
  /\ queue' = Push(queue, o, DefaultPriority)
  /\ UNCHANGED <<executed, retryCount, exchangeId, recorded, handed, indexVars, stats>>

Submittable == {o \in Orders : book[o] = "Validated"}

\* Mutant: the entry served stays in the queue.
TakeNextKeepsEntry(q, p, i) == Popped(q, p, i - 1)

TakeNext(q, p, i) == Popped(q, p, i)

\* Pops until an entry whose order is still Validated in the book.
GetNextPendingOrder ==
  /\ \/ \E p \in Priorities : \E i \in 1..Len(queue[p]) :
          /\ IsNext(queue, Submittable, p, i)
          /\ queue' = TakeNext(queue, p, i)
          /\ handed' = handed \cup {queue[p][i]}
     \/ /\ queue # EmptyQueue
        /\ \A o \in Submittable : ~Queued(queue, o)
        /\ queue' = EmptyQueue
        /\ UNCHANGED handed
  /\ UNCHANGED <<machine, bookVars, recorded, indexVars, stats>>

\* The submitting side submits the orders it was handed.
MarkSubmitting(o) ==
  /\ o \in handed
  /\ Transit(o, "Submit")
  /\ SetBookState(o, "Submitting")
  /\ handed' = handed \ {o}
  /\ UNCHANGED <<executed, retryCount, exchangeId, recorded, queue, indexVars, stats>>

MarkSubmitted(o) ==
  /\ Transit(o, "SubmitSuccess")
  /\ SetBookState(o, "Submitted")
  /\ exchangeId' = exchangeId \cup {o}
  /\ activeCount' = activeCount + 1
  /\ UNCHANGED <<executed, retryCount, recorded, queue, handed, indexVars,
                 totalOrders, filledOrders, cancelledOrders, rejectedOrders>>

\* A retry is queued again with the order left in state Failed.
MarkSubmitFailed(o) ==
  /\ Transit(o, "SubmitFailed")
  /\ SetBookState(o, "Failed")
  /\ IF retryCount[o] < MaxRetry
       THEN /\ retryCount' = [retryCount EXCEPT ![o] = @ + 1]
            /\ queue' = Push(queue, o, DefaultPriority)
       ELSE UNCHANGED <<retryCount, queue>>
  /\ UNCHANGED <<executed, exchangeId, recorded, handed, indexVars, stats>>

-----------------------------------------------------------------------------
(* Execution reports                                                       *)

HandleOrderAcknowledged(o) ==
  /\ Transit(o, "Acknowledge")
  /\ SetBookState(o, "Acknowledged")
  /\ UNCHANGED <<executed, retryCount, exchangeId, recorded, reportStats>>

HandlePartialFill(o, q) ==
  /\ Transit(o, "PartialFill")
  /\ UpdateExecution(o, q)
  /\ RecordFill(o, q)
  /\ UNCHANGED reportStats

\* update_order_status of the arbitrage manager finds no pair and returns.
HandleOrderFilled(o, q) ==
  /\ Transit(o, "Fill")
  /\ UpdateExecution(o, q)
  /\ RecordFill(o, q)
  /\ CountFilled

\* Mutant: an exchange's cancel ends the order in the book alone.
HandleOrderCancelledUnchecked(o) ==
  /\ SetBookState(o, "Cancelled")
  /\ CountCancelled
  /\ UNCHANGED <<machine, executed, retryCount, exchangeId, recorded>>

HandleOrderCancelled(o) ==
  /\ Transit(o, "CancelConfirmed")
  /\ SetBookState(o, "Cancelled")
  /\ CountCancelled
  /\ UNCHANGED <<executed, retryCount, exchangeId, recorded>>

HandleOrderRejected(o) ==
  /\ Transit(o, "Reject")
  /\ SetBookState(o, "Rejected")
  /\ CountRejected
  /\ UNCHANGED <<executed, retryCount, exchangeId, recorded>>

\* report.order_id is looked up as an exchange id first, then as a client id.
Found(idKind) == IF idKind = "exchange" THEN InBook \cap exchangeIndex ELSE InBook

\* A report of status Placed is ignored.
ProcessExecutionReport(o, idKind) ==
  /\ o \in Found(idKind)
  /\ \/ HandleOrderAcknowledged(o)
     \/ \E q \in FillQuantities : HandlePartialFill(o, q)
     \/ \E q \in FillQuantities : HandleOrderFilled(o, q)
     \/ HandleOrderCancelled(o)
     \/ HandleOrderRejected(o)
  /\ UNCHANGED <<queue, handed, indexVars, totalOrders>>

-----------------------------------------------------------------------------
(* Cancel requests and the hourly cleanup                                  *)

\* The machine moves to Cancelled at the request; the book waits for the report.
CancelOrder(o) ==
  /\ CanCancel(book[o])
  /\ Transit(o, "Cancel")
  /\ UNCHANGED <<bookVars, recorded, queue, handed, indexVars, stats>>

Completed == {o \in Orders : IsCompleted(book[o])}

\* The orders of old were completed more than keep_hours ago.  They leave the
\* book and the fills; every terminal machine leaves the state manager, however
\* recent.
CleanupCompletedOrders(old) ==
  /\ book' = [o \in Orders |-> IF o \in old THEN NoOrder ELSE book[o]]
  /\ executed' = [o \in Orders |-> IF o \in old THEN 0 ELSE executed[o]]
  /\ retryCount' = [o \in Orders |-> IF o \in old THEN 0 ELSE retryCount[o]]
  /\ exchangeId' = exchangeId \ old
  /\ recorded' = [o \in Orders |-> IF o \in old THEN 0 ELSE recorded[o]]
  /\ machine' = [o \in Orders |-> IF IsTerminal(machine[o]) THEN NoOrder ELSE machine[o]]
  /\ UNCHANGED <<queue, handed, indexVars, stats>>

Next ==
  \/ \E o \in Orders, signal \in Signals : CreateOrderFromSignal(o, signal)
  \/ \E o \in Orders : ValidateOrder(o)
  \/ GetNextPendingOrder
  \/ \E o \in Orders : MarkSubmitting(o)
  \/ \E o \in Orders : MarkSubmitted(o)
  \/ \E o \in Orders : MarkSubmitFailed(o)
  \/ \E o \in Orders, idKind \in {"client", "exchange"} : ProcessExecutionReport(o, idKind)
  \/ \E o \in Orders : CancelOrder(o)
  \/ \E old \in SUBSET Completed : CleanupCompletedOrders(old)

Spec == Init /\ [][Next]_vars

-----------------------------------------------------------------------------
(* Properties                                                              *)

\* The states of an order counted in active_orders, which mark_submitted raises:
\* unlike is_active they do not include Submitting.
InMarket(s) == s \in {"Submitted", "Acknowledged", "PartiallyFilled"}

TypeOK ==
  /\ machine \in [Orders -> OrderStates \cup {NoOrder}]
  /\ book \in [Orders -> OrderStates \cup {NoOrder}]
  /\ signalOf \in [Orders -> Signals \cup {NoSignal}]
  /\ executed \in [Orders -> Nat]
  /\ retryCount \in [Orders -> 0..MaxRetry]
  /\ recorded \in [Orders -> Nat]
  /\ queue \in [Priorities -> Seq(Orders)]
  /\ exchangeId \subseteq Orders /\ handed \subseteq Orders
  /\ activeOrders \subseteq Orders /\ exchangeIndex \subseteq Orders
  /\ arbitrageOf \subseteq Orders
  /\ totalOrders \in Nat /\ activeCount \in Nat /\ filledOrders \in Nat
  /\ cancelledOrders \in Nat /\ rejectedOrders \in Nat

\* The two copies of an order's state, the machine's and the book's, differ only
\* where a handler moves one of them alone: a cancel request moves the machine,
\* and a fill report moves the machine by its status and the book by its
\* quantities.  An order without a machine was cleaned up or never created.
BookFollowsMachine ==
  \A o \in Orders :
    \/ book[o] = machine[o]
    \/ machine[o] = "Cancelled" /\ CanCancel(book[o])
    \/ machine[o] = "PartiallyFilled" /\ book[o] \in {"Acknowledged", "Filled", NoOrder}
    \/ machine[o] = "Filled" /\ book[o] \in {"Acknowledged", "PartiallyFilled"}
    \/ machine[o] = NoOrder /\ o \in Generated

\* Every quantity added to an order is also in its fill records, and the two
\* are dropped together: record_fill and update_execution are separate calls.
FillsMatchExecuted == \A o \in Orders : recorded[o] = executed[o]

\* A report finds an order that is still to trade: while its machine is live the
\* book does not count an order as completed, which is what makes the cleanup
\* drop it, unless its whole quantity is executed.
LiveOrderReachable ==
  \A o \in Orders :
    /\ machine[o] \in {"Submitting", "Submitted", "Acknowledged"} => o \in InBook
    /\ (IsActive(machine[o]) /\ IsCompleted(book[o])) => executed[o] >= Size(o)

\* A validated order waits in exactly one place: one entry of the queue, or the
\* hands of the caller that popped it.  So it is neither lost nor sent twice.
ValidatedHasOnePlace ==
  \A o \in Orders : machine[o] = "Validated" =>
    IF o \in handed THEN ~Queued(queue, o)
    ELSE \E p \in Priorities : \E i \in 1..Len(queue[p]) :
           /\ queue[p][i] = o
           /\ \A k \in Priorities : \A j \in 1..Len(queue[k]) :
                queue[k][j] = o => k = p /\ j = i

\* filled_orders and rejected_orders count an order once between them, however
\* often a report is repeated and whatever the cleanup has removed.
EndsCountedOnce ==
  filledOrders + rejectedOrders
    + Cardinality({o \in Orders : machine[o] \notin {"Filled", "Rejected", NoOrder}})
  <= totalOrders

\* Still to end: in the market by its machine, or cancelled there by a request
\* whose confirmation has not come.
AwaitsEnd(o) == InMarket(machine[o]) \/ (machine[o] = "Cancelled" /\ InMarket(book[o]))

\* active_orders never claims more orders than are in the market according to
\* the machine or to the book, and it falls short of the orders still to end by
\* no more than the cancels counted: each of those takes one off although the
\* order may not have been submitted or was counted as cancelled before, and
\* saturating_sub hides nothing else.
ActiveCountBounded ==
  /\ activeCount <= Cardinality({o \in Orders : InMarket(machine[o]) \/ InMarket(book[o])})
  /\ Cardinality({o \in Orders : AwaitsEnd(o)}) <= activeCount + cancelledOrders

-----------------------------------------------------------------------------
(* What the proofs add: BookFollowsMachine, FillsMatchExecuted and           *)
(* LiveOrderReachable are inductive together with these.                   *)

\* Only a generated id has a machine, an entry, a place in the queue or a caller;
\* an id without an entry has executed nothing.
RecordsBelong ==
  \A o \in Orders :
    /\ o \notin Generated =>
         machine[o] = NoOrder /\ book[o] = NoOrder /\ o \notin handed /\ ~Queued(queue, o)
    /\ book[o] = NoOrder => executed[o] = 0
    /\ machine[o] = "Created" => o \notin handed /\ ~Queued(queue, o)

OrderInv ==
  /\ TypeOK
  /\ BookFollowsMachine
  /\ FillsMatchExecuted
  /\ LiveOrderReachable
  /\ RecordsBelong

-----------------------------------------------------------------------------
(* The order manager implements the order lifecycle.                       *)

PhaseOf(o) ==
  IF o \notin Generated THEN "None"
  ELSE IF machine[o] \in {"Created", "Validated", "Submitting"} THEN "Pending"
  ELSE IF InMarket(machine[o]) THEN "Market" ELSE "Done"

Lifecycle == INSTANCE OrderLifecycle WITH
  phase  <- [o \in Orders |-> PhaseOf(o)],
  size   <- [o \in Orders |-> IF signalOf[o] = NoSignal THEN 0 ELSE Size(o)],
  booked <- executed,
  kept   <- InBook

\* Every step of the order manager is a step of the lifecycle of an order (or
\* leaves it unchanged): no fill is booked on an order that is done, no order
\* comes back, and no record of an order that may still trade is dropped.
ImplementsLifecycle == Lifecycle!Spec

-----------------------------------------------------------------------------
(* Against the comments of the code                                        *)

\* The submitting side keeps asking for orders and submitting what it is given.
FairSpec ==
  /\ Spec
  /\ WF_vars(GetNextPendingOrder)
  /\ \A o \in Orders : WF_vars(MarkSubmitting(o))

\* "Re-add to the queue ... will retry" (order_manager.rs:231-233): an order
\* that is queued for a retry is submitted again.
RetryIsSubmitted ==
  \A o \in Orders : (retryCount[o] > 0) ~> (machine[o] = "Submitting")

\* "exchange_id -> client_id" (order.rs:237-238): an order that has an exchange
\* id can be found by it.
ExchangeIdIsIndexed == exchangeId \subseteq exchangeIndex
=============================================================================
