------------------------- MODULE OrderManagerProofs -------------------------
(***************************************************************************)
(* The order manager for any finite set of orders, any signals, any        *)
(* quantities and any bounds: its own invariants, then, from OrderInv,     *)
(* what the counters of the statistics say of the states of the orders,    *)
(* where a validated order waits, and that the manager implements          *)
(* OrderLifecycle.                                                         *)
(***************************************************************************)
EXTENDS OrderManager, FiniteSetTheorems, SequenceTheorems, TLAPS

-----------------------------------------------------------------------------
(* The transition table, event by event                                    *)

LEMMA TransitMoves ==
  ASSUME NEW o \in Orders, NEW e, Transit(o, e)
  PROVE  /\ e = "Validate" => machine[o] = "Created"
                           /\ machine' = [machine EXCEPT ![o] = "Validated"]
         /\ e = "Submit" => machine[o] = "Validated"
                         /\ machine' = [machine EXCEPT ![o] = "Submitting"]
         /\ e = "SubmitSuccess" => machine[o] = "Submitting"
                                /\ machine' = [machine EXCEPT ![o] = "Submitted"]
         /\ e = "SubmitFailed" => machine[o] = "Submitting"
                               /\ machine' = [machine EXCEPT ![o] = "Failed"]
         /\ e = "Acknowledge" => machine[o] = "Submitted"
                              /\ machine' = [machine EXCEPT ![o] = "Acknowledged"]
         /\ e = "Reject" => machine[o] = "Submitted"
                         /\ machine' = [machine EXCEPT ![o] = "Rejected"]
         /\ e = "PartialFill" => machine[o] \in {"Acknowledged", "PartiallyFilled"}
                              /\ machine' = [machine EXCEPT ![o] = "PartiallyFilled"]
         /\ e = "Fill" => machine[o] \in {"Acknowledged", "PartiallyFilled"}
                       /\ machine' = [machine EXCEPT ![o] = "Filled"]
         /\ e = "Cancel" => CanCancel(machine[o])
                         /\ machine' = [machine EXCEPT ![o] = "Cancelled"]
         /\ e = "CancelConfirmed" => machine[o] = "Cancelled"
                                  /\ machine' = [machine EXCEPT ![o] = "Cancelled"]
  BY DEF Transit, Transition, SubmitTransition, FillTransition, EndTransition

-----------------------------------------------------------------------------
(* The submission queue                                                    *)

QueueType == [Priorities -> Seq(Orders)]

LEMMA RestFacts ==
  ASSUME NEW s \in Seq(Orders), NEW i \in 1..Len(s)
  PROVE  /\ SubSeq(s, i + 1, Len(s)) \in Seq(Orders)
         /\ Len(SubSeq(s, i + 1, Len(s))) = Len(s) - i
         /\ \A j \in 1..(Len(s) - i) : SubSeq(s, i + 1, Len(s))[j] = s[i + j]
  OBVIOUS

LEMMA PushFacts ==
  ASSUME NEW q \in QueueType, NEW x \in Orders
  PROVE  /\ Push(q, x, DefaultPriority) \in QueueType
         /\ \A k \in Priorities \ {5} : Push(q, x, DefaultPriority)[k] = q[k]
         /\ Len(q[5]) \in Nat
         /\ Len(Push(q, x, DefaultPriority)[5]) = Len(q[5]) + 1
         /\ \A j \in 1..Len(q[5]) : Push(q, x, DefaultPriority)[5][j] = q[5][j]
         /\ Push(q, x, DefaultPriority)[5][Len(q[5]) + 1] = x
<1>1. 5 \in Priorities /\ q[5] \in Seq(Orders)
  BY DEF Priorities, QueueType
<1>2. Push(q, x, DefaultPriority) = [q EXCEPT ![5] = Append(q[5], x)]
  BY <1>1 DEF Push, DefaultPriority
<1>3. /\ Append(q[5], x) \in Seq(Orders)
      /\ Len(Append(q[5], x)) = Len(q[5]) + 1 /\ Len(q[5]) \in Nat
      /\ \A j \in 1..Len(q[5]) : Append(q[5], x)[j] = q[5][j]
      /\ Append(q[5], x)[Len(q[5]) + 1] = x
  BY <1>1, AppendProperties
<1>4. [q EXCEPT ![5] = Append(q[5], x)] \in QueueType
  BY <1>1, <1>3 DEF QueueType
<1>5. QED
  BY <1>1, <1>2, <1>3, <1>4 DEF QueueType

LEMMA PushQueued ==
  ASSUME NEW q \in QueueType, NEW x \in Orders, NEW y \in Orders,
         Queued(Push(q, x, DefaultPriority), y), y # x
  PROVE  Queued(q, y)
<1> DEFINE r == Push(q, x, DefaultPriority)
<1>1. PICK k \in Priorities : \E j \in 1..Len(r[k]) : r[k][j] = y
  BY DEF Queued
<1>2. PICK j \in 1..Len(r[k]) : r[k][j] = y
  BY <1>1
<1>5. /\ \A m \in Priorities \ {5} : r[m] = q[m]
      /\ Len(q[5]) \in Nat /\ Len(r[5]) = Len(q[5]) + 1
      /\ \A m \in 1..Len(q[5]) : r[5][m] = q[5][m]
      /\ r[5][Len(q[5]) + 1] = x
  BY PushFacts
<1> HIDE DEF r
<1>3. CASE k = 5
  <2>1. j \in 1..(Len(q[5]) + 1) /\ r[5][j] = y
    BY <1>2, <1>3, <1>5
  <2>2. j # Len(q[5]) + 1
    BY <2>1, <1>5
  <2>3. j \in 1..Len(q[5])
    BY <2>1, <2>2, <1>5
  <2>4. q[5][j] = y
    BY <2>1, <2>3, <1>5
  <2>5. QED
    BY <2>3, <2>4 DEF Queued, Priorities
<1>4. CASE k # 5
  <2>1. j \in 1..Len(q[k]) /\ q[k][j] = y
    BY <1>2, <1>4, <1>5
  <2>2. QED
    BY <2>1 DEF Queued
<1>6. QED
  BY <1>3, <1>4

\* Every entry left by a pop was there before, at the same place of a lower
\* level or i places further back in level p.
LEMMA PoppedFacts ==
  ASSUME NEW q \in QueueType, NEW p \in Priorities, NEW i \in 1..Len(q[p])
  PROVE  /\ Popped(q, p, i) \in QueueType
         /\ \A k \in Priorities : \A j \in 1..Len(Popped(q, p, i)[k]) :
              /\ k <= p
              /\ k < p => j \in 1..Len(q[k]) /\ Popped(q, p, i)[k][j] = q[k][j]
              /\ k = p => i + j \in 1..Len(q[p]) /\ Popped(q, p, i)[k][j] = q[p][i + j]
<1> DEFINE rest == SubSeq(q[p], i + 1, Len(q[p]))
<1>1. q[p] \in Seq(Orders) /\ Len(q[p]) \in Nat
  BY LenProperties DEF QueueType
<1>2. /\ rest \in Seq(Orders)
      /\ Len(rest) = Len(q[p]) - i
      /\ \A j \in 1..(Len(q[p]) - i) : rest[j] = q[p][i + j]
  BY <1>1, RestFacts
<1> HIDE DEF rest
<1>3. \A k \in Priorities :
        Popped(q, p, i)[k] = IF k > p THEN <<>> ELSE IF k = p THEN rest ELSE q[k]
  BY DEF Popped, rest
<1>4. Popped(q, p, i) \in QueueType
  <2>1. \A k \in Priorities : Popped(q, p, i)[k] \in Seq(Orders)
    BY <1>2, <1>3, EmptySeq DEF QueueType
  <2>2. QED
    BY <2>1 DEF QueueType, Popped
<1>5. ASSUME NEW k \in Priorities, NEW j \in 1..Len(Popped(q, p, i)[k])
      PROVE  /\ k <= p
             /\ k < p => j \in 1..Len(q[k]) /\ Popped(q, p, i)[k][j] = q[k][j]
             /\ k = p => i + j \in 1..Len(q[p]) /\ Popped(q, p, i)[k][j] = q[p][i + j]
  <2>1. k \in Int /\ p \in Int
    BY DEF Priorities
  <2>2. CASE k > p
    BY <2>2, <1>3, EmptySeq
  <2>3. CASE k = p
    <3>1. Popped(q, p, i)[k] = rest
      BY <2>1, <2>3, <1>3
    <3>2. j \in 1..(Len(q[p]) - i)
      BY <3>1, <1>2
    <3>3. QED
      BY <3>1, <3>2, <1>1, <1>2, <2>1, <2>3
  <2>4. CASE k < p
    BY <2>1, <2>4, <1>3
  <2>5. QED
    BY <2>1, <2>2, <2>3, <2>4
<1>6. QED
  BY <1>4, <1>5

LEMMA PoppedQueued ==
  ASSUME NEW q \in QueueType, NEW p \in Priorities, NEW i \in 1..Len(q[p]),
         NEW y \in Orders, Queued(Popped(q, p, i), y)
  PROVE  Queued(q, y)
<1>1. PICK k \in Priorities : \E j \in 1..Len(Popped(q, p, i)[k]) : Popped(q, p, i)[k][j] = y
  BY DEF Queued
<1>2. PICK j \in 1..Len(Popped(q, p, i)[k]) : Popped(q, p, i)[k][j] = y
  BY <1>1
<1>3. k \in Int /\ p \in Int
  BY DEF Priorities
<1>4. CASE k < p
  <2>1. j \in 1..Len(q[k]) /\ q[k][j] = y
    BY <1>2, <1>4, PoppedFacts
  <2>2. QED
    BY <2>1 DEF Queued
<1>5. CASE k = p
  <2>1. i + j \in 1..Len(q[p]) /\ q[p][i + j] = y
    BY <1>2, <1>5, PoppedFacts
  <2>2. QED
    BY <2>1 DEF Queued
<1>6. QED
  BY <1>2, <1>3, <1>4, <1>5, PoppedFacts

LEMMA EmptyQueueFacts ==
  EmptyQueue \in QueueType /\ \A y \in Orders : ~Queued(EmptyQueue, y)
  BY EmptySeq DEF EmptyQueue, QueueType, Queued, Priorities

-----------------------------------------------------------------------------
(* The inductive invariant                                                 *)

LEMMA OrderInvInit == Init => OrderInv
<1> SUFFICES ASSUME Init PROVE OrderInv
  OBVIOUS
<1>1. TypeOK
  BY EmptyQueueFacts DEF Init, TypeOK, QueueType, MaxRetry
<1>2. BookFollowsMachine /\ FillsMatchExecuted /\ LiveOrderReachable
  BY DEF Init, BookFollowsMachine, FillsMatchExecuted, LiveOrderReachable, IsActive,
         IsCompleted, NoOrder
<1>3. RecordsBelong
  BY EmptyQueueFacts DEF Init, RecordsBelong, NoOrder
<1>4. QED
  BY <1>1, <1>2, <1>3 DEF OrderInv

LEMMA CountFacts ==
  ASSUME TypeOK
  PROVE  CountFilled \/ CountCancelled \/ CountRejected \/ UNCHANGED reportStats =>
           /\ activeCount' \in Nat /\ filledOrders' \in Nat
           /\ cancelledOrders' \in Nat /\ rejectedOrders' \in Nat
  BY DEF TypeOK, CountFilled, CountCancelled, CountRejected, Decrement, reportStats

LEMMA CreatePreserves ==
  ASSUME OrderInv, NEW o \in Orders, NEW signal \in Signals, CreateOrderFromSignal(o, signal)
  PROVE  OrderInv'
<1> USE DEF OrderInv, indexVars, bookVars, stats, reportStats, Generated, InBook, NoOrder,
            OrderStates
<1>1. /\ machine[o] = NoOrder /\ book[o] = NoOrder /\ executed[o] = 0
      /\ o \notin handed /\ ~Queued(queue, o)
  BY DEF CreateOrderFromSignal, RecordsBelong
<1>2. TypeOK'
  BY <1>1, QuantityAssumption, SignalsAssumption
     DEF CreateOrderFromSignal, TypeOK, QueueType, RecordsBelong, BookFollowsMachine, Size
<1>3. BookFollowsMachine'
  BY <1>1, SignalsAssumption
     DEF CreateOrderFromSignal, TypeOK, RecordsBelong, BookFollowsMachine, CanCancel
<1>4. FillsMatchExecuted'
  BY <1>1 DEF CreateOrderFromSignal, TypeOK, FillsMatchExecuted
<1>5. LiveOrderReachable'
  BY <1>1, QuantityAssumption, SignalsAssumption
     DEF CreateOrderFromSignal, TypeOK, RecordsBelong, BookFollowsMachine, LiveOrderReachable,
         CanCancel, IsActive, IsCompleted, Size
<1>6. RecordsBelong'
  BY <1>1, SignalsAssumption
     DEF CreateOrderFromSignal, TypeOK, QueueType, RecordsBelong, BookFollowsMachine, CanCancel
<1>7. QED
  BY <1>2, <1>3, <1>4, <1>5, <1>6

LEMMA ValidatePreserves ==
  ASSUME OrderInv, NEW o \in Orders, ValidateOrder(o)
  PROVE  OrderInv'
<1> USE DEF OrderInv, indexVars, bookVars, stats, reportStats, Generated, InBook, NoOrder,
            OrderStates
<1>1. /\ machine[o] = "Created"
      /\ machine' = [machine EXCEPT ![o] = "Validated"]
      /\ o \in InBook
      /\ book' = [book EXCEPT ![o] = "Validated"]
      /\ queue' \in QueueType
      /\ \A y \in Orders : Queued(queue', y) => y = o \/ Queued(queue, y)
  BY TransitMoves, PushFacts, PushQueued DEF ValidateOrder, SetBookState, TypeOK, QueueType
<1>2. TypeOK'
  BY <1>1, QuantityAssumption, SignalsAssumption
     DEF ValidateOrder, TypeOK, QueueType, RecordsBelong, BookFollowsMachine, Size
<1>3. BookFollowsMachine'
  BY <1>1, SignalsAssumption
     DEF ValidateOrder, TypeOK, RecordsBelong, BookFollowsMachine, CanCancel
<1>4. FillsMatchExecuted'
  BY <1>1 DEF ValidateOrder, TypeOK, FillsMatchExecuted
<1>5. LiveOrderReachable'
  BY <1>1, QuantityAssumption, SignalsAssumption
     DEF ValidateOrder, TypeOK, RecordsBelong, BookFollowsMachine, LiveOrderReachable,
         CanCancel, IsActive, IsCompleted, Size
<1>6. RecordsBelong'
  BY <1>1, SignalsAssumption
     DEF ValidateOrder, TypeOK, QueueType, RecordsBelong, BookFollowsMachine, CanCancel
<1>7. QED
  BY <1>2, <1>3, <1>4, <1>5, <1>6

LEMMA MarkSubmittingPreserves ==
  ASSUME OrderInv, NEW o \in Orders, MarkSubmitting(o)
  PROVE  OrderInv'
<1> USE DEF OrderInv, indexVars, bookVars, stats, reportStats, Generated, InBook, NoOrder,
            OrderStates
<1>1. /\ machine[o] = "Validated"
      /\ machine' = [machine EXCEPT ![o] = "Submitting"]
      /\ o \in InBook
      /\ book' = [book EXCEPT ![o] = "Submitting"]
  BY TransitMoves DEF MarkSubmitting, SetBookState
<1>2. TypeOK'
  BY <1>1, QuantityAssumption, SignalsAssumption
     DEF MarkSubmitting, TypeOK, QueueType, RecordsBelong, BookFollowsMachine, Size
<1>3. BookFollowsMachine'
  BY <1>1, SignalsAssumption
     DEF MarkSubmitting, TypeOK, RecordsBelong, BookFollowsMachine, CanCancel
<1>4. FillsMatchExecuted'
  BY <1>1 DEF MarkSubmitting, TypeOK, FillsMatchExecuted
<1>5. LiveOrderReachable'
  BY <1>1, QuantityAssumption, SignalsAssumption
     DEF MarkSubmitting, TypeOK, RecordsBelong, BookFollowsMachine, LiveOrderReachable,
         CanCancel, IsActive, IsCompleted, Size
<1>6. RecordsBelong'
  BY <1>1, SignalsAssumption
     DEF MarkSubmitting, TypeOK, QueueType, RecordsBelong, BookFollowsMachine, CanCancel
<1>7. QED
  BY <1>2, <1>3, <1>4, <1>5, <1>6

LEMMA MarkSubmittedPreserves ==
  ASSUME OrderInv, NEW o \in Orders, MarkSubmitted(o)
  PROVE  OrderInv'
<1> USE DEF OrderInv, indexVars, bookVars, stats, reportStats, Generated, InBook, NoOrder,
            OrderStates
<1>1. /\ machine[o] = "Submitting"
      /\ machine' = [machine EXCEPT ![o] = "Submitted"]
      /\ o \in InBook
      /\ book' = [book EXCEPT ![o] = "Submitted"]
  BY TransitMoves DEF MarkSubmitted, SetBookState
<1>2. TypeOK'
  BY <1>1, QuantityAssumption, SignalsAssumption
     DEF MarkSubmitted, TypeOK, QueueType, RecordsBelong, BookFollowsMachine, Size
<1>3. BookFollowsMachine'
  BY <1>1, SignalsAssumption
     DEF MarkSubmitted, TypeOK, RecordsBelong, BookFollowsMachine, CanCancel
<1>4. FillsMatchExecuted'
  BY <1>1 DEF MarkSubmitted, TypeOK, FillsMatchExecuted
<1>5. LiveOrderReachable'
  BY <1>1, QuantityAssumption, SignalsAssumption
     DEF MarkSubmitted, TypeOK, RecordsBelong, BookFollowsMachine, LiveOrderReachable,
         CanCancel, IsActive, IsCompleted, Size
<1>6. RecordsBelong'
  BY <1>1, SignalsAssumption
     DEF MarkSubmitted, TypeOK, QueueType, RecordsBelong, BookFollowsMachine, CanCancel
<1>7. QED
  BY <1>2, <1>3, <1>4, <1>5, <1>6

LEMMA CancelPreserves ==
  ASSUME OrderInv, NEW o \in Orders, CancelOrder(o)
  PROVE  OrderInv'
<1> USE DEF OrderInv, indexVars, bookVars, stats, reportStats, Generated, InBook, NoOrder,
            OrderStates
<1>1. /\ CanCancel(machine[o])
      /\ machine' = [machine EXCEPT ![o] = "Cancelled"]
  BY TransitMoves DEF CancelOrder
<1>2. TypeOK'
  BY <1>1, QuantityAssumption, SignalsAssumption
     DEF CancelOrder, TypeOK, QueueType, RecordsBelong, BookFollowsMachine, Size
<1>3. BookFollowsMachine'
  BY <1>1, SignalsAssumption
     DEF CancelOrder, TypeOK, RecordsBelong, BookFollowsMachine, CanCancel
<1>4. FillsMatchExecuted'
  BY <1>1 DEF CancelOrder, TypeOK, FillsMatchExecuted
<1>5. LiveOrderReachable'
  BY <1>1, QuantityAssumption, SignalsAssumption
     DEF CancelOrder, TypeOK, RecordsBelong, BookFollowsMachine, LiveOrderReachable,
         CanCancel, IsActive, IsCompleted, Size
<1>6. RecordsBelong'
  BY <1>1, SignalsAssumption
     DEF CancelOrder, TypeOK, QueueType, RecordsBelong, BookFollowsMachine, CanCancel
<1>7. QED
  BY <1>2, <1>3, <1>4, <1>5, <1>6

LEMMA GetNextPreserves ==
  ASSUME OrderInv, GetNextPendingOrder
  PROVE  OrderInv'
<1> USE DEF OrderInv, indexVars, bookVars, stats, reportStats, Generated, InBook, NoOrder,
            OrderStates
<1>1. /\ UNCHANGED <<machine, book, signalOf, executed, retryCount, exchangeId, recorded>>
      /\ UNCHANGED <<indexVars, stats>>
  BY DEF GetNextPendingOrder
<1>2. /\ queue' \in QueueType
      /\ handed' \subseteq Orders
      /\ \A y \in Orders : y \in handed' => y \in handed \/ book[y] = "Validated"
      /\ \A y \in Orders : y \in handed' => y \in handed \/ Queued(queue, y)
      /\ \A y \in Orders : Queued(queue', y) => Queued(queue, y)
  <2>1. CASE /\ queue' = EmptyQueue
             /\ UNCHANGED handed
    BY <2>1, EmptyQueueFacts DEF TypeOK
  <2>2. CASE \E p \in Priorities : \E i \in 1..Len(queue[p]) :
               /\ IsNext(queue, Submittable, p, i)
               /\ queue' = TakeNext(queue, p, i)
               /\ handed' = handed \cup {queue[p][i]}
    <3>1. PICK p \in Priorities : \E i \in 1..Len(queue[p]) :
               /\ IsNext(queue, Submittable, p, i)
               /\ queue' = TakeNext(queue, p, i)
               /\ handed' = handed \cup {queue[p][i]}
      BY <2>2
    <3>2. PICK i \in 1..Len(queue[p]) :
               /\ IsNext(queue, Submittable, p, i)
               /\ queue' = TakeNext(queue, p, i)
               /\ handed' = handed \cup {queue[p][i]}
      BY <3>1
    <3>3. queue \in QueueType
      BY DEF TypeOK, QueueType
    <3>4. queue[p][i] \in Orders /\ book[queue[p][i]] = "Validated"
      BY <3>2 DEF IsNext, Submittable
    <3>5. queue' \in QueueType
      BY <3>2, <3>3, PoppedFacts DEF TakeNext
    <3>6. \A y \in Orders : Queued(queue', y) => Queued(queue, y)
      BY <3>2, <3>3, PoppedQueued DEF TakeNext
    <3>7. Queued(queue, queue[p][i])
      BY DEF Queued
    <3>8. QED
      BY <3>2, <3>4, <3>5, <3>6, <3>7 DEF TypeOK
  <2>3. QED
    BY <2>1, <2>2 DEF GetNextPendingOrder
<1>3. TypeOK'
  BY <1>1, <1>2 DEF TypeOK, QueueType
<1>4. BookFollowsMachine'
  BY <1>1 DEF BookFollowsMachine, CanCancel
<1>5. FillsMatchExecuted'
  BY <1>1 DEF FillsMatchExecuted
<1>6. LiveOrderReachable'
  BY <1>1 DEF LiveOrderReachable, IsActive, IsCompleted, Size
<1>7. RecordsBelong'
  BY <1>1, <1>2 DEF RecordsBelong, BookFollowsMachine
<1>8. QED
  BY <1>3, <1>4, <1>5, <1>6, <1>7

LEMMA MarkSubmitFailedPreserves ==
  ASSUME OrderInv, NEW o \in Orders, MarkSubmitFailed(o)
  PROVE  OrderInv'
<1> USE DEF OrderInv, indexVars, bookVars, stats, reportStats, Generated, InBook, NoOrder,
            OrderStates
<1>1. /\ machine[o] = "Submitting"
      /\ machine' = [machine EXCEPT ![o] = "Failed"]
      /\ o \in InBook
      /\ book' = [book EXCEPT ![o] = "Failed"]
      /\ queue' \in QueueType
      /\ \A y \in Orders : Queued(queue', y) => y = o \/ Queued(queue, y)
      /\ retryCount' \in [Orders -> 0..MaxRetry]
  <2>1. /\ machine[o] = "Submitting"
        /\ machine' = [machine EXCEPT ![o] = "Failed"]
        /\ o \in InBook
        /\ book' = [book EXCEPT ![o] = "Failed"]
    BY TransitMoves DEF MarkSubmitFailed, SetBookState
  <2>2. CASE retryCount[o] < MaxRetry
    <3>1. /\ retryCount' = [retryCount EXCEPT ![o] = @ + 1]
          /\ queue' = Push(queue, o, DefaultPriority)
      BY <2>2 DEF MarkSubmitFailed
    <3>2. retryCount[o] + 1 \in 0..MaxRetry
      <4>1. retryCount[o] \in 0..MaxRetry
        BY DEF TypeOK
      <4>2. QED
        BY <2>2, <4>1 DEF MaxRetry
    <3>3. retryCount' \in [Orders -> 0..MaxRetry]
      BY <3>1, <3>2 DEF TypeOK
    <3>4. QED
      BY <2>1, <3>1, <3>3, PushFacts, PushQueued DEF TypeOK, QueueType
  <2>3. CASE ~(retryCount[o] < MaxRetry)
    <3>1. UNCHANGED <<retryCount, queue>>
      BY <2>3 DEF MarkSubmitFailed
    <3>2. QED
      BY <2>1, <3>1 DEF TypeOK, QueueType
  <2>4. QED
    BY <2>2, <2>3
<1>2. TypeOK'
  BY <1>1, QuantityAssumption, SignalsAssumption
     DEF MarkSubmitFailed, TypeOK, QueueType, RecordsBelong, BookFollowsMachine, Size
<1>3. BookFollowsMachine'
  BY <1>1, SignalsAssumption
     DEF MarkSubmitFailed, TypeOK, RecordsBelong, BookFollowsMachine, CanCancel
<1>4. FillsMatchExecuted'
  BY <1>1 DEF MarkSubmitFailed, TypeOK, FillsMatchExecuted
<1>5. LiveOrderReachable'
  BY <1>1, QuantityAssumption, SignalsAssumption
     DEF MarkSubmitFailed, TypeOK, RecordsBelong, BookFollowsMachine, LiveOrderReachable,
         CanCancel, IsActive, IsCompleted, Size
<1>6. RecordsBelong'
  BY <1>1, SignalsAssumption
     DEF MarkSubmitFailed, TypeOK, QueueType, RecordsBelong, BookFollowsMachine, CanCancel
<1>7. QED
  BY <1>2, <1>3, <1>4, <1>5, <1>6

LEMMA HandleOrderAcknowledgedPreserves ==
  ASSUME OrderInv, NEW o \in Orders, HandleOrderAcknowledged(o),
         UNCHANGED <<queue, handed, indexVars, totalOrders>>
  PROVE  OrderInv'
<1> USE DEF OrderInv, indexVars, bookVars, stats, reportStats, Generated, InBook, NoOrder,
            OrderStates
<1>1. /\ machine[o] = "Submitted"
      /\ machine' = [machine EXCEPT ![o] = "Acknowledged"]
      /\ o \in InBook
      /\ book' = [book EXCEPT ![o] = "Acknowledged"]
  BY TransitMoves DEF HandleOrderAcknowledged, SetBookState
<1>2. TypeOK'
  BY <1>1, QuantityAssumption, SignalsAssumption
     DEF HandleOrderAcknowledged, TypeOK, QueueType, RecordsBelong, BookFollowsMachine, Size
<1>3. BookFollowsMachine'
  BY <1>1, SignalsAssumption
     DEF HandleOrderAcknowledged, TypeOK, RecordsBelong, BookFollowsMachine, CanCancel
<1>4. FillsMatchExecuted'
  BY <1>1 DEF HandleOrderAcknowledged, TypeOK, FillsMatchExecuted
<1>5. LiveOrderReachable'
  BY <1>1, QuantityAssumption, SignalsAssumption
     DEF HandleOrderAcknowledged, TypeOK, RecordsBelong, BookFollowsMachine, LiveOrderReachable,
         CanCancel, IsActive, IsCompleted, Size
<1>6. RecordsBelong'
  BY <1>1, SignalsAssumption
     DEF HandleOrderAcknowledged, TypeOK, QueueType, RecordsBelong, BookFollowsMachine, CanCancel
<1>7. QED
  BY <1>2, <1>3, <1>4, <1>5, <1>6

LEMMA HandleOrderCancelledPreserves ==
  ASSUME OrderInv, NEW o \in Orders, HandleOrderCancelled(o),
         UNCHANGED <<queue, handed, indexVars, totalOrders>>
  PROVE  OrderInv'
<1> USE DEF OrderInv, indexVars, bookVars, stats, reportStats, Generated, InBook, NoOrder,
            OrderStates
<1>1. /\ machine[o] = "Cancelled"
      /\ machine' = [machine EXCEPT ![o] = "Cancelled"]
      /\ o \in InBook
      /\ book' = [book EXCEPT ![o] = "Cancelled"]
  BY TransitMoves DEF HandleOrderCancelled, SetBookState
<1>2. TypeOK'
  BY <1>1, QuantityAssumption, SignalsAssumption, CountFacts
     DEF HandleOrderCancelled, TypeOK, QueueType, RecordsBelong, BookFollowsMachine, Size
<1>3. BookFollowsMachine'
  BY <1>1, SignalsAssumption
     DEF HandleOrderCancelled, TypeOK, RecordsBelong, BookFollowsMachine, CanCancel
<1>4. FillsMatchExecuted'
  BY <1>1 DEF HandleOrderCancelled, TypeOK, FillsMatchExecuted
<1>5. LiveOrderReachable'
  BY <1>1, QuantityAssumption, SignalsAssumption
     DEF HandleOrderCancelled, TypeOK, RecordsBelong, BookFollowsMachine, LiveOrderReachable,
         CanCancel, IsActive, IsCompleted, Size
<1>6. RecordsBelong'
  BY <1>1, SignalsAssumption
     DEF HandleOrderCancelled, TypeOK, QueueType, RecordsBelong, BookFollowsMachine, CanCancel
<1>7. QED
  BY <1>2, <1>3, <1>4, <1>5, <1>6

LEMMA HandleOrderRejectedPreserves ==
  ASSUME OrderInv, NEW o \in Orders, HandleOrderRejected(o),
         UNCHANGED <<queue, handed, indexVars, totalOrders>>
  PROVE  OrderInv'
<1> USE DEF OrderInv, indexVars, bookVars, stats, reportStats, Generated, InBook, NoOrder,
            OrderStates
<1>1. /\ machine[o] = "Submitted"
      /\ machine' = [machine EXCEPT ![o] = "Rejected"]
      /\ o \in InBook
      /\ book' = [book EXCEPT ![o] = "Rejected"]
  BY TransitMoves DEF HandleOrderRejected, SetBookState
<1>2. TypeOK'
  BY <1>1, QuantityAssumption, SignalsAssumption, CountFacts
     DEF HandleOrderRejected, TypeOK, QueueType, RecordsBelong, BookFollowsMachine, Size
<1>3. BookFollowsMachine'
  BY <1>1, SignalsAssumption
     DEF HandleOrderRejected, TypeOK, RecordsBelong, BookFollowsMachine, CanCancel
<1>4. FillsMatchExecuted'
  BY <1>1 DEF HandleOrderRejected, TypeOK, FillsMatchExecuted
<1>5. LiveOrderReachable'
  BY <1>1, QuantityAssumption, SignalsAssumption
     DEF HandleOrderRejected, TypeOK, RecordsBelong, BookFollowsMachine, LiveOrderReachable,
         CanCancel, IsActive, IsCompleted, Size
<1>6. RecordsBelong'
  BY <1>1, SignalsAssumption
     DEF HandleOrderRejected, TypeOK, QueueType, RecordsBelong, BookFollowsMachine, CanCancel
<1>7. QED
  BY <1>2, <1>3, <1>4, <1>5, <1>6

\* What update_execution leaves in the book.
LEMMA UpdateFacts ==
  ASSUME OrderInv, NEW o \in Orders, NEW q \in FillQuantities, UpdateExecution(o, q)
  PROVE  /\ o \in InBook
         /\ executed[o] + q \in Nat
         /\ executed' = [executed EXCEPT ![o] = executed[o] + q]
         /\ \E b \in {book[o], "PartiallyFilled", "Filled"} :
              /\ book' = [book EXCEPT ![o] = b]
              /\ b = "Filled" => (executed[o] + q >= Size(o) \/ (book[o] = "Filled" /\ executed[o] + q = 0))
         /\ UNCHANGED <<retryCount, exchangeId>>
<1> DEFINE total == executed[o] + q
           b == StateAfterExecution(book[o], total, Size(o))
<1>1. /\ o \in InBook /\ executed' = [executed EXCEPT ![o] = total]
      /\ book' = [book EXCEPT ![o] = b]
      /\ UNCHANGED <<retryCount, exchangeId>>
  BY DEF UpdateExecution
<1>2. executed[o] \in Nat /\ q \in Nat /\ total \in Nat
  BY QuantityAssumption DEF OrderInv, TypeOK
<1>3. b \in {book[o], "PartiallyFilled", "Filled"}
  BY DEF StateAfterExecution
<1>4. b = "Filled" => (total >= Size(o) \/ (book[o] = "Filled" /\ total = 0))
  BY <1>2 DEF StateAfterExecution
<1>5. QED
  BY <1>1, <1>2, <1>3, <1>4

LEMMA FillPreserves ==
  ASSUME OrderInv, NEW o \in Orders, NEW q \in FillQuantities,
         NEW t \in {"PartiallyFilled", "Filled"},
         machine[o] \in {"Acknowledged", "PartiallyFilled"},
         machine' = [machine EXCEPT ![o] = t],
         UpdateExecution(o, q), RecordFill(o, q),
         CountFilled \/ UNCHANGED reportStats,
         UNCHANGED <<queue, handed, indexVars, totalOrders>>
  PROVE  OrderInv'
<1> USE DEF OrderInv, indexVars, bookVars, Generated, InBook, NoOrder, OrderStates
<1>1. PICK b \in {book[o], "PartiallyFilled", "Filled"} :
        /\ book' = [book EXCEPT ![o] = b]
        /\ b = "Filled" => (executed[o] + q >= Size(o) \/ (book[o] = "Filled" /\ executed[o] + q = 0))
  BY UpdateFacts
<1>2. /\ o \in InBook /\ book[o] # NoOrder /\ book[o] \in OrderStates
      /\ executed[o] + q \in Nat /\ executed[o] \in Nat /\ q \in Nat
      /\ executed' = [executed EXCEPT ![o] = executed[o] + q]
      /\ recorded' = [recorded EXCEPT ![o] = recorded[o] + q]
      /\ UNCHANGED <<retryCount, exchangeId>>
  BY UpdateFacts, QuantityAssumption DEF RecordFill, TypeOK
<1>3. signalOf[o] \in Signals /\ Size(o) \in Nat
  BY <1>2, QuantityAssumption, SignalsAssumption DEF RecordsBelong, Size, TypeOK
<1>4. \A y \in Orders : Size(y)' = Size(y)
  BY DEF Size
<1>5. book[o] = "Filled" => executed[o] >= Size(o)
  BY DEF LiveOrderReachable, IsActive, IsCompleted, BookFollowsMachine, CanCancel
<1>6. b = "Filled" => executed[o] + q >= Size(o)
  BY <1>1, <1>2, <1>3, <1>5
<1>7. TypeOK'
  <2>1. /\ machine' \in [Orders -> OrderStates \cup {NoOrder}]
        /\ book' \in [Orders -> OrderStates \cup {NoOrder}]
    BY <1>1, <1>2 DEF TypeOK
  <2>2. executed' \in [Orders -> Nat] /\ recorded' \in [Orders -> Nat]
    BY <1>2 DEF TypeOK
  <2>3. QED
    BY <1>2, <2>1, <2>2, CountFacts DEF TypeOK
<1>8. BookFollowsMachine'
  BY <1>1, <1>2 DEF TypeOK, BookFollowsMachine, CanCancel
<1>9. FillsMatchExecuted'
  BY <1>2 DEF TypeOK, FillsMatchExecuted
<1>10. LiveOrderReachable'
  <2>1. ASSUME NEW y \in Orders
        PROVE  /\ machine'[y] \in {"Submitting", "Submitted", "Acknowledged"} => (y \in InBook)'
               /\ (IsActive(machine'[y]) /\ IsCompleted(book'[y])) => executed'[y] >= Size(y)
    <3>1. CASE y = o
      BY <1>1, <1>2, <1>6, <3>1
         DEF TypeOK, IsActive, IsCompleted, BookFollowsMachine, CanCancel
    <3>2. CASE y # o
      BY <1>1, <1>2, <3>2 DEF LiveOrderReachable, TypeOK
    <3>3. QED
      BY <3>1, <3>2
  <2>2. QED
    BY <2>1, <1>4 DEF LiveOrderReachable
<1>11. RecordsBelong'
  BY <1>1, <1>2 DEF TypeOK, RecordsBelong
<1>12. QED
  BY <1>7, <1>8, <1>9, <1>10, <1>11

LEMMA ReportPreserves ==
  ASSUME OrderInv, NEW o \in Orders, NEW idKind, ProcessExecutionReport(o, idKind)
  PROVE  OrderInv'
<1>1. UNCHANGED <<queue, handed, indexVars, totalOrders>>
  BY DEF ProcessExecutionReport
<1>2. CASE HandleOrderAcknowledged(o)
  BY <1>1, <1>2, HandleOrderAcknowledgedPreserves
<1>3. CASE HandleOrderCancelled(o)
  BY <1>1, <1>3, HandleOrderCancelledPreserves
<1>4. CASE HandleOrderRejected(o)
  BY <1>1, <1>4, HandleOrderRejectedPreserves
<1>5. ASSUME NEW q \in FillQuantities, HandlePartialFill(o, q)
      PROVE  OrderInv'
  <2>1. /\ machine[o] \in {"Acknowledged", "PartiallyFilled"}
        /\ machine' = [machine EXCEPT ![o] = "PartiallyFilled"]
        /\ UpdateExecution(o, q) /\ RecordFill(o, q) /\ UNCHANGED reportStats
    BY <1>5, TransitMoves DEF HandlePartialFill
  <2>2. QED
    BY <1>1, <2>1, FillPreserves
<1>6. ASSUME NEW q \in FillQuantities, HandleOrderFilled(o, q)
      PROVE  OrderInv'
  <2>1. /\ machine[o] \in {"Acknowledged", "PartiallyFilled"}
        /\ machine' = [machine EXCEPT ![o] = "Filled"]
        /\ UpdateExecution(o, q) /\ RecordFill(o, q) /\ CountFilled
    BY <1>6, TransitMoves DEF HandleOrderFilled
  <2>2. QED
    BY <1>1, <2>1, FillPreserves
<1>7. QED
  BY <1>2, <1>3, <1>4, <1>5, <1>6 DEF ProcessExecutionReport

LEMMA CleanupPreserves ==
  ASSUME OrderInv, NEW old \in SUBSET Completed, CleanupCompletedOrders(old)
  PROVE  OrderInv'
<1> USE DEF OrderInv, indexVars, bookVars, stats, reportStats, Generated, InBook, NoOrder,
            OrderStates
<1>1. TypeOK'
  BY DEF CleanupCompletedOrders, TypeOK, MaxRetry
<1>2. BookFollowsMachine'
  BY DEF CleanupCompletedOrders, BookFollowsMachine, RecordsBelong, TypeOK, Completed,
         IsTerminal, IsCompleted, CanCancel
<1>3. FillsMatchExecuted'
  BY DEF CleanupCompletedOrders, FillsMatchExecuted
<1>4. LiveOrderReachable'
  BY DEF CleanupCompletedOrders, LiveOrderReachable, BookFollowsMachine, Completed,
         IsTerminal, IsCompleted, IsActive, CanCancel, Size, TypeOK
<1>5. RecordsBelong'
  BY DEF CleanupCompletedOrders, RecordsBelong, TypeOK
<1>6. QED
  BY <1>1, <1>2, <1>3, <1>4, <1>5

LEMMA StutterPreserves ==
  ASSUME OrderInv, UNCHANGED vars
  PROVE  OrderInv'
  BY DEF OrderInv, vars, indexVars, bookVars, stats, reportStats, Generated, InBook, TypeOK,
         BookFollowsMachine, FillsMatchExecuted, LiveOrderReachable, RecordsBelong, CanCancel,
         IsActive, IsCompleted, Size

LEMMA OrderInvNext == OrderInv /\ [Next]_vars => OrderInv'
<1> SUFFICES ASSUME OrderInv, [Next]_vars PROVE OrderInv'
  OBVIOUS
<1>1. ASSUME NEW o \in Orders, NEW signal \in Signals, CreateOrderFromSignal(o, signal)
      PROVE  OrderInv'
  BY <1>1, CreatePreserves
<1>2. ASSUME NEW o \in Orders, ValidateOrder(o) PROVE OrderInv'
  BY <1>2, ValidatePreserves
<1>3. CASE GetNextPendingOrder
  BY <1>3, GetNextPreserves
<1>4. ASSUME NEW o \in Orders, MarkSubmitting(o) PROVE OrderInv'
  BY <1>4, MarkSubmittingPreserves
<1>5. ASSUME NEW o \in Orders, MarkSubmitted(o) PROVE OrderInv'
  BY <1>5, MarkSubmittedPreserves
<1>6. ASSUME NEW o \in Orders, MarkSubmitFailed(o) PROVE OrderInv'
  BY <1>6, MarkSubmitFailedPreserves
<1>7. ASSUME NEW o \in Orders, NEW idKind \in {"client", "exchange"},
             ProcessExecutionReport(o, idKind)
      PROVE  OrderInv'
  BY <1>7, ReportPreserves
<1>8. ASSUME NEW o \in Orders, CancelOrder(o) PROVE OrderInv'
  BY <1>8, CancelPreserves
<1>9. ASSUME NEW old \in SUBSET Completed, CleanupCompletedOrders(old) PROVE OrderInv'
  BY <1>9, CleanupPreserves
<1>10. CASE UNCHANGED vars
  BY <1>10, StutterPreserves
<1>11. QED
  BY <1>1, <1>2, <1>3, <1>4, <1>5, <1>6, <1>7, <1>8, <1>9, <1>10 DEF Next

\* The strengthened invariant holds of every reachable state of the order
\* manager: each method, report and cleanup preserves it.
THEOREM OrderInvAlways == Spec => []OrderInv
  BY OrderInvInit, OrderInvNext, PTL DEF Spec

\* Every variable keeps its type: the saturating counters of OrderStats never
\* leave the naturals and no order is retried more than max_retry times.
THEOREM TypeOKAlways == Spec => []TypeOK
<1>1. OrderInv => TypeOK
  BY DEF OrderInv
<1>2. QED
  BY <1>1, OrderInvAlways, PTL

\* The state kept by the state manager and the one kept in the order book part
\* only in the ways BookFollowsMachine lists, for any history of calls.
THEOREM BookFollowsMachineAlways == Spec => []BookFollowsMachine
<1>1. OrderInv => BookFollowsMachine
  BY DEF OrderInv
<1>2. QED
  BY <1>1, OrderInvAlways, PTL

\* The fill records of an order always add up to its executed quantity, however
\* often a report is repeated and whatever the hourly cleanup drops.
THEOREM FillsMatchExecutedAlways == Spec => []FillsMatchExecuted
<1>1. OrderInv => FillsMatchExecuted
  BY DEF OrderInv
<1>2. QED
  BY <1>1, OrderInvAlways, PTL

\* No cleanup makes an order unreachable for its reports while its machine is
\* live and quantity is left to execute.
THEOREM LiveOrderReachableAlways == Spec => []LiveOrderReachable
<1>1. OrderInv => LiveOrderReachable
  BY DEF OrderInv
<1>2. QED
  BY <1>1, OrderInvAlways, PTL

-----------------------------------------------------------------------------
(* The counters of the statistics                                          *)

\* The orders that are neither counted as filled nor as rejected.
Unended == {o \in Orders : machine[o] \notin {"Filled", "Rejected", NoOrder}}

Marketed == {o \in Orders : InMarket(machine[o]) \/ InMarket(book[o])}

\* The orders still to end.
Awaited == {o \in Orders : AwaitsEnd(o)}

\* The two halves of ActiveCountBounded.
ActiveAtMost == activeCount <= Cardinality(Marketed)

ActiveAtLeast == Cardinality(Awaited) <= activeCount + cancelledOrders

LEMMA OrderSets ==
  ASSUME NEW S \in SUBSET Orders
  PROVE  IsFiniteSet(S) /\ Cardinality(S) \in Nat
  BY OrdersAssumption, FS_Subset, FS_CardinalityType

-----------------------------------------------------------------------------
(* filled_orders and rejected_orders                                       *)

\* No count and no new order.
LEMMA EndsKept ==
  ASSUME OrderInv, EndsCountedOnce, Unended' \subseteq Unended,
         UNCHANGED <<totalOrders, filledOrders, rejectedOrders>>
  PROVE  EndsCountedOnce'
<1>1. /\ Cardinality(Unended) \in Nat /\ Cardinality(Unended') \in Nat
      /\ Cardinality(Unended') <= Cardinality(Unended)
  <2>1. Unended \subseteq Orders /\ Unended' \subseteq Orders
    BY DEF Unended
  <2>2. QED
    BY <2>1, OrderSets, FS_Subset
<1>2. QED
  BY <1>1 DEF EndsCountedOnce, Unended, OrderInv, TypeOK

\* An order ends and is counted.
LEMMA EndsCounted ==
  ASSUME OrderInv, EndsCountedOnce, NEW o \in Unended, Unended' \subseteq Unended \ {o},
         UNCHANGED totalOrders, CountFilled \/ CountRejected
  PROVE  EndsCountedOnce'
<1>1. \/ filledOrders' = filledOrders + 1 /\ rejectedOrders' = rejectedOrders
      \/ filledOrders' = filledOrders /\ rejectedOrders' = rejectedOrders + 1
  BY DEF CountFilled, CountRejected
<1>2. /\ Cardinality(Unended) \in Nat /\ Cardinality(Unended') \in Nat
      /\ Cardinality(Unended') <= Cardinality(Unended) - 1
  <2>1. Unended \subseteq Orders /\ Unended' \subseteq Orders /\ Unended \ {o} \subseteq Orders
    BY DEF Unended
  <2>2. Cardinality(Unended \ {o}) = Cardinality(Unended) - 1
    BY <2>1, OrderSets, FS_RemoveElement
  <2>3. Cardinality(Unended') <= Cardinality(Unended \ {o})
    BY <2>1, OrderSets, FS_Subset
  <2>4. QED
    BY <2>1, <2>2, <2>3, OrderSets
<1>3. filledOrders' \in Nat /\ rejectedOrders' \in Nat
  BY CountFacts DEF OrderInv
<1>4. filledOrders + rejectedOrders + Cardinality(Unended) <= totalOrders
  BY DEF EndsCountedOnce, Unended
<1>5. filledOrders' + rejectedOrders' + Cardinality(Unended') <= totalOrders'
  <2>1. filledOrders \in Nat /\ rejectedOrders \in Nat /\ totalOrders \in Nat
    BY DEF OrderInv, TypeOK
  <2>2. PICK open \in Nat : open = Cardinality(Unended)
    BY <1>2
  <2>3. PICK openNext \in Nat : openNext = Cardinality(Unended')
    BY <1>2
  <2>4. openNext <= open - 1 /\ filledOrders + rejectedOrders + open <= totalOrders
    BY <1>2, <1>4, <2>2, <2>3
  <2>5. PICK filled \in Nat, rejected \in Nat :
          filled = filledOrders' /\ rejected = rejectedOrders'
    BY <1>3
  <2>6. \/ filled = filledOrders + 1 /\ rejected = rejectedOrders
        \/ filled = filledOrders /\ rejected = rejectedOrders + 1
    BY <1>1, <2>5
  <2>7. filled + rejected = filledOrders + rejectedOrders + 1
    BY <2>1, <2>6
  <2>8. filled + rejected + openNext <= totalOrders
    BY <2>1, <2>4, <2>7
  <2>9. QED
    BY <2>3, <2>5, <2>8
<1>6. QED
  BY <1>5 DEF EndsCountedOnce, Unended

LEMMA EndsOfNext ==
  ASSUME OrderInv, EndsCountedOnce, [Next]_vars
  PROVE  EndsCountedOnce'
<1>1. ASSUME NEW o \in Orders, NEW signal \in Signals, CreateOrderFromSignal(o, signal)
      PROVE  EndsCountedOnce'
  <2>1. Unended' = Unended \cup {o} /\ o \notin Unended
    BY <1>1 DEF CreateOrderFromSignal, Unended, NoOrder, OrderInv, TypeOK, RecordsBelong
  <2>2. Unended \subseteq Orders
    BY DEF Unended
  <2>3. Cardinality(Unended') = Cardinality(Unended) + 1 /\ Cardinality(Unended) \in Nat
    BY <2>1, <2>2, OrderSets, FS_AddElement
  <2>4. totalOrders' = totalOrders + 1 /\ UNCHANGED <<filledOrders, rejectedOrders>>
    BY <1>1 DEF CreateOrderFromSignal, reportStats
  <2>5. QED
    BY <2>3, <2>4 DEF EndsCountedOnce, Unended, OrderInv, TypeOK
<1>2. ASSUME NEW o \in Orders, ValidateOrder(o) \/ MarkSubmitting(o) \/ MarkSubmitted(o)
                                 \/ MarkSubmitFailed(o) \/ CancelOrder(o)
      PROVE  EndsCountedOnce'
  <2>1. /\ o \in Unended
        /\ \E t \in OrderStates : machine' = [machine EXCEPT ![o] = t]
        /\ UNCHANGED <<totalOrders, filledOrders, rejectedOrders>>
    BY <1>2, TransitMoves DEF ValidateOrder, MarkSubmitting, MarkSubmitted, MarkSubmitFailed,
       CancelOrder, CanCancel, OrderStates, stats, reportStats, Unended, NoOrder
  <2>2. Unended' \subseteq Unended
    BY <2>1 DEF Unended, OrderInv, TypeOK
  <2>3. QED
    BY <2>1, <2>2, EndsKept
<1>3. ASSUME NEW o \in Orders, NEW idKind, ProcessExecutionReport(o, idKind)
      PROVE  EndsCountedOnce'
  <2>1. UNCHANGED totalOrders
    BY <1>3 DEF ProcessExecutionReport
  <2>2. CASE HandleOrderRejected(o) \/ \E q \in FillQuantities : HandleOrderFilled(o, q)
    <3>1. /\ o \in Unended
          /\ \E t \in {"Filled", "Rejected"} : machine' = [machine EXCEPT ![o] = t]
          /\ CountFilled \/ CountRejected
      BY <2>2, TransitMoves DEF HandleOrderFilled, HandleOrderRejected, Unended, NoOrder
    <3>2. Unended' \subseteq Unended \ {o}
      BY <3>1 DEF Unended, OrderInv, TypeOK
    <3>3. QED
      BY <2>1, <3>1, <3>2, EndsCounted
  <2>3. CASE \/ HandleOrderAcknowledged(o) \/ HandleOrderCancelled(o)
             \/ \E q \in FillQuantities : HandlePartialFill(o, q)
    <3>1. /\ o \in Unended
          /\ \E t \in OrderStates : machine' = [machine EXCEPT ![o] = t]
          /\ UNCHANGED <<filledOrders, rejectedOrders>>
      BY <2>3, TransitMoves DEF HandleOrderAcknowledged, HandleOrderCancelled, HandlePartialFill,
         CountCancelled, reportStats, OrderStates, Unended, NoOrder
    <3>2. Unended' \subseteq Unended
      BY <3>1 DEF Unended, OrderInv, TypeOK
    <3>3. QED
      BY <2>1, <3>1, <3>2, EndsKept
  <2>4. QED
    BY <1>3, <2>2, <2>3 DEF ProcessExecutionReport
<1>4. ASSUME NEW old, CleanupCompletedOrders(old) PROVE EndsCountedOnce'
  <2>1. Unended' \subseteq Unended /\ UNCHANGED <<totalOrders, filledOrders, rejectedOrders>>
    BY <1>4 DEF CleanupCompletedOrders, Unended, IsTerminal, NoOrder, stats, reportStats
  <2>2. QED
    BY <2>1, EndsKept
<1>5. CASE GetNextPendingOrder \/ UNCHANGED vars
  <2>1. Unended' = Unended /\ UNCHANGED <<totalOrders, filledOrders, rejectedOrders>>
    BY <1>5 DEF GetNextPendingOrder, vars, Unended, stats, reportStats
  <2>2. QED
    BY <2>1, EndsKept
<1>6. QED
  BY <1>1, <1>2, <1>3, <1>4, <1>5 DEF Next

-----------------------------------------------------------------------------
(* active_orders                                                           *)

\* The count stays, or goes down by one as at most one order leaves the market.
LEMMA ActiveKept ==
  ASSUME OrderInv, ActiveAtMost,
         \/ Marketed \subseteq Marketed' /\ UNCHANGED activeCount
         \/ /\ \E o \in Orders : Marketed \ {o} \subseteq Marketed'
            /\ activeCount' = Decrement(activeCount)
  PROVE  ActiveAtMost'
<1>1. /\ Marketed \subseteq Orders /\ Marketed' \subseteq Orders
      /\ activeCount \in Nat /\ activeCount <= Cardinality(Marketed)
  BY DEF Marketed, ActiveAtMost, OrderInv, TypeOK
<1>2. Cardinality(Marketed) \in Nat /\ Cardinality(Marketed') \in Nat
  BY <1>1, OrderSets
<1>3. activeCount' <= Cardinality(Marketed')
  <2>1. CASE Marketed \subseteq Marketed' /\ UNCHANGED activeCount
    <3>1. Cardinality(Marketed) <= Cardinality(Marketed')
      BY <1>1, <2>1, OrderSets, FS_Subset
    <3>2. QED
      BY <1>1, <1>2, <2>1, <3>1
  <2>2. ASSUME NEW o \in Orders, Marketed \ {o} \subseteq Marketed',
               activeCount' = Decrement(activeCount)
        PROVE  activeCount' <= Cardinality(Marketed')
    <3>1. Cardinality(Marketed \ {o}) <= Cardinality(Marketed')
      BY <1>1, <2>2, OrderSets, FS_Subset
    <3>2. Cardinality(Marketed \ {o}) >= Cardinality(Marketed) - 1
      BY <1>1, <1>2, OrderSets, FS_RemoveElement
    <3>3. Cardinality(Marketed \ {o}) \in Nat
      BY <1>1, OrderSets
    <3>4. QED
      BY <1>1, <1>2, <2>2, <3>1, <3>2, <3>3 DEF Decrement
  <2>3. QED
    BY <2>1, <2>2
<1>4. QED
  BY <1>3 DEF ActiveAtMost

\* Before its submission an order is in the market for neither copy.
LEMMA NotYetInMarket ==
  ASSUME OrderInv, NEW o \in Orders, machine[o] \in {"Created", "Validated", "Submitting"}
  PROVE  book[o] = machine[o] /\ o \notin Marketed
<1>1. book[o] = machine[o]
  BY DEF OrderInv, BookFollowsMachine, NoOrder
<1>2. QED
  BY <1>1 DEF Marketed, InMarket

LEMMA ActiveOfReport ==
  ASSUME OrderInv, ActiveAtMost, NEW o \in Orders, NEW idKind,
         ProcessExecutionReport(o, idKind)
  PROVE  ActiveAtMost'
<1>1. ASSUME NEW q \in FillQuantities, UpdateExecution(o, q)
      PROVE  \E b : book' = [book EXCEPT ![o] = b]
  BY <1>1 DEF UpdateExecution
<1>2. CASE \/ HandleOrderCancelled(o) \/ HandleOrderRejected(o)
           \/ \E q \in FillQuantities : HandleOrderFilled(o, q)
  <2>1. /\ \E t : machine' = [machine EXCEPT ![o] = t]
        /\ \E b : book' = [book EXCEPT ![o] = b]
        /\ activeCount' = Decrement(activeCount)
    BY <1>1, <1>2 DEF HandleOrderCancelled, HandleOrderRejected, HandleOrderFilled, Transit,
       SetBookState, CountFilled, CountCancelled, CountRejected
  <2>2. Marketed \ {o} \subseteq Marketed'
    BY <2>1 DEF Marketed, InMarket, OrderInv, TypeOK
  <2>3. QED
    BY <2>1, <2>2, ActiveKept
<1>3. CASE HandleOrderAcknowledged(o) \/ \E q \in FillQuantities : HandlePartialFill(o, q)
  <2>1. /\ \E t : machine' = [machine EXCEPT ![o] = t] /\ InMarket(t)
        /\ \E b : book' = [book EXCEPT ![o] = b]
        /\ UNCHANGED activeCount
    BY <1>1, <1>3, TransitMoves DEF HandleOrderAcknowledged, HandlePartialFill, SetBookState,
       reportStats, InMarket
  <2>2. Marketed \subseteq Marketed'
    BY <2>1 DEF Marketed, InMarket, OrderInv, TypeOK
  <2>3. QED
    BY <2>1, <2>2, ActiveKept
<1>4. QED
  BY <1>2, <1>3 DEF ProcessExecutionReport

LEMMA ActiveOfNext ==
  ASSUME OrderInv, ActiveAtMost, [Next]_vars
  PROVE  ActiveAtMost'
<1>1. ASSUME NEW o \in Orders, NEW signal \in Signals, CreateOrderFromSignal(o, signal)
      PROVE  ActiveAtMost'
  <2>1. Marketed \subseteq Marketed' /\ UNCHANGED activeCount
    BY <1>1 DEF CreateOrderFromSignal, Marketed, InMarket, NoOrder, OrderInv, TypeOK, RecordsBelong,
       reportStats
  <2>2. QED
    BY <2>1, ActiveKept
<1>2. ASSUME NEW o \in Orders, ValidateOrder(o) \/ MarkSubmitting(o) \/ MarkSubmitFailed(o)
      PROVE  ActiveAtMost'
  <2>1. /\ machine[o] \in {"Created", "Validated", "Submitting"} /\ UNCHANGED activeCount
        /\ \E t : machine' = [machine EXCEPT ![o] = t]
        /\ \E b : book' = [book EXCEPT ![o] = b]
    BY <1>2, TransitMoves DEF ValidateOrder, MarkSubmitting, MarkSubmitFailed, SetBookState, stats,
       reportStats
  <2>2. Marketed \subseteq Marketed'
    BY <2>1, NotYetInMarket DEF Marketed, OrderInv, TypeOK
  <2>3. QED
    BY <2>1, <2>2, ActiveKept
<1>3. ASSUME NEW o \in Orders, MarkSubmitted(o) PROVE ActiveAtMost'
  <2>1. /\ machine[o] = "Submitting" /\ machine' = [machine EXCEPT ![o] = "Submitted"]
        /\ book' = [book EXCEPT ![o] = "Submitted"] /\ activeCount' = activeCount + 1
    BY <1>3, TransitMoves DEF MarkSubmitted, SetBookState
  <2>2. o \notin Marketed
    BY <2>1, NotYetInMarket
  <2>3. Marketed' = Marketed \cup {o} /\ Marketed \subseteq Orders
    BY <2>1 DEF Marketed, InMarket, OrderInv, TypeOK
  <2>4. Cardinality(Marketed') = Cardinality(Marketed) + 1 /\ Cardinality(Marketed) \in Nat
    BY <2>2, <2>3, OrderSets, FS_AddElement
  <2>5. QED
    BY <2>1, <2>4 DEF ActiveAtMost, OrderInv, TypeOK
<1>4. ASSUME NEW o \in Orders, NEW idKind, ProcessExecutionReport(o, idKind)
      PROVE  ActiveAtMost'
  BY <1>4, ActiveOfReport
<1>5. ASSUME NEW o \in Orders, CancelOrder(o) PROVE ActiveAtMost'
  <2>1. /\ CanCancel(book[o]) /\ CanCancel(machine[o])
        /\ machine' = [machine EXCEPT ![o] = "Cancelled"]
        /\ UNCHANGED <<book, activeCount>>
    BY <1>5, TransitMoves DEF CancelOrder, bookVars, stats, reportStats
  <2>2. InMarket(machine[o]) => InMarket(book[o])
    BY <2>1 DEF OrderInv, BookFollowsMachine, InMarket, CanCancel, NoOrder
  <2>3. Marketed \subseteq Marketed'
    BY <2>1, <2>2 DEF Marketed, OrderInv, TypeOK
  <2>4. QED
    BY <2>1, <2>3, ActiveKept
<1>6. ASSUME NEW old \in SUBSET Completed, CleanupCompletedOrders(old) PROVE ActiveAtMost'
  <2>1. Marketed \subseteq Marketed' /\ UNCHANGED activeCount
    BY <1>6 DEF CleanupCompletedOrders, Marketed, InMarket, Completed, IsCompleted, IsTerminal,
       stats, reportStats
  <2>2. QED
    BY <2>1, ActiveKept
<1>7. CASE GetNextPendingOrder \/ UNCHANGED vars
  <2>1. Marketed' = Marketed /\ UNCHANGED activeCount
    BY <1>7 DEF GetNextPendingOrder, vars, bookVars, Marketed, stats, reportStats
  <2>2. QED
    BY <2>1, ActiveKept
<1>8. QED
  BY <1>1, <1>2, <1>3, <1>4, <1>5, <1>6, <1>7 DEF Next

-----------------------------------------------------------------------------
(* The orders still to end                                                 *)

\* No order comes to those still to end, and what active_orders loses is an order
\* that has ended or a cancel that is counted.
LEMMA AwaitedKept ==
  ASSUME OrderInv, ActiveAtLeast,
         \/ Awaited' \subseteq Awaited /\ UNCHANGED <<activeCount, cancelledOrders>>
         \/ /\ Awaited' \subseteq Awaited
            /\ activeCount' = Decrement(activeCount) /\ cancelledOrders' = cancelledOrders + 1
         \/ /\ \E o \in Awaited : Awaited' \subseteq Awaited \ {o}
            /\ activeCount' = Decrement(activeCount) /\ UNCHANGED cancelledOrders
  PROVE  ActiveAtLeast'
<1>1. /\ Awaited \subseteq Orders /\ activeCount \in Nat /\ cancelledOrders \in Nat
      /\ Cardinality(Awaited) <= activeCount + cancelledOrders
  BY DEF Awaited, ActiveAtLeast, OrderInv, TypeOK
<1>2. Cardinality(Awaited) \in Nat
  BY <1>1, OrderSets
<1>3. ASSUME Awaited' \subseteq Awaited
      PROVE  Cardinality(Awaited') \in Nat /\ Cardinality(Awaited') <= Cardinality(Awaited)
  BY <1>1, <1>3, OrderSets, FS_Subset
<1>4. CASE Awaited' \subseteq Awaited /\ UNCHANGED <<activeCount, cancelledOrders>>
  <2>1. Cardinality(Awaited') <= activeCount' + cancelledOrders'
    BY <1>1, <1>2, <1>3, <1>4
  <2>2. QED
    BY <2>1 DEF ActiveAtLeast
<1>5. CASE /\ Awaited' \subseteq Awaited
           /\ activeCount' = Decrement(activeCount) /\ cancelledOrders' = cancelledOrders + 1
  <2>1. Cardinality(Awaited') <= activeCount' + cancelledOrders'
    BY <1>1, <1>2, <1>3, <1>5 DEF Decrement
  <2>2. QED
    BY <2>1 DEF ActiveAtLeast
<1>6. ASSUME NEW o \in Awaited, Awaited' \subseteq Awaited \ {o},
             activeCount' = Decrement(activeCount), UNCHANGED cancelledOrders
      PROVE  ActiveAtLeast'
  <2>1. Cardinality(Awaited \ {o}) = Cardinality(Awaited) - 1
    BY <1>1, <1>6, OrderSets, FS_RemoveElement
  <2>2. Awaited \ {o} \subseteq Orders
    BY <1>1
  <2>3. Cardinality(Awaited') <= Cardinality(Awaited) - 1 /\ Cardinality(Awaited') \in Nat
    BY <1>3, <1>6, <2>1, <2>2, OrderSets, FS_Subset
  <2>4. Cardinality(Awaited') <= activeCount' + cancelledOrders'
    BY <1>1, <1>2, <1>6, <2>3 DEF Decrement
  <2>5. QED
    BY <2>4 DEF ActiveAtLeast
<1>7. QED
  BY <1>4, <1>5, <1>6

LEMMA AwaitedOfReport ==
  ASSUME OrderInv, ActiveAtLeast, NEW o \in Orders, NEW idKind,
         ProcessExecutionReport(o, idKind)
  PROVE  ActiveAtLeast'
<1>1. ASSUME NEW q \in FillQuantities, UpdateExecution(o, q)
      PROVE  \E b : book' = [book EXCEPT ![o] = b]
  BY <1>1 DEF UpdateExecution
<1>2. CASE HandleOrderRejected(o) \/ \E q \in FillQuantities : HandleOrderFilled(o, q)
  <2>1. /\ InMarket(machine[o])
        /\ \E t \in {"Filled", "Rejected"} : machine' = [machine EXCEPT ![o] = t]
        /\ \E b : book' = [book EXCEPT ![o] = b]
        /\ activeCount' = Decrement(activeCount) /\ UNCHANGED cancelledOrders
    BY <1>1, <1>2, TransitMoves DEF HandleOrderRejected, HandleOrderFilled, SetBookState,
       CountFilled, CountRejected, InMarket
  <2>2. o \in Awaited /\ Awaited' \subseteq Awaited \ {o}
    BY <2>1 DEF Awaited, AwaitsEnd, InMarket, OrderInv, TypeOK
  <2>3. QED
    BY <2>1, <2>2, AwaitedKept
<1>3. CASE HandleOrderCancelled(o)
  <2>1. /\ machine' = [machine EXCEPT ![o] = "Cancelled"]
        /\ book' = [book EXCEPT ![o] = "Cancelled"]
        /\ activeCount' = Decrement(activeCount) /\ cancelledOrders' = cancelledOrders + 1
    BY <1>3, TransitMoves DEF HandleOrderCancelled, SetBookState, CountCancelled
  <2>2. Awaited' \subseteq Awaited
    BY <2>1 DEF Awaited, AwaitsEnd, InMarket, OrderInv, TypeOK
  <2>3. QED
    BY <2>1, <2>2, AwaitedKept
<1>4. CASE HandleOrderAcknowledged(o) \/ \E q \in FillQuantities : HandlePartialFill(o, q)
  <2>1. /\ InMarket(machine[o])
        /\ \E t : machine' = [machine EXCEPT ![o] = t]
        /\ \E b : book' = [book EXCEPT ![o] = b]
        /\ UNCHANGED <<activeCount, cancelledOrders>>
    BY <1>1, <1>4, TransitMoves DEF HandleOrderAcknowledged, HandlePartialFill, SetBookState,
       reportStats, InMarket
  <2>2. Awaited' \subseteq Awaited
    BY <2>1 DEF Awaited, AwaitsEnd, OrderInv, TypeOK
  <2>3. QED
    BY <2>1, <2>2, AwaitedKept
<1>5. QED
  BY <1>2, <1>3, <1>4 DEF ProcessExecutionReport

LEMMA AwaitedOfNext ==
  ASSUME OrderInv, ActiveAtLeast, [Next]_vars
  PROVE  ActiveAtLeast'
<1>1. ASSUME NEW o \in Orders, NEW signal \in Signals, CreateOrderFromSignal(o, signal)
      PROVE  ActiveAtLeast'
  <2>1. Awaited' \subseteq Awaited /\ UNCHANGED <<activeCount, cancelledOrders>>
    BY <1>1 DEF CreateOrderFromSignal, Awaited, AwaitsEnd, InMarket, OrderInv, TypeOK, reportStats
  <2>2. QED
    BY <2>1, AwaitedKept
<1>2. ASSUME NEW o \in Orders, ValidateOrder(o) \/ MarkSubmitting(o) \/ MarkSubmitFailed(o)
      PROVE  ActiveAtLeast'
  <2>1. /\ \E t \in {"Validated", "Submitting", "Failed"} : machine' = [machine EXCEPT ![o] = t]
        /\ \E b : book' = [book EXCEPT ![o] = b]
        /\ UNCHANGED <<activeCount, cancelledOrders>>
    BY <1>2, TransitMoves DEF ValidateOrder, MarkSubmitting, MarkSubmitFailed, SetBookState, stats,
       reportStats
  <2>2. Awaited' \subseteq Awaited
    BY <2>1 DEF Awaited, AwaitsEnd, InMarket, OrderInv, TypeOK
  <2>3. QED
    BY <2>1, <2>2, AwaitedKept
<1>3. ASSUME NEW o \in Orders, MarkSubmitted(o) PROVE ActiveAtLeast'
  <2>1. /\ machine[o] = "Submitting" /\ machine' = [machine EXCEPT ![o] = "Submitted"]
        /\ book' = [book EXCEPT ![o] = "Submitted"] /\ activeCount' = activeCount + 1
        /\ UNCHANGED cancelledOrders
    BY <1>3, TransitMoves DEF MarkSubmitted, SetBookState
  <2>2. Awaited' = Awaited \cup {o} /\ Awaited \subseteq Orders /\ o \notin Awaited
    BY <2>1 DEF Awaited, AwaitsEnd, InMarket, OrderInv, TypeOK
  <2>3. Cardinality(Awaited') = Cardinality(Awaited) + 1 /\ Cardinality(Awaited) \in Nat
    BY <2>2, OrderSets, FS_AddElement
  <2>4. QED
    BY <2>1, <2>3 DEF ActiveAtLeast, OrderInv, TypeOK
<1>4. ASSUME NEW o \in Orders, NEW idKind, ProcessExecutionReport(o, idKind)
      PROVE  ActiveAtLeast'
  BY <1>4, AwaitedOfReport
<1>5. ASSUME NEW o \in Orders, CancelOrder(o) PROVE ActiveAtLeast'
  <2>1. /\ CanCancel(machine[o]) /\ machine' = [machine EXCEPT ![o] = "Cancelled"]
        /\ UNCHANGED <<book, activeCount, cancelledOrders>>
    BY <1>5, TransitMoves DEF CancelOrder, bookVars, stats, reportStats
  <2>2. InMarket(book[o]) => InMarket(machine[o])
    BY <2>1 DEF OrderInv, BookFollowsMachine, InMarket, CanCancel, NoOrder
  <2>3. Awaited' \subseteq Awaited
    BY <2>1, <2>2 DEF Awaited, AwaitsEnd, InMarket, OrderInv, TypeOK
  <2>4. QED
    BY <2>1, <2>3, AwaitedKept
<1>6. ASSUME NEW old \in SUBSET Completed, CleanupCompletedOrders(old) PROVE ActiveAtLeast'
  <2>1. Awaited' \subseteq Awaited /\ UNCHANGED <<activeCount, cancelledOrders>>
    BY <1>6 DEF CleanupCompletedOrders, Awaited, AwaitsEnd, InMarket, IsTerminal, NoOrder,
       stats, reportStats
  <2>2. QED
    BY <2>1, AwaitedKept
<1>7. CASE GetNextPendingOrder \/ UNCHANGED vars
  <2>1. Awaited' = Awaited /\ UNCHANGED <<activeCount, cancelledOrders>>
    BY <1>7 DEF GetNextPendingOrder, vars, bookVars, Awaited, AwaitsEnd, stats, reportStats
  <2>2. QED
    BY <2>1, AwaitedKept
<1>8. QED
  BY <1>1, <1>2, <1>3, <1>4, <1>5, <1>6, <1>7 DEF Next

-----------------------------------------------------------------------------
(* The places of a validated order                                         *)

\* Entry j of level k of a queue is x's.
EntryOf(q, k, j, x) == j \in 1..Len(q[k]) /\ q[k][j] = x

HasOnePlace(q, h, x) ==
  IF x \in h THEN ~Queued(q, x)
  ELSE \E p \in Priorities : \E i \in 1..Len(q[p]) :
         /\ q[p][i] = x
         /\ \A k \in Priorities : \A j \in 1..Len(q[k]) : q[k][j] = x => k = p /\ j = i

LEMMA PushEntries ==
  ASSUME NEW q \in QueueType, NEW x \in Orders, NEW k \in Priorities, NEW j, NEW y,
         EntryOf(Push(q, x, DefaultPriority), k, j, y)
  PROVE  EntryOf(q, k, j, y) \/ (y = x /\ k = 5 /\ j = Len(q[5]) + 1)
<1> DEFINE r == Push(q, x, DefaultPriority)
<1>1. /\ \A m \in Priorities \ {5} : r[m] = q[m]
      /\ Len(q[5]) \in Nat /\ Len(r[5]) = Len(q[5]) + 1
      /\ \A m \in 1..Len(q[5]) : r[5][m] = q[5][m]
      /\ r[5][Len(q[5]) + 1] = x
  BY PushFacts
<1>2. j \in 1..Len(r[k]) /\ r[k][j] = y
  BY DEF EntryOf
<1> HIDE DEF r
<1>3. CASE k # 5
  BY <1>1, <1>2, <1>3 DEF EntryOf
<1>4. CASE k = 5
  <2>1. j \in 1..Len(q[5]) \/ j = Len(q[5]) + 1
    BY <1>1, <1>2, <1>4
  <2>2. QED
    BY <1>1, <1>2, <1>4, <2>1 DEF EntryOf
<1>5. QED
  BY <1>3, <1>4

LEMMA EntriesStay ==
  ASSUME NEW q \in QueueType, NEW x \in Orders, NEW k \in Priorities, NEW j, NEW y,
         EntryOf(q, k, j, y)
  PROVE  EntryOf(Push(q, x, DefaultPriority), k, j, y)
<1> DEFINE r == Push(q, x, DefaultPriority)
<1>1. /\ \A m \in Priorities \ {5} : r[m] = q[m]
      /\ Len(q[5]) \in Nat /\ Len(r[5]) = Len(q[5]) + 1
      /\ \A m \in 1..Len(q[5]) : r[5][m] = q[5][m]
  BY PushFacts
<1> HIDE DEF r
<1>2. EntryOf(r, k, j, y)
  BY <1>1 DEF EntryOf
<1>3. QED
  BY <1>2 DEF r

LEMMA PushKeepsPlace ==
  ASSUME NEW q \in QueueType, NEW h, NEW x \in Orders, NEW y \in Orders, y # x,
         HasOnePlace(q, h, y)
  PROVE  HasOnePlace(Push(q, x, DefaultPriority), h, y)
<1> DEFINE r == Push(q, x, DefaultPriority)
<1>1. \A k \in Priorities : \A j : EntryOf(r, k, j, y) <=> EntryOf(q, k, j, y)
  BY PushEntries, EntriesStay
<1> HIDE DEF r
<1>2. CASE y \in h
  <2>1. ~Queued(r, y)
    BY <1>1, <1>2 DEF HasOnePlace, EntryOf, Queued
  <2>2. QED
    BY <1>2, <2>1 DEF HasOnePlace, r
<1>3. CASE y \notin h
  <2>1. PICK k \in Priorities : \E j : EntryOf(q, k, j, y) /\
          \A m \in Priorities : \A n : EntryOf(q, m, n, y) => m = k /\ n = j
    BY <1>3 DEF HasOnePlace, EntryOf
  <2>2. PICK j : EntryOf(q, k, j, y) /\
          \A m \in Priorities : \A n : EntryOf(q, m, n, y) => m = k /\ n = j
    BY <2>1
  <2>3. EntryOf(r, k, j, y) /\ \A m \in Priorities : \A n : EntryOf(r, m, n, y) => m = k /\ n = j
    BY <1>1, <2>2
  <2>4. /\ j \in 1..Len(r[k]) /\ r[k][j] = y
        /\ \A m \in Priorities : \A n \in 1..Len(r[m]) : r[m][n] = y => m = k /\ n = j
    BY <2>3 DEF EntryOf
  <2>5. HasOnePlace(r, h, y)
    BY <1>3, <2>4 DEF HasOnePlace
  <2>6. QED
    BY <2>5 DEF r
<1>4. QED
  BY <1>2, <1>3

LEMMA PushGivesPlace ==
  ASSUME NEW q \in QueueType, NEW h, NEW x \in Orders, x \notin h, ~Queued(q, x)
  PROVE  HasOnePlace(Push(q, x, DefaultPriority), h, x)
<1> DEFINE r == Push(q, x, DefaultPriority)
           last == Len(q[5]) + 1
<1>1. last \in 1..Len(r[5]) /\ r[5][last] = x /\ 5 \in Priorities
  BY PushFacts DEF Priorities
<1>2. \A k \in Priorities : \A j : EntryOf(r, k, j, x) => k = 5 /\ j = last
  BY PushEntries DEF EntryOf, Queued
<1> HIDE DEF r, last
<1>3. HasOnePlace(r, h, x)
  BY <1>1, <1>2 DEF HasOnePlace, EntryOf
<1>4. QED
  BY <1>3 DEF r

\* What a pop leaves of the entries of q, and where.
LEMMA PoppedEntries ==
  ASSUME NEW q \in QueueType, NEW p \in Priorities, NEW i \in 1..Len(q[p]),
         NEW k \in Priorities, NEW j \in Nat, NEW y
  PROVE  EntryOf(Popped(q, p, i), k, j, y) <=>
           \/ k < p /\ EntryOf(q, k, j, y)
           \/ k = p /\ j > 0 /\ EntryOf(q, k, i + j, y)
<1> DEFINE rest == SubSeq(q[p], i + 1, Len(q[p]))
<1>1. q[p] \in Seq(Orders) /\ Len(q[p]) \in Nat /\ k \in Int /\ p \in Int
  <2>1. q[p] \in Seq(Orders)
    BY DEF QueueType
  <2>2. k \in Int /\ p \in Int
    BY DEF Priorities
  <2>3. QED
    BY <2>1, <2>2, LenProperties
<1>2. /\ Len(rest) = Len(q[p]) - i
      /\ \A m \in 1..(Len(q[p]) - i) : rest[m] = q[p][i + m]
  BY <1>1, RestFacts
<1>3. Popped(q, p, i)[k] = IF k > p THEN <<>> ELSE IF k = p THEN rest ELSE q[k]
  BY DEF Popped
<1> HIDE DEF rest
<1>4. CASE k > p
  BY <1>1, <1>3, <1>4, EmptySeq DEF EntryOf
<1>5. CASE k < p
  BY <1>1, <1>3, <1>5 DEF EntryOf
<1>6. CASE k = p
  <2>1. Popped(q, p, i)[k] = rest
    BY <1>1, <1>3, <1>6
  <2>2. j \in 1..Len(rest) <=> j > 0 /\ i + j \in 1..Len(q[p])
    BY <1>1, <1>2
  <2>3. j \in 1..Len(rest) => rest[j] = q[p][i + j]
    BY <1>2
  <2>4. QED
    BY <1>1, <1>6, <2>1, <2>2, <2>3 DEF EntryOf
<1>7. QED
  BY <1>1, <1>4, <1>5, <1>6

\* The entry served is gone, and its order is in the hands of the caller.
LEMMA PopHandsOver ==
  ASSUME NEW q \in QueueType, NEW p \in Priorities, NEW i \in 1..Len(q[p]), NEW h,
         HasOnePlace(q, h, q[p][i])
  PROVE  ~Queued(Popped(q, p, i), q[p][i])
<1> DEFINE x == q[p][i]
<1>1. Queued(q, x) /\ EntryOf(q, p, i, x)
  BY DEF Queued, EntryOf
<1>2. \A k \in Priorities : \A j : EntryOf(q, k, j, x) => k = p /\ j = i
  BY <1>1 DEF HasOnePlace, EntryOf
<1>3. ASSUME NEW k \in Priorities, NEW j \in Nat, EntryOf(Popped(q, p, i), k, j, x)
      PROVE  FALSE
  <2>1. \/ k < p /\ EntryOf(q, k, j, x)
        \/ k = p /\ j > 0 /\ EntryOf(q, k, i + j, x)
    BY <1>3, PoppedEntries
  <2>2. k \in Int /\ p \in Int /\ i \in Nat
    BY LenProperties DEF QueueType, Priorities
  <2>3. QED
    BY <1>2, <2>1, <2>2
<1>4. QED
  BY <1>3 DEF Queued, EntryOf

\* An entry that comes after the one served stays the only one of its order.
LEMMA PopKeepsPlace ==
  ASSUME NEW q \in QueueType, NEW p \in Priorities, NEW i \in 1..Len(q[p]), NEW h,
         NEW y \in Orders, y # q[p][i], HasOnePlace(q, h, y),
         \A k \in Priorities : \A j \in 1..Len(q[k]) : PoppedBefore(k, j, p, i) => q[k][j] # y
  PROVE  HasOnePlace(Popped(q, p, i), h \cup {q[p][i]}, y)
<1> DEFINE r == Popped(q, p, i)
<1>1. i \in Nat /\ p \in Int /\ \A k \in Priorities : k \in Int
  BY LenProperties DEF QueueType, Priorities
<1>2. r \in QueueType /\ \A k \in Priorities : Len(r[k]) \in Nat /\ Len(q[k]) \in Nat
  BY PoppedFacts, LenProperties DEF QueueType
<1>3. CASE y \in h
  <2>1. ~Queued(q, y)
    BY <1>3 DEF HasOnePlace
  <2>2. ~Queued(r, y)
    BY <2>1, PoppedQueued
  <2>3. QED
    BY <1>3, <2>2 DEF HasOnePlace
<1>4. CASE y \notin h
  <2>1. PICK k \in Priorities : \E j \in 1..Len(q[k]) :
          /\ q[k][j] = y
          /\ \A m \in Priorities : \A n \in 1..Len(q[m]) : q[m][n] = y => m = k /\ n = j
    BY <1>4 DEF HasOnePlace
  <2>2. PICK j \in 1..Len(q[k]) :
          /\ q[k][j] = y
          /\ \A m \in Priorities : \A n \in 1..Len(q[m]) : q[m][n] = y => m = k /\ n = j
    BY <2>1
  <2>3. EntryOf(q, k, j, y) /\ \A m \in Priorities : \A n : EntryOf(q, m, n, y) => m = k /\ n = j
    BY <2>2 DEF EntryOf
  <2>4. ~PoppedBefore(k, j, p, i) /\ ~(k = p /\ j = i) /\ j \in Nat
    BY <2>2
  <2>5. k < p \/ (k = p /\ j - i \in Nat \ {0})
    BY <1>1, <2>4 DEF PoppedBefore
  <2> DEFINE place == IF k = p THEN j - i ELSE j
  <2>6. place \in Nat /\ EntryOf(r, k, place, y)
    <3>1. CASE k < p
      BY <1>1, <2>3, <2>4, <3>1, PoppedEntries
    <3>2. CASE k = p /\ j - i \in Nat \ {0}
      <4>1. i + (j - i) = j
        BY <1>1, <2>4
      <4>2. QED
        BY <2>3, <3>2, <4>1, PoppedEntries
    <3>3. QED
      BY <2>5, <3>1, <3>2
  <2>7. ASSUME NEW m \in Priorities, NEW n \in Nat, EntryOf(r, m, n, y)
        PROVE  m = k /\ n = place
    <3>1. \/ m < p /\ EntryOf(q, m, n, y)
          \/ m = p /\ n > 0 /\ EntryOf(q, m, i + n, y)
      BY <2>7, PoppedEntries
    <3>2. \/ m < p /\ m = k /\ n = j
          \/ m = p /\ m = k /\ i + n = j
      BY <2>3, <3>1
    <3>3. QED
      BY <1>1, <2>4, <3>2
  <2> HIDE DEF place, r
  <2>8. HasOnePlace(r, h \cup {q[p][i]}, y)
    <3>1. place \in 1..Len(r[k]) /\ r[k][place] = y
      BY <2>6 DEF EntryOf
    <3>2. \A m \in Priorities : \A n \in 1..Len(r[m]) : r[m][n] = y => m = k /\ n = place
      BY <2>7 DEF EntryOf
    <3>3. QED
      BY <1>4, <3>1, <3>2 DEF HasOnePlace
  <2>9. QED
    BY <2>8 DEF r
<1>5. QED
  BY <1>3, <1>4

\* Nothing is queued or handed out, and no other order becomes validated.
LEMMA PlacesKept ==
  ASSUME OrderInv, ValidatedHasOnePlace, UNCHANGED <<queue, handed>>,
         \A y \in Orders : machine'[y] = "Validated" => machine[y] = "Validated"
  PROVE  ValidatedHasOnePlace'
  BY DEF ValidatedHasOnePlace, Queued

\* An order that is not validated joins the queue, or one that becomes validated.
LEMMA PlacesAfterPush ==
  ASSUME OrderInv, ValidatedHasOnePlace, NEW o \in Orders,
         queue' = Push(queue, o, DefaultPriority), UNCHANGED handed,
         \A y \in Orders : y # o => machine'[y] = machine[y],
         machine'[o] = "Validated" => o \notin handed /\ ~Queued(queue, o)
  PROVE  ValidatedHasOnePlace'
<1>1. queue \in QueueType
  BY DEF OrderInv, TypeOK, QueueType
<1>2. ASSUME NEW y \in Orders, machine'[y] = "Validated" PROVE HasOnePlace(queue', handed, y)
  <2>1. CASE y = o
    BY <1>1, <1>2, <2>1, PushGivesPlace
  <2>2. CASE y # o
    <3>1. HasOnePlace(queue, handed, y)
      BY <1>2, <2>2 DEF ValidatedHasOnePlace, HasOnePlace
    <3>2. QED
      BY <1>1, <2>2, <3>1, PushKeepsPlace
  <2>3. QED
    BY <2>1, <2>2
<1>3. QED
  BY <1>2 DEF ValidatedHasOnePlace, HasOnePlace, Queued

LEMMA PlacesAfterPop ==
  ASSUME OrderInv, ValidatedHasOnePlace, GetNextPendingOrder
  PROVE  ValidatedHasOnePlace'
<1>1. queue \in QueueType /\ UNCHANGED machine
  BY DEF OrderInv, TypeOK, QueueType, GetNextPendingOrder
<1>2. ASSUME NEW y \in Orders, machine[y] = "Validated"
      PROVE  y \in Submittable /\ HasOnePlace(queue, handed, y)
  BY <1>2 DEF OrderInv, BookFollowsMachine, NoOrder, Submittable, ValidatedHasOnePlace, HasOnePlace
<1>3. ASSUME NEW p \in Priorities, NEW i \in 1..Len(queue[p]), IsNext(queue, Submittable, p, i),
             queue' = TakeNext(queue, p, i), handed' = handed \cup {queue[p][i]},
             NEW y \in Orders, machine[y] = "Validated"
      PROVE  HasOnePlace(queue', handed', y)
  <2>1. queue' = Popped(queue, p, i)
    BY <1>3 DEF TakeNext
  <2>2. CASE y = queue[p][i]
    <3>1. ~Queued(queue', y)
      BY <1>1, <1>2, <1>3, <2>1, <2>2, PopHandsOver
    <3>2. QED
      BY <1>3, <2>2, <3>1 DEF HasOnePlace
  <2>3. CASE y # queue[p][i]
    <3>1. \A k \in Priorities : \A j \in 1..Len(queue[k]) : PoppedBefore(k, j, p, i) => queue[k][j] # y
      BY <1>2, <1>3 DEF IsNext
    <3>2. QED
      BY <1>1, <1>2, <1>3, <2>1, <2>3, <3>1, PopKeepsPlace
  <2>4. QED
    BY <2>2, <2>3
<1>4. ASSUME queue' = EmptyQueue, UNCHANGED handed, \A x \in Submittable : ~Queued(queue, x),
             NEW y \in Orders, machine[y] = "Validated"
      PROVE  HasOnePlace(queue', handed', y)
  <2>1. y \in handed
    BY <1>2, <1>4 DEF HasOnePlace, Queued
  <2>2. QED
    BY <1>4, <2>1, EmptyQueueFacts DEF HasOnePlace
<1>5. ASSUME NEW y \in Orders, machine[y] = "Validated" PROVE HasOnePlace(queue', handed', y)
  BY <1>3, <1>4, <1>5 DEF GetNextPendingOrder
<1>6. QED
  BY <1>1, <1>5 DEF ValidatedHasOnePlace, HasOnePlace, Queued

LEMMA PlacesOfNext ==
  ASSUME OrderInv, ValidatedHasOnePlace, [Next]_vars
  PROVE  ValidatedHasOnePlace'
<1>1. ASSUME NEW o \in Orders, NEW signal \in Signals, CreateOrderFromSignal(o, signal)
      PROVE  ValidatedHasOnePlace'
  <2>1. UNCHANGED <<queue, handed>> /\ machine' = [machine EXCEPT ![o] = "Created"]
    BY <1>1 DEF CreateOrderFromSignal
  <2>2. QED
    BY <2>1, PlacesKept DEF OrderInv, TypeOK
<1>2. ASSUME NEW o \in Orders, ValidateOrder(o) PROVE ValidatedHasOnePlace'
  <2>1. /\ machine[o] = "Created" /\ machine' = [machine EXCEPT ![o] = "Validated"]
        /\ queue' = Push(queue, o, DefaultPriority) /\ UNCHANGED handed
    BY <1>2, TransitMoves DEF ValidateOrder
  <2>2. o \notin handed /\ ~Queued(queue, o)
    BY <2>1 DEF OrderInv, RecordsBelong
  <2>3. QED
    BY <2>1, <2>2, PlacesAfterPush DEF OrderInv, TypeOK
<1>3. ASSUME NEW o \in Orders, MarkSubmitFailed(o) PROVE ValidatedHasOnePlace'
  <2>1. /\ machine' = [machine EXCEPT ![o] = "Failed"] /\ UNCHANGED handed
        /\ queue' = Push(queue, o, DefaultPriority) \/ UNCHANGED queue
    BY <1>3, TransitMoves DEF MarkSubmitFailed
  <2>2. machine'[o] = "Failed" /\ \A y \in Orders : y # o => machine'[y] = machine[y]
    BY <2>1 DEF OrderInv, TypeOK
  <2>3. QED
    BY <2>1, <2>2, PlacesAfterPush, PlacesKept
<1>4. ASSUME NEW o \in Orders, MarkSubmitting(o) PROVE ValidatedHasOnePlace'
  <2>1. /\ machine' = [machine EXCEPT ![o] = "Submitting"] /\ UNCHANGED queue
        /\ handed' = handed \ {o}
    BY <1>4, TransitMoves DEF MarkSubmitting
  <2>2. QED
    BY <2>1 DEF OrderInv, TypeOK, ValidatedHasOnePlace, Queued
<1>5. ASSUME NEW o \in Orders, MarkSubmitted(o) \/ CancelOrder(o) PROVE ValidatedHasOnePlace'
  <2>1. /\ \E t \in {"Submitted", "Cancelled"} : machine' = [machine EXCEPT ![o] = t]
        /\ UNCHANGED <<queue, handed>>
    BY <1>5, TransitMoves DEF MarkSubmitted, CancelOrder
  <2>2. QED
    BY <2>1, PlacesKept DEF OrderInv, TypeOK
<1>6. ASSUME NEW o \in Orders, NEW idKind, ProcessExecutionReport(o, idKind)
      PROVE  ValidatedHasOnePlace'
  <2>1. /\ UNCHANGED <<queue, handed>>
        /\ \E t \in {"Acknowledged", "PartiallyFilled", "Filled", "Cancelled", "Rejected"} :
             machine' = [machine EXCEPT ![o] = t]
    BY <1>6, TransitMoves DEF ProcessExecutionReport, HandleOrderAcknowledged, HandlePartialFill,
       HandleOrderFilled, HandleOrderCancelled, HandleOrderRejected
  <2>2. QED
    BY <2>1, PlacesKept DEF OrderInv, TypeOK
<1>7. ASSUME NEW old, CleanupCompletedOrders(old) PROVE ValidatedHasOnePlace'
  BY <1>7, PlacesKept DEF CleanupCompletedOrders, IsTerminal, NoOrder
<1>8. CASE UNCHANGED vars
  BY <1>8, PlacesKept DEF vars
<1>9. QED
  BY <1>1, <1>2, <1>3, <1>4, <1>5, <1>6, <1>7, <1>8, PlacesAfterPop DEF Next

-----------------------------------------------------------------------------
(* The results                                                             *)

LEMMA BookkeepingInit ==
  Init => EndsCountedOnce /\ ActiveAtMost /\ ActiveAtLeast /\ ValidatedHasOnePlace
<1> SUFFICES ASSUME Init
             PROVE  EndsCountedOnce /\ ActiveAtMost /\ ActiveAtLeast /\ ValidatedHasOnePlace
  OBVIOUS
<1>1. Unended = {} /\ Marketed = {} /\ Awaited = {}
  BY DEF Init, Unended, Marketed, Awaited, AwaitsEnd, InMarket, NoOrder
<1>2. EndsCountedOnce /\ ActiveAtMost /\ ActiveAtLeast
  BY <1>1, FS_EmptySet DEF Init, EndsCountedOnce, ActiveAtMost, ActiveAtLeast, Unended
<1>3. ValidatedHasOnePlace
  BY DEF Init, ValidatedHasOnePlace, NoOrder
<1>4. QED
  BY <1>2, <1>3

\* filled_orders and rejected_orders together count an order at most once: never
\* more than the orders created less those whose machine has not ended that way.
THEOREM EndsCountedOnceAlways == Spec => []EndsCountedOnce
<1>1. OrderInv /\ EndsCountedOnce /\ [Next]_vars => EndsCountedOnce'
  BY EndsOfNext
<1>2. QED
  BY BookkeepingInit, <1>1, OrderInvAlways, PTL DEF Spec

\* active_orders claims no order that both copies of the state know to be out of
\* the market, and falls short of the orders still to end by no more than the
\* cancels counted.
THEOREM ActiveCountBoundedAlways == Spec => []ActiveCountBounded
<1>1. OrderInv /\ ActiveAtMost /\ [Next]_vars => ActiveAtMost'
  BY ActiveOfNext
<1>2. OrderInv /\ ActiveAtLeast /\ [Next]_vars => ActiveAtLeast'
  BY AwaitedOfNext
<1>3. ActiveAtMost /\ ActiveAtLeast => ActiveCountBounded
  BY DEF ActiveAtMost, ActiveAtLeast, ActiveCountBounded, Marketed, Awaited
<1>4. QED
  BY BookkeepingInit, <1>1, <1>2, <1>3, OrderInvAlways, PTL DEF Spec

\* A validated order has exactly one entry in the queue or is in the hands of
\* the caller that popped it, so it is submitted at most once and never lost.
THEOREM ValidatedHasOnePlaceAlways == Spec => []ValidatedHasOnePlace
<1>1. OrderInv /\ ValidatedHasOnePlace /\ [Next]_vars => ValidatedHasOnePlace'
  BY PlacesOfNext
<1>2. QED
  BY BookkeepingInit, <1>1, OrderInvAlways, PTL DEF Spec

-----------------------------------------------------------------------------
(* The lifecycle of an order                                               *)

(***************************************************************************)
(* The initial state is one of the lifecycle, and each method, report and  *)
(* cleanup is a step of the lifecycle of one order, a dropping of records, *)
(* or nothing the lifecycle sees.  The record that the lifecycle speaks of *)
(* is the book's, the phase the machine's.                                 *)
(***************************************************************************)

\* The refinement mapping of OrderManager, by name.
Phases == [o \in Orders |-> PhaseOf(o)]
Sizes == [o \in Orders |-> IF signalOf[o] = NoSignal THEN 0 ELSE Size(o)]

LifecycleStep == Lifecycle!Next \/ UNCHANGED Lifecycle!lifecycle

\* A step that the lifecycle does not see.
LEMMA UnseenStep ==
  ASSUME \A y \in Orders : PhaseOf(y)' = PhaseOf(y),
         UNCHANGED <<signalOf, executed, InBook>>
  PROVE  LifecycleStep
<1>1. Phases' = Phases /\ Sizes' = Sizes
  BY DEF Phases, Sizes, Size
<1>2. UNCHANGED Lifecycle!lifecycle
  BY <1>1 DEF Lifecycle!lifecycle, Phases, Sizes
<1>3. QED
  BY <1>2 DEF LifecycleStep

\* The machine of one order moves; the phases of the others stay.
LEMMA OnePhaseMoves ==
  ASSUME OrderInv, NEW o \in Orders, NEW t, machine' = [machine EXCEPT ![o] = t],
         UNCHANGED signalOf
  PROVE  Phases' = [Phases EXCEPT ![o] = PhaseOf(o)'] /\ Sizes' = Sizes
         /\ machine'[o] = t /\ Generated' = Generated
         /\ \A y \in Orders : y # o => PhaseOf(y)' = PhaseOf(y)
<1>1. machine'[o] = t /\ \A y \in Orders : y # o => machine'[y] = machine[y]
  BY DEF OrderInv, TypeOK
<1>2. \A y \in Orders : y # o => PhaseOf(y)' = PhaseOf(y)
  BY <1>1 DEF PhaseOf, Generated
<1>3. Phases' = [Phases EXCEPT ![o] = PhaseOf(o)']
  BY <1>2 DEF Phases
<1>4. QED
  BY <1>1, <1>2, <1>3 DEF Sizes, Size, Generated

\* The book's state of one order moves; no record comes or goes.
LEMMA BookKeeps ==
  ASSUME OrderInv, NEW o \in Orders, NEW s \in OrderStates, SetBookState(o, s)
  PROVE  InBook' = InBook /\ o \in InBook
  BY DEF OrderInv, TypeOK, SetBookState, InBook, NoOrder, OrderStates

LEMMA GeneratedFacts ==
  ASSUME OrderInv, NEW o \in Orders, machine[o] # NoOrder
  PROVE  o \in Generated
  BY DEF OrderInv, RecordsBelong

-----------------------------------------------------------------------------
(* The steps                                                               *)

LEMMA InitRefines == Init => Lifecycle!Init
<1> SUFFICES ASSUME Init PROVE Lifecycle!Init
  OBVIOUS
<1>1. Phases = [o \in Orders |-> "None"] /\ Sizes = [o \in Orders |-> 0] /\ InBook = {}
  BY DEF Init, Phases, PhaseOf, Generated, Sizes, InBook
<1>2. QED
  BY <1>1 DEF Lifecycle!Init, Init, Phases, Sizes

LEMMA CreateRefines ==
  ASSUME OrderInv, NEW o \in Orders, NEW signal \in Signals, CreateOrderFromSignal(o, signal)
  PROVE  LifecycleStep
<1>1. signalOf[o] = NoSignal /\ book[o] = NoOrder /\ o \notin Generated
  BY DEF CreateOrderFromSignal, Generated, OrderInv, RecordsBelong
<1>2. /\ signalOf' = [signalOf EXCEPT ![o] = signal] /\ signal # NoSignal
      /\ machine' = [machine EXCEPT ![o] = "Created"]
      /\ book' = [book EXCEPT ![o] = "Created"]
      /\ executed' = executed
  BY SignalsAssumption DEF CreateOrderFromSignal
<1>3. PhaseOf(o) = "None" /\ PhaseOf(o)' = "Pending"
  BY <1>1, <1>2 DEF PhaseOf, Generated, OrderInv, TypeOK
<1>4. \A y \in Orders : y # o => PhaseOf(y)' = PhaseOf(y)
  BY <1>2 DEF PhaseOf, Generated, OrderInv, TypeOK
<1>5. Phases' = [Phases EXCEPT ![o] = "Pending"]
  BY <1>3, <1>4 DEF Phases
<1>6. InBook' = InBook \cup {o}
  BY <1>2 DEF InBook, OrderInv, TypeOK, NoOrder
<1>7. Sizes'[o] \in Nat /\ Sizes[o] = 0
  BY <1>1, <1>2, QuantityAssumption DEF Sizes, Size, OrderInv, TypeOK
<1>8. Sizes' = [Sizes EXCEPT ![o] = Sizes'[o]]
  BY <1>2 DEF Sizes, Size, OrderInv, TypeOK
<1>9. Lifecycle!Open(o)
  <2>1. Sizes'[o] >= Sizes[o]
    BY <1>7
  <2>2. Phases[o] = "None"
    BY <1>3 DEF Phases
  <2>3. QED
    BY <1>2, <1>5, <1>6, <1>7, <1>8, <2>1, <2>2 DEF Lifecycle!Open, Lifecycle!Raise, Phases, Sizes
<1>10. QED
  BY <1>9 DEF LifecycleStep, Lifecycle!Next

LEMMA SubmissionRefines ==
  ASSUME OrderInv, NEW o \in Orders, ValidateOrder(o) \/ MarkSubmitting(o) \/ HandleOrderAcknowledged(o),
         UNCHANGED signalOf
  PROVE  LifecycleStep
<1>1. \/ /\ machine[o] = "Created" /\ machine' = [machine EXCEPT ![o] = "Validated"]
         /\ SetBookState(o, "Validated")
      \/ /\ machine[o] = "Validated" /\ machine' = [machine EXCEPT ![o] = "Submitting"]
         /\ SetBookState(o, "Submitting")
      \/ /\ machine[o] = "Submitted" /\ machine' = [machine EXCEPT ![o] = "Acknowledged"]
         /\ SetBookState(o, "Acknowledged")
  BY TransitMoves DEF ValidateOrder, MarkSubmitting, HandleOrderAcknowledged
<1>2. executed' = executed
  BY DEF ValidateOrder, MarkSubmitting, HandleOrderAcknowledged
<1>3. InBook' = InBook
  BY <1>1, BookKeeps DEF OrderStates
<1>4. \A y \in Orders : y # o => PhaseOf(y)' = PhaseOf(y)
  BY <1>1, OnePhaseMoves
<1>5. PhaseOf(o)' = PhaseOf(o)
  BY <1>1, OnePhaseMoves DEF PhaseOf, InMarket, Generated
<1>6. QED
  BY <1>2, <1>3, <1>4, <1>5, UnseenStep

LEMMA MarkSubmittedRefines ==
  ASSUME OrderInv, NEW o \in Orders, MarkSubmitted(o)
  PROVE  LifecycleStep
<1>1. /\ machine[o] = "Submitting" /\ machine' = [machine EXCEPT ![o] = "Submitted"]
      /\ SetBookState(o, "Submitted") /\ UNCHANGED <<signalOf, executed>>
  BY TransitMoves DEF MarkSubmitted, indexVars
<1>2. o \in Generated
  BY <1>1, GeneratedFacts DEF NoOrder
<1>3. PhaseOf(o) = "Pending" /\ PhaseOf(o)' = "Market"
  <2>1. machine'[o] = "Submitted" /\ Generated' = Generated
    BY <1>1, OnePhaseMoves
  <2>2. QED
    BY <1>1, <1>2, <2>1 DEF PhaseOf, InMarket
<1>4. Phases' = [Phases EXCEPT ![o] = "Market"] /\ Sizes' = Sizes /\ Phases[o] = "Pending"
  BY <1>1, <1>3, OnePhaseMoves DEF Phases
<1>5. InBook' = InBook
  BY <1>1, BookKeeps DEF OrderStates
<1>6. Lifecycle!EnterMarket(o)
  BY <1>1, <1>4, <1>5 DEF Lifecycle!EnterMarket, Phases, Sizes
<1>7. QED
  BY <1>6 DEF LifecycleStep, Lifecycle!Next

\* A refused submission, or a cancel request before the submission.
LEMMA GivenUpRefines ==
  ASSUME OrderInv, NEW o \in Orders, NEW t \in {"Failed", "Cancelled"},
         machine[o] \in {"Created", "Validated", "Submitting"},
         machine' = [machine EXCEPT ![o] = t],
         UNCHANGED <<signalOf, executed, InBook>>
  PROVE  LifecycleStep
<1>1. o \in Generated
  BY GeneratedFacts DEF NoOrder
<1>2. PhaseOf(o) = "Pending" /\ PhaseOf(o)' = "Done"
  BY <1>1, OnePhaseMoves DEF PhaseOf, InMarket
<1>3. Phases' = [Phases EXCEPT ![o] = "Done"] /\ Sizes' = Sizes /\ Phases[o] = "Pending"
  BY <1>2, OnePhaseMoves DEF Phases
<1>4. Lifecycle!GiveUp(o)
  BY <1>3 DEF Lifecycle!GiveUp, Phases, Sizes
<1>5. QED
  BY <1>4 DEF LifecycleStep, Lifecycle!Next

\* A fill, the last fill, a rejection or a cancel request of an order in the
\* market.
LEMMA MarketRefines ==
  ASSUME OrderInv, NEW o \in Orders, NEW t \in {"PartiallyFilled", "Filled", "Rejected", "Cancelled"},
         InMarket(machine[o]), machine' = [machine EXCEPT ![o] = t],
         NEW total \in Nat, total >= executed[o], executed' = [executed EXCEPT ![o] = total],
         o \in InBook, UNCHANGED <<signalOf, InBook>>
  PROVE  LifecycleStep
<1>1. o \in Generated
  BY GeneratedFacts DEF NoOrder, InMarket
<1>2. Phases[o] = "Market" /\ Sizes' = Sizes /\ machine'[o] = t /\ Generated' = Generated
  BY <1>1, OnePhaseMoves DEF Phases, PhaseOf, InMarket
<1>3. executed'[o] = total /\ executed' = [executed EXCEPT ![o] = executed'[o]]
  BY DEF OrderInv, TypeOK
<1>4. CASE t = "PartiallyFilled"
  <2>1. PhaseOf(o)' = PhaseOf(o)
    BY <1>1, <1>2, <1>4, OnePhaseMoves DEF PhaseOf, InMarket
  <2>2. Phases' = Phases
    BY <2>1, OnePhaseMoves DEF Phases
  <2>3. Lifecycle!Execute(o)
    BY <1>2, <1>3, <2>2 DEF Lifecycle!Execute, Lifecycle!Raise, Phases, Sizes
  <2>4. QED
    BY <2>3 DEF LifecycleStep, Lifecycle!Next
<1>5. CASE t # "PartiallyFilled"
  <2>1. PhaseOf(o)' = "Done"
    BY <1>1, <1>2, <1>5 DEF PhaseOf, InMarket
  <2>2. Phases' = [Phases EXCEPT ![o] = "Done"]
    BY <2>1, OnePhaseMoves
  <2>3. Lifecycle!Finish(o)
    BY <1>2, <1>3, <2>2 DEF Lifecycle!Finish, Lifecycle!Raise, Phases, Sizes
  <2>4. QED
    BY <2>3 DEF LifecycleStep, Lifecycle!Next
<1>6. QED
  BY <1>4, <1>5

LEMMA CancelRefines ==
  ASSUME OrderInv, NEW o \in Orders, CancelOrder(o)
  PROVE  LifecycleStep
<1>1. /\ CanCancel(machine[o]) /\ machine' = [machine EXCEPT ![o] = "Cancelled"]
      /\ UNCHANGED <<signalOf, executed, book>> /\ o \in InBook
  BY TransitMoves DEF CancelOrder, bookVars, indexVars, CanCancel, InBook, NoOrder
<1>2. InBook' = InBook
  BY <1>1 DEF InBook
<1>3. CASE InMarket(machine[o])
  <2>1. executed[o] \in Nat /\ executed' = [executed EXCEPT ![o] = executed[o]]
    BY <1>1 DEF OrderInv, TypeOK
  <2>2. executed[o] >= executed[o]
    BY <2>1
  <2>3. QED
    BY <1>1, <1>2, <1>3, <2>1, <2>2, MarketRefines
<1>4. CASE ~InMarket(machine[o])
  BY <1>1, <1>2, <1>4, GivenUpRefines DEF InMarket, CanCancel
<1>5. QED
  BY <1>3, <1>4

LEMMA FailedRefines ==
  ASSUME OrderInv, NEW o \in Orders, MarkSubmitFailed(o)
  PROVE  LifecycleStep
<1>1. /\ machine[o] = "Submitting" /\ machine' = [machine EXCEPT ![o] = "Failed"]
      /\ SetBookState(o, "Failed") /\ UNCHANGED <<signalOf, executed>>
  BY TransitMoves DEF MarkSubmitFailed, indexVars
<1>2. InBook' = InBook
  BY <1>1, BookKeeps DEF OrderStates
<1>3. QED
  BY <1>1, <1>2, GivenUpRefines

LEMMA FillRefines ==
  ASSUME OrderInv, NEW o \in Orders, NEW q \in FillQuantities,
         NEW t \in {"PartiallyFilled", "Filled"},
         machine[o] \in {"Acknowledged", "PartiallyFilled"},
         machine' = [machine EXCEPT ![o] = t],
         UpdateExecution(o, q), UNCHANGED signalOf
  PROVE  LifecycleStep
<1>1. /\ o \in InBook /\ executed[o] + q \in Nat
      /\ executed' = [executed EXCEPT ![o] = executed[o] + q]
  BY UpdateFacts
<1>2. PICK b \in {book[o], "PartiallyFilled", "Filled"} : book' = [book EXCEPT ![o] = b]
  BY UpdateFacts
<1>3. InBook' = InBook
  BY <1>1, <1>2 DEF InBook, OrderInv, TypeOK, NoOrder
<1>4. executed[o] + q >= executed[o]
  BY QuantityAssumption DEF OrderInv, TypeOK
<1> DEFINE total == executed[o] + q
<1>5. total \in Nat /\ total >= executed[o] /\ executed' = [executed EXCEPT ![o] = total]
  BY <1>1, <1>4
<1> HIDE DEF total
<1>6. QED
  BY <1>1, <1>3, <1>5, MarketRefines DEF InMarket

LEMMA ReportRefines ==
  ASSUME OrderInv, NEW o \in Orders, NEW idKind, ProcessExecutionReport(o, idKind)
  PROVE  LifecycleStep
<1>1. UNCHANGED signalOf
  BY DEF ProcessExecutionReport, indexVars
<1>2. CASE HandleOrderAcknowledged(o)
  BY <1>1, <1>2, SubmissionRefines
<1>3. ASSUME NEW q \in FillQuantities, HandlePartialFill(o, q) \/ HandleOrderFilled(o, q)
      PROVE  LifecycleStep
  <2>1. /\ machine[o] \in {"Acknowledged", "PartiallyFilled"} /\ UpdateExecution(o, q)
        /\ \E t \in {"PartiallyFilled", "Filled"} : machine' = [machine EXCEPT ![o] = t]
    BY <1>3, TransitMoves DEF HandlePartialFill, HandleOrderFilled
  <2>2. QED
    BY <1>1, <2>1, FillRefines
<1>4. CASE HandleOrderCancelled(o)
  <2>1. /\ machine[o] = "Cancelled" /\ machine' = [machine EXCEPT ![o] = "Cancelled"]
        /\ SetBookState(o, "Cancelled") /\ executed' = executed
    BY <1>4, TransitMoves DEF HandleOrderCancelled
  <2>2. InBook' = InBook /\ machine' = machine
    BY <2>1, BookKeeps DEF OrderStates, OrderInv, TypeOK
  <2>3. \A y \in Orders : PhaseOf(y)' = PhaseOf(y)
    BY <1>1, <2>2 DEF PhaseOf, Generated
  <2>4. QED
    BY <1>1, <2>1, <2>2, <2>3, UnseenStep
<1>5. CASE HandleOrderRejected(o)
  <2>1. /\ machine[o] = "Submitted" /\ machine' = [machine EXCEPT ![o] = "Rejected"]
        /\ SetBookState(o, "Rejected") /\ executed' = executed
    BY <1>5, TransitMoves DEF HandleOrderRejected
  <2>2. InBook' = InBook /\ o \in InBook
    BY <2>1, BookKeeps DEF OrderStates
  <2>3. executed[o] \in Nat /\ executed' = [executed EXCEPT ![o] = executed[o]]
    BY <2>1 DEF OrderInv, TypeOK
  <2>4. executed[o] >= executed[o]
    BY <2>3
  <2>5. QED
    BY <1>1, <2>1, <2>2, <2>3, <2>4, MarketRefines DEF InMarket
<1>6. QED
  BY <1>2, <1>3, <1>4, <1>5 DEF ProcessExecutionReport

\* A record is dropped only of an order that is completed in the book: its
\* machine is terminal or gone, or its whole quantity is executed.
LEMMA CleanupRefines ==
  ASSUME OrderInv, NEW old \in SUBSET Completed, CleanupCompletedOrders(old)
  PROVE  LifecycleStep
<1>1. /\ UNCHANGED signalOf
      /\ book' = [o \in Orders |-> IF o \in old THEN NoOrder ELSE book[o]]
      /\ executed' = [o \in Orders |-> IF o \in old THEN 0 ELSE executed[o]]
      /\ machine' = [o \in Orders |-> IF IsTerminal(machine[o]) THEN NoOrder ELSE machine[o]]
  BY DEF CleanupCompletedOrders, indexVars
<1>2. \A o \in Orders : PhaseOf(o)' = PhaseOf(o)
  <2> SUFFICES ASSUME NEW o \in Orders PROVE PhaseOf(o)' = PhaseOf(o)
    OBVIOUS
  <2>1. Generated' = Generated
    BY <1>1 DEF Generated
  <2>2. CASE IsTerminal(machine[o])
    <3>1. machine'[o] = NoOrder
      BY <1>1, <2>2
    <3>2. QED
      BY <2>1, <2>2, <3>1 DEF PhaseOf, IsTerminal, InMarket, NoOrder
  <2>3. CASE ~IsTerminal(machine[o])
    BY <1>1, <2>1, <2>3 DEF PhaseOf
  <2>4. QED
    BY <2>2, <2>3
<1>3. Phases' = Phases /\ Sizes' = Sizes
  BY <1>1, <1>2 DEF Phases, Sizes, Size
<1>4. InBook' = InBook \ old /\ old \subseteq InBook
  BY <1>1 DEF InBook, Completed, IsCompleted, NoOrder
<1>5. ASSUME NEW o \in old PROVE Phases[o] = "Done" \/ executed[o] >= Sizes[o]
  <2>1. o \in Orders /\ IsCompleted(book[o])
    BY DEF Completed
  <2>2. book[o] # NoOrder /\ o \in Generated
    BY <2>1 DEF OrderInv, RecordsBelong, IsCompleted, NoOrder
  <2>3. CASE IsActive(machine[o])
    BY <2>1, <2>2, <2>3 DEF OrderInv, LiveOrderReachable, Sizes, Generated
  <2>4. CASE ~IsActive(machine[o])
    <3>1. machine[o] \notin {"Created", "Validated", "Submitting"} /\ ~InMarket(machine[o])
      BY <2>1, <2>4 DEF OrderInv, BookFollowsMachine, IsCompleted, IsActive, CanCancel, InMarket,
         NoOrder
    <3>2. QED
      BY <2>1, <2>2, <3>1 DEF Phases, PhaseOf
  <2>5. QED
    BY <2>3, <2>4
<1>6. Lifecycle!Forget(old)
  BY <1>1, <1>3, <1>4, <1>5 DEF Lifecycle!Forget, Phases, Sizes
<1>7. QED
  BY <1>4, <1>6 DEF LifecycleStep, Lifecycle!Next

LEMMA NextRefines ==
  ASSUME OrderInv, [Next]_vars
  PROVE  LifecycleStep
<1>1. CASE GetNextPendingOrder \/ UNCHANGED vars
  <2>1. UNCHANGED <<machine, book, signalOf, executed>>
    BY <1>1 DEF GetNextPendingOrder, vars, bookVars, indexVars
  <2>2. QED
    BY <2>1, UnseenStep DEF PhaseOf, Generated, InBook
<1>2. ASSUME NEW o \in Orders, ValidateOrder(o) \/ MarkSubmitting(o) PROVE LifecycleStep
  BY <1>2, SubmissionRefines DEF ValidateOrder, MarkSubmitting, indexVars
<1>3. ASSUME NEW old \in SUBSET Completed, CleanupCompletedOrders(old) PROVE LifecycleStep
  BY <1>3, CleanupRefines
<1>4. QED
  BY <1>1, <1>2, <1>3, CreateRefines, MarkSubmittedRefines, FailedRefines, CancelRefines,
     ReportRefines DEF Next

\* The order manager implements the lifecycle: no report, call or cleanup, in
\* any order, books a quantity on an order that is done, brings an order back or
\* drops the record of one that may still trade.
THEOREM ImplementsLifecycleAlways == Spec => ImplementsLifecycle
<1>1. OrderInv /\ [Next]_vars => [Lifecycle!Next]_Lifecycle!lifecycle
  BY NextRefines DEF LifecycleStep
<1>2. QED
  BY InitRefines, <1>1, OrderInvAlways, PTL DEF Spec, ImplementsLifecycle, Lifecycle!Spec
=============================================================================
