------------------------------ MODULE PrePost ------------------------------
(***************************************************************************)
(* The main loop of the pre-post-processor (main.rs) with the two          *)
(* pipelines (pipeline/pipeline.rs) and the state they share               *)
(* (pipeline/shared_state.rs).  Signals and execution reports arrive on    *)
(* two subscriptions and wait in two unbounded queues; select! takes one   *)
(* item of either queue at a time.  A signal that passes the pre pipeline  *)
(* becomes a validated order; a report first goes to the order manager,    *)
(* and an error there leaves run() and ends the process.                   *)
(*                                                                         *)
(* The loop itself never submits or cancels an order, so an order here is  *)
(* created and validated in one step and stays so; OrderManager.tla has    *)
(* the methods a submitting side would call.  The hourly cleanup finds no  *)
(* completed order and persist() writes nothing, which leaves the reset of *)
(* the day's counts.                                                       *)
(*                                                                         *)
(* RiskInit.tla has the risk initializer; a copy of its risk state becomes *)
(* the loop's own after each init that succeeds.                           *)
(***************************************************************************)
EXTENDS OrderState, PriorityQueue, RiskInit

CONSTANTS
  Signals,       \* the signal messages; the order made of a signal is named by it
  Tickers,       \* what {:?} prints for ExecutionReport.symbol: never a signal's name
  NoSignal,      \* the order of a report that is not an order of this process
  SymbolOf,      \* Signal.symbol
  QuantityOf,    \* Signal.quantity
  Reports,       \* the execution reports the engine may send
  NoReport,
  MaxLots,       \* 100: max_position, and the limit of position_check
  MaxSignals,    \* bound on the number of signals received
  MaxReports     \* bound on the number of reports received

ASSUME KeysAssumption ==
  Names \cap Tickers = {} /\ IsFiniteSet(Names) /\ IsFiniteSet(Tickers)
ASSUME BoundsAssumption == MaxSignals \in Nat /\ MaxReports \in Nat
ASSUME MessagesAssumption ==
  /\ SymbolOf \in [Signals -> Names] /\ QuantityOf \in [Signals -> Nat]
  /\ NoSignal \notin Signals /\ NoReport \notin Reports
  /\ InitSignals \subseteq Signals
  /\ \A r \in Reports :
       /\ r.order \in Signals \cup {NoSignal} /\ r.ticker \in Tickers
       /\ r.side \in {"Buy", "Sell"} /\ r.filled \in Nat

VARIABLES
  halted,         \* the report whose error ended run(), or NoReport
  arrived,        \* the signals delivered so far
  reportCount,    \* the number of reports delivered so far
  preQueue,       \* pre_queue
  postQueue,      \* post_queue
  machine,        \* the order manager's state machine of each order
  orderQueue,     \* its priority queue
  lots,           \* PositionInfo.quantity by key
  avgSign,        \* the sign of PositionInfo.avg_price by key
  quotas,         \* risk_quotas
  exposed,        \* total_exposure >= max_total_exposure
  overridden,     \* total_exposure was last set by a risk init (history variable)
  riskState,      \* the loop's own risk_state
  processedSignals,
  processedReports

positionVars == <<lots, avgSign>>
sharedVars == <<positionVars, quotas, exposed, overridden>>
riskVars == <<riskState, initVars>>
orderVars == <<machine, orderQueue>>
vars == <<halted, arrived, reportCount, preQueue, postQueue, orderVars, sharedVars,
          riskVars, processedSignals, processedReports>>

Keys == Names \cup Tickers
NoQuota == [exists |-> FALSE, blocked |-> FALSE, used |-> 0, trades |-> 0]
NewQuota == [NoQuota EXCEPT !.exists = TRUE]

Running == halted = NoReport

Init ==
  /\ halted = NoReport /\ arrived = {} /\ reportCount = 0
  /\ preQueue = <<>> /\ postQueue = <<>>
  /\ machine = [o \in Signals |-> NoOrder]
  /\ orderQueue = EmptyQueue
  /\ lots = [k \in Keys |-> 0] /\ avgSign = [k \in Keys |-> 0]
  /\ quotas = [k \in Keys |-> NoQuota]
  /\ exposed = FALSE /\ overridden = FALSE
  /\ InitRisk /\ riskState = [symbols |-> symbolStates, metrics |-> metrics]
  /\ processedSignals = 0 /\ processedReports = 0

\* One sample of a subscription is moved into its queue.
PollSignal(s) ==
  /\ Running /\ s \notin arrived /\ Cardinality(arrived) < MaxSignals
  /\ arrived' = arrived \cup {s}
  /\ preQueue' = Append(preQueue, s)
  /\ UNCHANGED <<halted, reportCount, postQueue, orderVars, sharedVars, riskVars,
                 processedSignals, processedReports>>

PollReport(r) ==
  /\ Running /\ reportCount < MaxReports
  /\ reportCount' = reportCount + 1
  /\ postQueue' = Append(postQueue, r)
  /\ UNCHANGED <<halted, arrived, preQueue, orderVars, sharedVars, riskVars,
                 processedSignals, processedReports>>

-----------------------------------------------------------------------------
(* The pre pipeline                                                        *)

Abs(n) == IF n < 0 THEN -n ELSE n

\* can_trade: pending_orders is never raised above 0 and daily_trades stays far
\* below 1000, so neither can stop a signal.  The check of the capital a signal
\* would take is left out, which only lets more signals pass; the cooldown is in
\* the clock's answer of HandleOrderSignal.
CanTrade(quota, quantity) == ~quota.blocked /\ quota.used + quantity <= MaxLots

\* The quota is looked up by the signal's name; without one a new quota is used.
QuotaOf(s) == IF quotas[SymbolOf[s]].exists THEN quotas[SymbolOf[s]] ELSE NewQuota

RiskCheck(s) == CanTrade(QuotaOf(s), QuantityOf[s]) /\ ~exposed

PositionCheck(s) == Abs(lots[SymbolOf[s]] + QuantityOf[s]) <= MaxLots

\* The priority the pipeline assigns is dropped with the order it built; the
\* order manager builds another one at the default priority.
DefaultPriority == 5

CreateAndValidate(s) ==
  /\ machine' = [machine EXCEPT ![s] = "Validated"]
  /\ orderQueue' = Push(orderQueue, s, DefaultPriority)

\* Mutant: the counter is raised only for a signal that makes an order.
CountSignalIfOrdered ==
  processedSignals' = IF machine' # machine THEN processedSignals + 1 ELSE processedSignals

CountSignal == processedSignals' = processedSignals + 1

\* The age and the cooldown depend on the clock: either may refuse the signal.
HandleOrderSignal(s, inTime) ==
  /\ IF inTime /\ RiskCheck(s) /\ PositionCheck(s)
       THEN CreateAndValidate(s)
       ELSE UNCHANGED orderVars
  /\ UNCHANGED <<sharedVars, riskVars>>

\* update_risk_state.  No init touches the initializer's global state, so the
\* summary restricts nothing globally and its total exposure is always zero.
ApplySummary ==
  /\ quotas' = [k \in Keys |->
       IF quotas[k].exists /\ k \in RestrictedSymbols(riskState'.symbols)
         THEN [quotas[k] EXCEPT !.blocked = TRUE] ELSE quotas[k]]
  /\ exposed' = FALSE /\ overridden' = TRUE

CloneRiskState == riskState' = [symbols |-> symbolStates', metrics |-> metrics']

\* Mutant: a failed initialisation is applied too.
HandleInitSignalAlways(s) ==
  /\ ProcessInit(s)
  /\ CloneRiskState
  /\ quotas' = quotas /\ exposed' = FALSE /\ overridden' = ~Fails(s)
  /\ UNCHANGED <<orderVars, positionVars>>

\* A failed init is only logged; what it has changed stays in the initializer.
HandleInitSignal(s) ==
  /\ ProcessInit(s)
  /\ IF Fails(s) THEN UNCHANGED <<quotas, exposed, overridden, riskState>>
     ELSE CloneRiskState /\ ApplySummary
  /\ UNCHANGED <<orderVars, positionVars>>

\* Mutant: a signal waits for the reports to be worked off and for one more signal.
SignalTurnLate == Len(preQueue) > 1 /\ postQueue = <<>>

SignalTurn == preQueue # <<>>

ProcessSignal ==
  /\ Running /\ SignalTurn
  /\ preQueue' = Tail(preQueue)
  /\ IF Head(preQueue) \in InitSignals
       THEN HandleInitSignal(Head(preQueue))
       ELSE \E inTime \in BOOLEAN : HandleOrderSignal(Head(preQueue), inTime)
  /\ CountSignal
  /\ UNCHANGED <<halted, arrived, reportCount, postQueue, processedReports>>

-----------------------------------------------------------------------------
(* The post pipeline                                                       *)

\* The event process_execution_report raises for a report's status.
EventOf(status) ==
  CASE status = "Pending" -> "Acknowledge"
    [] status = "PartiallyFilled" -> "PartialFill"
    [] status = "Filled" -> "Fill"
    [] status = "Cancelled" -> "CancelConfirmed"
    [] status = "Rejected" -> "Reject"

\* The order manager knows the order and takes the report without an error.  It
\* can be found by its client id alone (OrderManager!ExchangeIdIsIndexed).
Accepted(r) ==
  /\ r.order \in Signals /\ machine[r.order] # NoOrder
  /\ \/ r.status = "Placed"
     \/ \E t \in OrderStates : Transition(machine[r.order], EventOf(r.status), t)

\* (avg * q + price * f) / (q + f) with price > 0: of positive sign unless an
\* average and a position of opposite signs let the numbers decide.
NewAvgSigns(avg, q, f) ==
  IF f = 0 \/ q + f = 0 THEN {avg}
  ELSE IF avg * q >= 0 THEN {IF q + f > 0 THEN 1 ELSE -1}
  ELSE {-1, 0, 1}

\* A sale changes neither the average price nor, so, its sign.
UpdatePosition(r) ==
  LET k == r.ticker IN
  IF r.side = "Buy" THEN
    /\ lots' = [lots EXCEPT ![k] = @ + r.filled]
    /\ \E a \in NewAvgSigns(avgSign[k], lots[k], r.filled) : avgSign' = [avgSign EXCEPT ![k] = a]
  ELSE
    /\ lots' = [lots EXCEPT ![k] = @ - r.filled]
    /\ UNCHANGED avgSign

HasExposure(l, a) == \E k \in Keys : l[k] # 0 /\ a[k] # 0

\* Mutant: the exposure is computed from the positions before the report.
RecomputeExposureEarly == exposed' = HasExposure(lots, avgSign) /\ overridden' = FALSE

\* Any lot is worth more than the limit of 0.03.
RecomputeExposure == exposed' = HasExposure(lots', avgSign') /\ overridden' = FALSE

\* Mutant: a sale gives its quantity back.
UpdateRiskQuotaSigned(r) ==
  quotas' = [quotas EXCEPT ![r.ticker] =
    LET q == IF @.exists THEN @ ELSE NewQuota
    IN  [q EXCEPT !.used = IF r.side = "Buy" THEN @ + r.filled ELSE @ - r.filled,
                  !.trades = @ + 1]]

\* A sale uses the quota up like a purchase.
UpdateRiskQuota(r) ==
  quotas' = [quotas EXCEPT ![r.ticker] =
    LET q == IF @.exists THEN @ ELSE NewQuota
    IN  [q EXCEPT !.used = @ + r.filled, !.trades = @ + 1]]

\* Mutant: the report is booked before the order manager has taken it.
ProcessReportBookingFirst ==
  LET r == Head(postQueue) IN
  /\ Running /\ postQueue # <<>>
  /\ postQueue' = Tail(postQueue)
  /\ UpdatePosition(r) /\ RecomputeExposure /\ UpdateRiskQuota(r)
  /\ IF Accepted(r)
       THEN processedReports' = processedReports + 1 /\ UNCHANGED halted
       ELSE halted' = r /\ UNCHANGED processedReports
  /\ UNCHANGED <<arrived, reportCount, preQueue, orderVars, riskVars, processedSignals>>

ProcessReport ==
  LET r == Head(postQueue) IN
  /\ Running /\ postQueue # <<>>
  /\ postQueue' = Tail(postQueue)
  /\ IF Accepted(r) THEN
       /\ UpdatePosition(r) /\ RecomputeExposure /\ UpdateRiskQuota(r)
       /\ processedReports' = processedReports + 1
       /\ UNCHANGED halted
     ELSE
       /\ halted' = r
       /\ UNCHANGED <<sharedVars, processedReports>>
  /\ UNCHANGED <<arrived, reportCount, preQueue, orderVars, riskVars, processedSignals>>

\* The hourly timer, in the first minute of a day: at other times it has no effect.
Cleanup ==
  /\ Running
  /\ riskState' = [riskState EXCEPT !.symbols = DailyReset(@)]
  /\ UNCHANGED <<halted, arrived, reportCount, preQueue, postQueue, orderVars, sharedVars,
                 initVars, processedSignals, processedReports>>

Next ==
  \/ \E s \in Signals : PollSignal(s)
  \/ \E r \in Reports : PollReport(r)
  \/ ProcessSignal
  \/ ProcessReport
  \/ Cleanup

\* select! picks at random among the branches that are ready.
Fairness == WF_vars(ProcessSignal) /\ WF_vars(ProcessReport)

Spec == Init /\ [][Next]_vars /\ Fairness

-----------------------------------------------------------------------------
(* Properties                                                              *)

TypeOK ==
  /\ halted \in Reports \cup {NoReport}
  /\ arrived \subseteq Signals /\ reportCount \in 0..MaxReports
  /\ preQueue \in Seq(Signals) /\ postQueue \in Seq(Reports)
  /\ machine \in [Signals -> OrderStates \cup {NoOrder}]
  /\ orderQueue \in [Priorities -> Seq(Signals)]
  /\ lots \in [Keys -> Int] /\ avgSign \in [Keys -> -1..1]
  /\ quotas \in [Keys -> [exists : BOOLEAN, blocked : BOOLEAN, used : Nat, trades : Nat]]
  /\ exposed \in BOOLEAN /\ overridden \in BOOLEAN
  /\ RiskInitTypeOK
  /\ processedSignals \in Nat /\ processedReports \in Nat

\* Every signal that arrived waits in the queue or was processed, exactly once:
\* no verdict of the pipeline and no failed init loses or repeats one, and none
\* ends the process.
SignalsAccounted == processedSignals + Len(preQueue) = Cardinality(arrived)

\* Each report the order manager accepted is one trade of one quota, and every
\* report that came is accepted, waiting, or the one that ended the process.
TradesMatchReports ==
  /\ processedReports = MapThenSumSet(LAMBDA k : quotas[k].trades, Keys)
  /\ reportCount = processedReports + Len(postQueue) + IF Running THEN 0 ELSE 1

\* No position is larger than the quantity its quota says was used: the two are
\* booked together, by purchases and sales in any order.
PositionsBooked == \A k \in Keys : Abs(lots[k]) <= quotas[k].used

\* The quotas count exactly the reports the order manager accepted, so that the
\* report which ends the process has booked no trade, and no quantity is in a
\* position without being in a quota.
BooksMatchReports == TradesMatchReports /\ PositionsBooked

\* The exposure the risk check reads never claims more than the positions have,
\* and it is the one of the positions, up to date with the last report, unless a
\* risk init has reset it since.
ExposureIsCurrent ==
  /\ exposed => HasExposure(lots, avgSign)
  /\ HasExposure(lots, avgSign) /\ ~overridden => exposed

\* No order is made while the positions are exposed, unless a risk init has
\* overwritten the exposure.
NoOrderWhenExposed ==
  [][(HasExposure(lots, avgSign) /\ ~overridden) => machine' = machine]_vars

LastSuccess == Max({0} \cup {i \in DOMAIN inits : ~Fails(inits[i])})

\* The initializer holds, of each symbol, the record of the last init that reached
\* it, a failed one included, and on top of it the positions of the inits that
\* succeeded since; of the rules, each part as the last init left it that reached
\* it, so that a rule once enabled stays in force.  The loop holds the same of the inits up to the last success:
\* a failed init shows there with the next success and not before, and the next
\* success brings back the day's counts that a reset has cleared.
InitsExplainRiskState ==
  /\ \A k \in Names : symbolStates[k] = Expected(inits, k)
  /\ LET shown == [k \in Names |-> Expected(SubSeq(inits, 1, LastSuccess), k)]
     IN  riskState.symbols \in {shown, DailyReset(shown)}
  /\ riskState.metrics = metrics
  /\ rules = ExpectedRules(inits)

\* The metrics of the initializer and those it has cached are those of the window
\* as it is now, whatever was appended, dropped or served from the cache.
MetricsMatchHistory ==
  /\ metrics = IF cachedMetrics = {} THEN NoMetrics ELSE CHOOSE m \in cachedMetrics : TRUE
  /\ \A m \in cachedMetrics :
       /\ m.total = SumOf(pnlHistory) /\ m.total = m.profit - m.loss
       /\ Len(pnlHistory) > 1 => IsGreatestFall(m.drawdown, pnlHistory)
       /\ \A e \in ToSet(exposureHistory) : e <= m.maxExposure
       /\ exposureHistory # <<>> => m.currentExposure = Last(exposureHistory)

\* A signal in the queue is processed unless a report ends the process first.
SignalsDrain == \A s \in Signals : (s \in arrived) ~> (s \notin ToSet(preQueue) \/ ~Running)

-----------------------------------------------------------------------------
(* Against the documents                                                   *)

\* "The fill report enters the post process, which sets the order to filled"
\* (doc/时间戳维护.md:285): a report of an order of this process does not end it.
FillsAreProcessed ==
  halted = NoReport \/ halted.status # "Filled" \/ halted.order = NoSignal
                    \/ machine[halted.order] = NoOrder
=============================================================================
