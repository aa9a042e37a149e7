------------------------------ MODULE RiskInit ------------------------------
(***************************************************************************)
(* The risk initializer (risk_control/risk_initializer.rs) with its own    *)
(* risk state (risk_state.rs), risk rules (risk_rules.rs) and calculator   *)
(* (risk_calculator.rs).  An init request is worked off part by part and   *)
(* left at the first error: what was written before the error stays, and   *)
(* is part of the state the next init hands out.                           *)
(*                                                                         *)
(* A payload that is no request changes nothing and fails, as a request    *)
(* does whose first symbol state is invalid and that has nothing before    *)
(* it: the two are not told apart.                                         *)
(*                                                                         *)
(* A symbol's record is its position, which stands for the capital too,    *)
(* its count of the day's trades and its restriction; prices, profits and  *)
(* pending orders are copied from the request in the same way.  Left out   *)
(* of the metrics are those of the day, the ratios, which need 30 points,  *)
(* and the value at risk, which needs 100.                                 *)
(***************************************************************************)
EXTENDS Integers, FiniteSets, SequencesExt

CONSTANTS
  Names,        \* the symbols of signals and init requests
  InitSignals,  \* the signals of type RiskControlInit
  RequestOf,    \* the RiskInitRequest of each
  MaxHistory    \* 10000: max_history_size of the calculator

RuleKinds == {"position", "frequency", "pnl", "market", "time"}
\* is_restricted and restriction_until of a symbol in a request
Restrictions == {"None", "Forever", "Until", "InvalidTime"}

SymbolInitState == [symbol : Names, position : Int, trades : Nat,
                    restriction : Restrictions, config : BOOLEAN]
InitialPosition == [symbol : Names, quantity : Nat, side : {"BUY", "SELL", "other"}]
HistoricalData == [pnl : Seq(Int), exposure : Seq(Nat)]

\* Optional parts are sets of at most one element; "rules" are the enabled ones.
ASSUME RequestAssumption ==
  /\ MaxHistory \in Nat \ {0}
  /\ \A s \in InitSignals :
       LET r == RequestOf[s] IN
       /\ r.globalConfig \in BOOLEAN /\ r.rules \subseteq RuleKinds
       /\ r.symbolStates \in Seq(SymbolInitState)
       /\ r.positions \in Seq(InitialPosition)
       /\ r.history \subseteq HistoricalData /\ Cardinality(r.history) <= 1

VARIABLES
  symbolStates,     \* risk_state.symbol_states of the initializer
  rules,            \* risk_rules: the init that last wrote each part, or Default
  pnlHistory,       \* the calculator's window of profits and losses
  exposureHistory,  \* and its window of exposures
  cachedMetrics,    \* cached_metrics, in a set of at most one
  metrics,          \* risk_state.metrics of the initializer
  inits             \* the init signals processed, in order (history variable)

ruleVars == rules
calculatorVars == <<pnlHistory, exposureHistory, cachedMetrics, metrics>>
initVars == <<symbolStates, ruleVars, calculatorVars, inits>>

Default == "Default"
NoSymbol == [exists |-> FALSE, position |-> 0, trades |-> 0, restriction |-> "None"]
NewSymbol == [NoSymbol EXCEPT !.exists = TRUE]

NoMetrics == [total |-> 0, profit |-> 0, loss |-> 0, wins |-> 0, losses |-> 0,
              drawdown |-> 0, currentExposure |-> 0, maxExposure |-> 0]

InitRisk ==
  /\ symbolStates = [k \in Names |-> NoSymbol]
  /\ rules = [limits |-> Default, kinds |-> [r \in RuleKinds |-> Default],
              symbols |-> [k \in Names |-> Default]]
  /\ pnlHistory = <<>> /\ exposureHistory = <<>> /\ cachedMetrics = {}
  /\ metrics = NoMetrics
  /\ inits = <<>>

-----------------------------------------------------------------------------
(* The calculator                                                          *)

\* push_back of each point, and pop_front whenever the window is too long.
AddPoints(history, points) ==
  LET all == history \o points IN
  IF Len(all) <= MaxHistory THEN all ELSE SubSeq(all, Len(all) - MaxHistory + 1, Len(all))

\* The running sum of the points after each of them, 0 before the first.
RunningSum(points) ==
  LET sum[n \in 0..Len(points)] == IF n = 0 THEN 0 ELSE sum[n - 1] + points[n] IN sum

SumOf(points) == RunningSum(points)[Len(points)]

\* Each point counts as a profit, as a loss, or, when it is zero, as neither.
Profits(points) == [i \in DOMAIN points |-> IF points[i] > 0 THEN points[i] ELSE 0]
Losses(points) == [i \in DOMAIN points |-> IF points[i] < 0 THEN -points[i] ELSE 0]

\* The peak of the running sum up to each point; it starts at 0.
Peaks(points) ==
  LET sum == RunningSum(points)
      peak[n \in 0..Len(points)] ==
        IF n = 0 THEN 0 ELSE IF sum[n] > peak[n - 1] THEN sum[n] ELSE peak[n - 1]
  IN  peak

\* One point alone gives no drawdown.
DrawdownOf(points) ==
  IF Len(points) < 2 THEN 0
  ELSE Max({Peaks(points)[n] - RunningSum(points)[n] : n \in 1..Len(points)})

MetricsOf(pnl, exposure) ==
  [total |-> SumOf(pnl),
   profit |-> SumOf(Profits(pnl)),
   loss |-> SumOf(Losses(pnl)),
   wins |-> Cardinality({i \in DOMAIN pnl : pnl[i] > 0}),
   losses |-> Cardinality({i \in DOMAIN pnl : pnl[i] < 0}),
   drawdown |-> DrawdownOf(pnl),
   currentExposure |-> IF exposure = <<>> THEN 0 ELSE Last(exposure),
   maxExposure |-> IF exposure = <<>> THEN 0 ELSE Max(ToSet(exposure))]

\* Mutant: a new point leaves the cached metrics in place.
AlwaysCached(data) == cachedMetrics

\* add_pnl and add_exposure drop the cached metrics.
StillCached(data) == IF data.pnl = <<>> /\ data.exposure = <<>> THEN cachedMetrics ELSE {}

\* A cached result is served while it is younger than five seconds.
RestoreHistory(data) ==
  LET pnl == AddPoints(pnlHistory, data.pnl)
      exposure == AddPoints(exposureHistory, data.exposure)
  IN  \E m \in StillCached(data) \cup {MetricsOf(pnl, exposure)} :
        /\ pnlHistory' = pnl /\ exposureHistory' = exposure
        /\ metrics' = m /\ cachedMetrics' = {m}

-----------------------------------------------------------------------------
(* The parts of a request                                                  *)

IsInvalid(state) == state.restriction = "InvalidTime"

\* The first symbol state whose restriction time is no time, or 0.
FirstInvalid(s) == SelectInSeq(RequestOf[s].symbolStates, IsInvalid)

Fails(s) == FirstInvalid(s) # 0

\* The symbol states written before the error, all of them without one.
Written(s) ==
  IF FirstInvalid(s) = 0 THEN RequestOf[s].symbolStates
  ELSE SubSeq(RequestOf[s].symbolStates, 1, FirstInvalid(s) - 1)

\* Mutant: a symbol that is known keeps its position.
SymbolMerged(symbols, state) ==
  [symbols EXCEPT ![state.symbol] =
    [NewSymbol EXCEPT !.position = @ + symbols[state.symbol].position + state.position,
                      !.trades = state.trades, !.restriction = state.restriction]]

\* A new record replaces the one there is.
WithSymbolState(symbols, state) ==
  [symbols EXCEPT ![state.symbol] =
    [exists |-> TRUE, position |-> state.position, trades |-> state.trades,
     restriction |-> state.restriction]]

Signed(position) ==
  CASE position.side = "BUY" -> position.quantity
    [] position.side = "SELL" -> -position.quantity
    [] OTHER -> 0

\* A position is added to what the symbol has.
WithPosition(symbols, position) ==
  [symbols EXCEPT ![position.symbol].exists = TRUE,
                  ![position.symbol].position = @ + Signed(position)]

SymbolsAfter(s) ==
  LET covered == FoldLeft(WithSymbolState, symbolStates, Written(s)) IN
  IF Fails(s) THEN covered ELSE FoldLeft(WithPosition, covered, RequestOf[s].positions)

\* Disabled rules leave those of an earlier init in force.
RulesAfter(s) ==
  LET configured == {state.symbol : state \in {t \in ToSet(Written(s)) : t.config}} IN
  [limits |-> IF RequestOf[s].globalConfig THEN s ELSE rules.limits,
   symbols |-> [k \in Names |-> IF k \in configured THEN s ELSE rules.symbols[k]],
   kinds |-> [r \in RuleKinds |->
     IF ~Fails(s) /\ r \in RequestOf[s].rules THEN s ELSE rules.kinds[r]]]

\* process_init_signal
ProcessInit(s) ==
  /\ symbolStates' = SymbolsAfter(s)
  /\ rules' = RulesAfter(s)
  /\ IF Fails(s) \/ RequestOf[s].history = {} THEN UNCHANGED calculatorVars
     ELSE \E data \in RequestOf[s].history : RestoreHistory(data)
  /\ inits' = Append(inits, s)

\* get_summary: a restriction is listed whether or not its time is over.
RestrictedSymbols(symbols) == {k \in Names : symbols[k].restriction # "None"}

\* check_daily_reset, when it is called in the first minute of a day
DailyReset(symbols) == [k \in Names |-> [symbols[k] EXCEPT !.trades = 0]]

-----------------------------------------------------------------------------
(* What the initializer should hold, from the inits processed              *)

\* The init that last wrote a record for the symbol, and that record.
LastCover(history, k) ==
  Max({0} \cup {i \in DOMAIN history : \E e \in ToSet(Written(history[i])) : e.symbol = k})

CoverOf(s, k) == Written(s)[Max({i \in DOMAIN Written(s) : Written(s)[i].symbol = k})]

\* What the positions of an init add to a symbol.
Added(s, k) ==
  SumOf([j \in DOMAIN RequestOf[s].positions |->
    LET p == RequestOf[s].positions[j] IN IF p.symbol = k THEN Signed(p) ELSE 0])

\* The inits that succeeded, from the last cover on.
Adds(history, k, i) == i >= LastCover(history, k) /\ ~Fails(history[i])

Expected(history, k) ==
  LET last == LastCover(history, k)
      added == [i \in DOMAIN history |-> IF Adds(history, k, i) THEN Added(history[i], k) ELSE 0]
  IN  [exists |->
         \/ last # 0
         \/ \E i \in DOMAIN history : /\ Adds(history, k, i)
                                      /\ \E p \in ToSet(RequestOf[history[i]].positions) : p.symbol = k,
       position |-> SumOf(added) + IF last = 0 THEN 0 ELSE CoverOf(history[last], k).position,
       trades |-> IF last = 0 THEN 0 ELSE CoverOf(history[last], k).trades,
       restriction |-> IF last = 0 THEN "None" ELSE CoverOf(history[last], k).restriction]

\* The rules in force: each part as the last init left it that reached it.
LastOf(history, reached) ==
  LET at == Max({0} \cup {i \in DOMAIN history : reached[history[i]]})
  IN  IF at = 0 THEN Default ELSE history[at]

ExpectedRules(history) ==
  [limits |-> LastOf(history, [s \in InitSignals |-> RequestOf[s].globalConfig]),
   symbols |-> [k \in Names |-> LastOf(history, [s \in InitSignals |->
     \E e \in ToSet(Written(s)) : e.symbol = k /\ e.config])],
   kinds |-> [r \in RuleKinds |-> LastOf(history, [s \in InitSignals |->
     ~Fails(s) /\ r \in RequestOf[s].rules])]]

\* The greatest fall of the running sum from an earlier value, the first being 0.
IsGreatestFall(d, points) ==
  LET sum == RunningSum(points) IN
  /\ \A i \in 0..Len(points) : \A j \in i..Len(points) : sum[i] - sum[j] <= d
  /\ \E i \in 0..Len(points) : \E j \in i..Len(points) : sum[i] - sum[j] = d

RiskInitTypeOK ==
  /\ symbolStates \in [Names -> [exists : BOOLEAN, position : Int, trades : Nat,
                                restriction : Restrictions]]
  /\ rules.limits \in InitSignals \cup {Default}
  /\ rules.symbols \in [Names -> InitSignals \cup {Default}]
  /\ rules.kinds \in [RuleKinds -> InitSignals \cup {Default}]
  /\ Len(pnlHistory) <= MaxHistory /\ Len(exposureHistory) <= MaxHistory
  /\ inits \in Seq(InitSignals)
=============================================================================
