---------------------------- MODULE PrePostProofs ----------------------------
(***************************************************************************)
(* The properties of the main loop for any signals, reports, symbols and   *)
(* risk inits.                                                             *)
(***************************************************************************)
EXTENDS PrePost, RiskInitProofs

\* The types of what the loop's own properties read.
LoopTypeOK ==
  /\ arrived \subseteq Signals /\ IsFiniteSet(arrived)
  /\ preQueue \in Seq(Signals) /\ postQueue \in Seq(Reports)
  /\ lots \in [Keys -> Int] /\ quotas \in [Keys -> [exists : BOOLEAN, blocked : BOOLEAN,
                                                    used : Nat, trades : Nat]]
  /\ processedSignals \in Nat

\* No report is ever booked under the name of a signal's symbol.
NamesUntouched == \A k \in Names : ~quotas[k].exists /\ lots[k] = 0

\* A quota made for a key starts with nothing used.
QuotasStartUnused == \A k \in Keys : ~quotas[k].exists => quotas[k].used = 0

LoopInv ==
  /\ LoopTypeOK /\ NamesUntouched /\ SignalsAccounted
  /\ ExposureIsCurrent /\ PositionsBooked /\ QuotasStartUnused

LEMMA LoopInvInit == Init => LoopInv
<1> SUFFICES ASSUME Init PROVE LoopInv
  OBVIOUS
<1>1. LoopTypeOK
  BY FS_EmptySet DEF Init, LoopTypeOK, NoQuota
<1>2. NamesUntouched
  BY DEF Init, NamesUntouched, Keys, NoQuota
<1>3. SignalsAccounted
  BY FS_EmptySet DEF Init, SignalsAccounted
<1>4. ExposureIsCurrent
  BY DEF Init, ExposureIsCurrent, HasExposure
<1>5. PositionsBooked /\ QuotasStartUnused
  BY DEF Init, PositionsBooked, QuotasStartUnused, Abs, NoQuota
<1>6. QED
  BY <1>1, <1>2, <1>3, <1>4, <1>5 DEF LoopInv

LEMMA PollSignalPreserves ==
  ASSUME LoopInv, NEW s \in Signals, PollSignal(s)
  PROVE  LoopInv'
<1> USE DEF LoopInv, LoopTypeOK, PollSignal, sharedVars, positionVars
<1>1. IsFiniteSet(arrived') /\ Cardinality(arrived') = Cardinality(arrived) + 1
  BY FS_AddElement
<1>2. preQueue' \in Seq(Signals) /\ Len(preQueue') = Len(preQueue) + 1
  OBVIOUS
<1>3. LoopTypeOK'
  BY <1>1, <1>2
<1>4. SignalsAccounted'
  BY <1>1, <1>2, FS_CardinalityType DEF SignalsAccounted
<1>5. QED
  BY <1>3, <1>4 DEF NamesUntouched, ExposureIsCurrent, HasExposure, PositionsBooked, QuotasStartUnused

LEMMA PollReportPreserves ==
  ASSUME LoopInv, NEW r \in Reports, PollReport(r)
  PROVE  LoopInv'
<1> USE DEF LoopInv, LoopTypeOK, PollReport, sharedVars, positionVars
<1>1. LoopTypeOK'
  OBVIOUS
<1>2. QED
  BY <1>1 DEF NamesUntouched, ExposureIsCurrent, HasExposure, SignalsAccounted, PositionsBooked,
     QuotasStartUnused

\* What a signal of either kind leaves of the books and the exposure.
LEMMA SignalFacts ==
  ASSUME LoopInv, ProcessSignal
  PROVE  /\ lots' = lots /\ avgSign' = avgSign
         /\ quotas' \in [Keys -> [exists : BOOLEAN, blocked : BOOLEAN, used : Nat, trades : Nat]]
         /\ \A k \in Keys : quotas'[k].exists = quotas[k].exists /\ quotas'[k].used = quotas[k].used
         /\ \/ overridden' /\ ~exposed'
            \/ exposed' = exposed /\ overridden' = overridden
<1> USE DEF LoopInv, LoopTypeOK, sharedVars, positionVars
<1>1. CASE Head(preQueue) \in InitSignals /\ ~Fails(Head(preQueue))
  <2>1. ApplySummary /\ lots' = lots /\ avgSign' = avgSign
    BY <1>1 DEF ProcessSignal, HandleInitSignal
  <2>2. QED
    BY <2>1 DEF ApplySummary
<1>2. CASE ~(Head(preQueue) \in InitSignals /\ ~Fails(Head(preQueue)))
  BY <1>2 DEF ProcessSignal, HandleInitSignal, HandleOrderSignal
<1>3. QED
  BY <1>1, <1>2

LEMMA ProcessSignalPreserves ==
  ASSUME LoopInv, ProcessSignal
  PROVE  LoopInv'
<1> USE DEF LoopInv, LoopTypeOK
<1>1. /\ arrived' = arrived /\ postQueue' = postQueue /\ processedSignals' = processedSignals + 1
      /\ preQueue # <<>> /\ preQueue' = Tail(preQueue)
  BY DEF ProcessSignal, SignalTurn, CountSignal
<1>2. preQueue' \in Seq(Signals) /\ Len(preQueue') = Len(preQueue) - 1
  BY <1>1
<1>3. LoopTypeOK'
  BY <1>1, <1>2, SignalFacts
<1>4. SignalsAccounted'
  BY <1>1, <1>2, FS_CardinalityType DEF SignalsAccounted
<1>5. NamesUntouched'
  BY SignalFacts DEF NamesUntouched, Keys
<1>6. ExposureIsCurrent'
  BY SignalFacts DEF ExposureIsCurrent, HasExposure
<1>7. PositionsBooked' /\ QuotasStartUnused'
  BY SignalFacts DEF PositionsBooked, QuotasStartUnused
<1>8. QED
  BY <1>3, <1>4, <1>5, <1>6, <1>7

LEMMA AbsGrows ==
  ASSUME NEW l \in Int, NEW f \in Nat, NEW u \in Nat, Abs(l) <= u, NEW m \in {l, l + f, l - f}
  PROVE  Abs(m) <= f + u
  BY DEF Abs

LEMMA ProcessReportPreserves ==
  ASSUME LoopInv, ProcessReport
  PROVE  LoopInv'
<1> USE DEF LoopInv, LoopTypeOK
<1>1. /\ arrived' = arrived /\ preQueue' = preQueue /\ processedSignals' = processedSignals
      /\ postQueue # <<>> /\ postQueue' = Tail(postQueue)
  BY DEF ProcessReport
<1>2. SignalsAccounted'
  BY <1>1 DEF SignalsAccounted
<1>3. CASE ~Accepted(Head(postQueue))
  <2>1. UNCHANGED sharedVars
    BY <1>3 DEF ProcessReport
  <2>2. QED
    BY <1>1, <1>2, <2>1 DEF sharedVars, positionVars, NamesUntouched, ExposureIsCurrent,
       HasExposure, PositionsBooked, QuotasStartUnused
<1>4. CASE Accepted(Head(postQueue))
  <2> DEFINE r == Head(postQueue)
  <2>1. UpdatePosition(r) /\ RecomputeExposure /\ UpdateRiskQuota(r)
    BY <1>4 DEF ProcessReport
  <2>2. r \in Reports
    BY <1>1
  <2>3. r.ticker \in Tickers /\ r.ticker \in Keys /\ r.ticker \notin Names /\ r.filled \in Nat
    BY <2>2, MessagesAssumption, KeysAssumption DEF Keys
  <2> HIDE DEF r
  <2>4. lots' \in [Keys -> Int] /\ \A k \in Names : lots'[k] = lots[k]
    BY <2>1, <2>3 DEF UpdatePosition, Keys
  <2>5. /\ quotas' \in [Keys -> [exists : BOOLEAN, blocked : BOOLEAN, used : Nat, trades : Nat]]
        /\ \A k \in Names : quotas'[k] = quotas[k]
        /\ \A k \in Keys : k # r.ticker => quotas'[k] = quotas[k]
        /\ \A k \in Keys : quotas'[k].used =
             IF k # r.ticker THEN quotas[k].used
             ELSE r.filled + IF quotas[k].exists THEN quotas[k].used ELSE 0
        /\ quotas'[r.ticker].exists
    <3> DEFINE Quota == [exists : BOOLEAN, blocked : BOOLEAN, used : Nat, trades : Nat]
               q == IF quotas[r.ticker].exists THEN quotas[r.ticker] ELSE NewQuota
               n == [q EXCEPT !.used = @ + r.filled, !.trades = @ + 1]
    <3>1. quotas' = [quotas EXCEPT ![r.ticker] = n]
      BY <2>1 DEF UpdateRiskQuota
    <3>2. q \in Quota
      BY <2>3 DEF NewQuota, NoQuota
    <3>3. q.used + r.filled \in Nat /\ q.trades + 1 \in Nat
      BY <3>2, <2>3
    <3>4. q.used = (IF quotas[r.ticker].exists THEN quotas[r.ticker].used ELSE 0) /\ q.exists
      BY DEF NewQuota, NoQuota
    <3> HIDE DEF q
    <3>5. n \in Quota
      BY <3>2, <3>3
    <3>6. n.used = r.filled + q.used /\ n.exists
      <4>1. n.used = q.used + r.filled /\ n.exists = q.exists /\ q.used \in Nat
        BY <3>2
      <4> HIDE DEF n
      <4>2. QED
        BY <2>3, <3>4, <4>1
    <3> HIDE DEF n
    <3>7. quotas' \in [Keys -> Quota] /\ quotas'[r.ticker] = n
          /\ \A k \in Keys : k # r.ticker => quotas'[k] = quotas[k]
      BY <2>3, <3>1, <3>5
    <3>8. \A k \in Names : k \in Keys /\ k # r.ticker
      BY <2>3 DEF Keys
    <3>9. QED
      BY <2>3, <3>4, <3>6, <3>7, <3>8
  <2>6. ExposureIsCurrent'
    BY <2>1 DEF RecomputeExposure, ExposureIsCurrent, HasExposure
  <2>7. \A k \in Keys : ~quotas[k].exists => quotas[k].used = 0
    BY DEF QuotasStartUnused
  <2>8. PositionsBooked'
    <3> SUFFICES ASSUME NEW k \in Keys PROVE Abs(lots'[k]) <= quotas'[k].used
      BY DEF PositionsBooked
    <3>1. /\ lots[k] \in Int /\ quotas[k].used \in Nat /\ Abs(lots[k]) <= quotas[k].used
      BY DEF PositionsBooked
    <3>2. lots'[k] \in {lots[k], lots[k] + r.filled, lots[k] - r.filled}
          /\ (k # r.ticker => lots'[k] = lots[k])
      BY <2>1, <2>3 DEF UpdatePosition
    <3>3. quotas'[k].used = IF k # r.ticker THEN quotas[k].used ELSE r.filled + quotas[k].used
      BY <2>3, <2>5, <2>7
    <3>4. CASE k = r.ticker
      BY <2>3, <3>1, <3>2, <3>3, <3>4, AbsGrows
    <3>5. CASE k # r.ticker
      BY <3>1, <3>2, <3>3, <3>5
    <3>6. QED
      BY <3>4, <3>5
  <2>9. QuotasStartUnused'
    BY <2>3, <2>5, <2>7 DEF QuotasStartUnused
  <2>10. LoopTypeOK'
    BY <1>1, <2>4, <2>5
  <2>11. NamesUntouched'
    BY <2>4, <2>5, KeysAssumption DEF NamesUntouched, Keys
  <2>12. QED
    BY <1>2, <2>6, <2>8, <2>9, <2>10, <2>11
<1>5. QED
  BY <1>3, <1>4

LEMMA LoopInvNext == LoopInv /\ [Next]_vars => LoopInv'
<1> SUFFICES ASSUME LoopInv, [Next]_vars PROVE LoopInv'
  OBVIOUS
<1>1. CASE Cleanup
  BY <1>1 DEF Cleanup, sharedVars, positionVars, LoopInv, LoopTypeOK, NamesUntouched,
     SignalsAccounted, ExposureIsCurrent, HasExposure, PositionsBooked, QuotasStartUnused
<1>2. CASE UNCHANGED vars
  BY <1>2 DEF vars, sharedVars, positionVars, LoopInv, LoopTypeOK, NamesUntouched,
     SignalsAccounted, ExposureIsCurrent, HasExposure, PositionsBooked, QuotasStartUnused
<1>3. QED
  BY <1>1, <1>2, PollSignalPreserves, PollReportPreserves, ProcessSignalPreserves,
     ProcessReportPreserves DEF Next

-----------------------------------------------------------------------------
(* The books and the reports                                               *)

QuotaType == [exists : BOOLEAN, blocked : BOOLEAN, used : Nat, trades : Nat]

OtherTypesOK ==
  /\ halted \in Reports \cup {NoReport} /\ reportCount \in 0..MaxReports
  /\ machine \in [Signals -> OrderStates \cup {NoOrder}]
  /\ orderQueue \in [Priorities -> Seq(Signals)]
  /\ avgSign \in [Keys -> -1..1]
  /\ exposed \in BOOLEAN /\ overridden \in BOOLEAN
  /\ processedReports \in Nat

\* A key without a quota has no trades: the quota made for it starts with none.
NoTradesWithoutQuota == \A k \in Keys : ~quotas[k].exists => quotas[k].trades = 0

\* F is the sum of f over the subsets of D, in the order of CHOOSE.
SumsOver(F, D, f) ==
  \A T \in SUBSET D :
    F[T] = IF T = {} THEN 0 ELSE f[CHOOSE x \in T : TRUE] + F[T \ {CHOOSE x \in T : TRUE}]

TotalTrades(q) == MapThenSumSet(LAMBDA k : q[k].trades, Keys)

LEMMA SumExists ==
  ASSUME NEW D, IsFiniteSet(D), NEW f \in [D -> Int]
  PROVE  \E F \in [SUBSET D -> Int] : SumsOver(F, D, f)
<1> DEFINE ch == [T \in SUBSET D |-> CHOOSE x \in T : TRUE]
           step == [x \in Int \X D |-> f[x[2]] + x[1]]
<1>1. \A T \in SUBSET D : T # {} => ch[T] \in T
  OBVIOUS
<1>2. step \in [Int \X D -> Int]
  OBVIOUS
<1>3. \A a \in Int, x \in D : step[<<a, x>>] = f[x] + a
  OBVIOUS
<1>4. \A T \in SUBSET D : ch[T] = CHOOSE x \in T : TRUE
  OBVIOUS
<1>5. 0 \in Int
  OBVIOUS
<1> HIDE DEF ch, step
<1>6. PICK F \in [SUBSET D -> Int] : IsFold(F, D, 0, ch, step)
  BY <1>1, <1>2, <1>5, FoldExists
<1>7. ASSUME NEW T \in SUBSET D
      PROVE  F[T] = IF T = {} THEN 0 ELSE f[ch[T]] + F[T \ {ch[T]}]
  <2>1. CASE T = {}
    BY <1>6, <2>1 DEF IsFold
  <2>2. CASE T # {}
    <3>1. ch[T] \in D /\ F[T \ {ch[T]}] \in Int
      BY <1>1, <2>2
    <3>2. F[T] = step[<<F[T \ {ch[T]}], ch[T]>>]
      BY <1>6, <2>2 DEF IsFold
    <3>3. QED
      BY <1>3, <2>2, <3>1, <3>2
  <2>3. QED
    BY <2>1, <2>2
<1>8. QED
  BY <1>4, <1>7 DEF SumsOver

\* Two functions that differ at one point have sums that differ by as much.
LEMMA SumsDiffer ==
  ASSUME NEW D, IsFiniteSet(D), NEW f \in [D -> Int], NEW g \in [D -> Int],
         NEW F, SumsOver(F, D, f), NEW G, SumsOver(G, D, g), NEW k \in D, NEW c \in Int,
         \A x \in D : g[x] = f[x] + IF x = k THEN c ELSE 0
  PROVE  F[D] \in Int /\ G[D] = F[D] + c
<1> DEFINE ch(T) == CHOOSE x \in T : TRUE
           Differ(T) == F[T] \in Int /\ G[T] = F[T] + IF k \in T THEN c ELSE 0
           S == {m \in Nat : \A T \in SUBSET D : Cardinality(T) = m => Differ(T)}
<1>1. \A T \in SUBSET D : IsFiniteSet(T) /\ Cardinality(T) \in Nat /\ (Cardinality(T) = 0 <=> T = {})
  BY FS_Subset, FS_CardinalityType, FS_EmptySet
<1>2. \A T \in SUBSET D : T # {} => /\ ch(T) \in T
                                    /\ F[T] = f[ch(T)] + F[T \ {ch(T)}]
                                    /\ G[T] = g[ch(T)] + G[T \ {ch(T)}]
  BY DEF SumsOver
<1>3. F[{}] = 0 /\ G[{}] = 0
  BY DEF SumsOver
<1> HIDE DEF ch
<1>4. \A T \in SUBSET D : T # {} => Cardinality(T \ {ch(T)}) = Cardinality(T) - 1
  BY <1>1, <1>2, FS_RemoveElement
<1>5. 0 \in S
  <2>1. Differ({})
    BY <1>3
  <2>2. QED
    BY <1>1, <2>1
<1>6. ASSUME NEW m \in Nat, m \in S PROVE m + 1 \in S
  <2> SUFFICES ASSUME NEW T \in SUBSET D, Cardinality(T) = m + 1 PROVE Differ(T)
    OBVIOUS
  <2> DEFINE x == ch(T)
             R == T \ {x}
  <2>1. T # {}
    BY <1>1
  <2>2. R \in SUBSET D /\ Cardinality(R) = m /\ x \in T /\ x \in D
    BY <1>2, <1>4, <2>1
  <2>3. Differ(R)
    BY <1>6, <2>2
  <2>4. F[T] = f[x] + F[R] /\ G[T] = g[x] + G[R]
    BY <1>2, <2>1
  <2>5. f[x] \in Int /\ g[x] = f[x] + IF x = k THEN c ELSE 0
    BY <2>2
  <2>6. k \in T <=> k = x \/ k \in R
    BY <2>2
  <2>7. x \notin R
    OBVIOUS
  <2> HIDE DEF x, R
  <2>8. QED
    BY <2>3, <2>4, <2>5, <2>6, <2>7
<1> HIDE DEF S
<1>7. Cardinality(D) \in S
  BY <1>1, <1>5, <1>6, SetInduction
<1>8. Differ(D)
  BY <1>7 DEF S
<1>9. QED
  BY <1>8

LEMMA KeysFinite == IsFiniteSet(Keys)
  BY KeysAssumption, FS_Union DEF Keys

LEMMA TotalTradesIsSum ==
  ASSUME NEW q \in [Keys -> QuotaType]
  PROVE  \E F : SumsOver(F, Keys, [k \in Keys |-> q[k].trades]) /\ TotalTrades(q) = F[Keys]
<1> DEFINE f == [k \in Keys |-> q[k].trades]
           Equation(g) == g = [T \in SUBSET Keys |->
             IF T = {} THEN 0 ELSE q[CHOOSE x \in T : TRUE].trades + g[T \ {CHOOSE x \in T : TRUE}]]
           F == CHOOSE g : Equation(g)
<1>1. TotalTrades(q) = F[Keys]
  BY Zenon DEF TotalTrades, MapThenSumSet, MapThenFoldSet
<1>2. f \in [Keys -> Int] /\ \A k \in Keys : f[k] = q[k].trades
  BY DEF QuotaType
<1> HIDE DEF f
<1>3. PICK G \in [SUBSET Keys -> Int] : SumsOver(G, Keys, f)
  BY <1>2, KeysFinite, SumExists
<1>4. \A T \in SUBSET Keys : T # {} => (CHOOSE x \in T : TRUE) \in Keys
  OBVIOUS
<1>5. \A T \in SUBSET Keys : G[T] =
        IF T = {} THEN 0 ELSE q[CHOOSE x \in T : TRUE].trades + G[T \ {CHOOSE x \in T : TRUE}]
  BY <1>2, <1>3, <1>4 DEF SumsOver
<1>6. Equation(G)
  BY <1>5
<1>7. Equation(F)
  <2> HIDE DEF Equation
  <2>1. QED
    BY <1>6
<1> HIDE DEF F
<1>8. SumsOver(F, Keys, f)
  <2>1. \A T \in SUBSET Keys : F[T] =
          IF T = {} THEN 0 ELSE q[CHOOSE x \in T : TRUE].trades + F[T \ {CHOOSE x \in T : TRUE}]
    BY <1>7
  <2>2. QED
    BY <1>2, <1>4, <2>1 DEF SumsOver
<1>9. QED
  BY <1>1, <1>8 DEF f

\* The total follows a change of one quota, and no change of none.
LEMMA TotalTradesFollows ==
  ASSUME NEW q \in [Keys -> QuotaType], NEW r \in [Keys -> QuotaType], NEW k \in Keys, NEW c \in Int,
         \A x \in Keys : r[x].trades = q[x].trades + IF x = k THEN c ELSE 0
  PROVE  TotalTrades(r) = TotalTrades(q) + c
<1> DEFINE f == [x \in Keys |-> q[x].trades]
           g == [x \in Keys |-> r[x].trades]
<1>1. PICK F : SumsOver(F, Keys, f) /\ TotalTrades(q) = F[Keys]
  BY TotalTradesIsSum
<1>2. PICK G : SumsOver(G, Keys, g) /\ TotalTrades(r) = G[Keys]
  BY TotalTradesIsSum
<1>3. f \in [Keys -> Int] /\ g \in [Keys -> Int]
  BY DEF QuotaType
<1>4. \A x \in Keys : g[x] = f[x] + IF x = k THEN c ELSE 0
  OBVIOUS
<1> HIDE DEF f, g
<1>5. G[Keys] = F[Keys] + c
  BY <1>1, <1>2, <1>3, <1>4, KeysFinite, SumsDiffer
<1>6. QED
  BY <1>1, <1>2, <1>5

LEMMA TotalTradesOfNone ==
  ASSUME NEW q \in [Keys -> QuotaType], \A k \in Keys : q[k].trades = 0
  PROVE  TotalTrades(q) = 0
<1> DEFINE f == [x \in Keys |-> q[x].trades]
<1>1. PICK F : SumsOver(F, Keys, f) /\ TotalTrades(q) = F[Keys]
  BY TotalTradesIsSum
<1>2. CASE Keys = {}
  BY <1>1, <1>2 DEF SumsOver
<1>3. CASE Keys # {}
  <2>1. PICK k \in Keys : TRUE
    BY <1>3
  <2> DEFINE none == [T \in SUBSET Keys |-> 0]
  <2>2. SumsOver(none, Keys, f)
    <3> SUFFICES ASSUME NEW T \in SUBSET Keys
                 PROVE  none[T] = IF T = {} THEN 0
                          ELSE f[CHOOSE x \in T : TRUE] + none[T \ {CHOOSE x \in T : TRUE}]
      BY DEF SumsOver
    <3>1. T # {} => (CHOOSE x \in T : TRUE) \in Keys
      OBVIOUS
    <3>2. QED
      BY <3>1
  <2>3. f \in [Keys -> Int] /\ 0 \in Int /\ none[Keys] = 0
        /\ \A x \in Keys : f[x] = f[x] + IF x = k THEN 0 ELSE 0
    BY DEF QuotaType
  <2> HIDE DEF f, none
  <2>4. F[Keys] = none[Keys] + 0
    BY <1>1, <2>1, <2>2, <2>3, KeysFinite, SumsDiffer
  <2>5. QED
    BY <1>1, <2>3, <2>4
<1>4. QED
  BY <1>2, <1>3

\* Every report accepted is one trade of one quota.
BooksInv == OtherTypesOK /\ NoTradesWithoutQuota /\ TradesMatchReports

\* TradesMatchReports with the sum by name.
LEMMA BooksAre ==
  /\ TradesMatchReports <=>
       /\ processedReports = TotalTrades(quotas)
       /\ reportCount = processedReports + Len(postQueue) + IF Running THEN 0 ELSE 1
  /\ TradesMatchReports' <=>
       /\ processedReports' = TotalTrades(quotas')
       /\ reportCount' = processedReports' + Len(postQueue') + IF Running' THEN 0 ELSE 1
<1>1. TradesMatchReports <=>
        /\ processedReports = TotalTrades(quotas)
        /\ reportCount = processedReports + Len(postQueue) + IF Running THEN 0 ELSE 1
  BY Zenon DEF TradesMatchReports, TotalTrades
<1>2. TotalTrades(quotas') = MapThenSumSet(LAMBDA k : quotas'[k].trades, Keys)
  BY Zenon DEF TotalTrades
<1>3. MapThenSumSet(LAMBDA k : quotas[k].trades, Keys)' = TotalTrades(quotas')
  BY Zenon DEF TotalTrades, MapThenSumSet, MapThenFoldSet
<1>4. TradesMatchReports' <=>
        /\ processedReports' = MapThenSumSet(LAMBDA k : quotas[k].trades, Keys)'
        /\ reportCount' = processedReports' + Len(postQueue') + IF Running' THEN 0 ELSE 1
  BY Zenon DEF TradesMatchReports
<1>5. QED
  BY Zenon, <1>1, <1>3, <1>4

\* A step without a report keeps the books.
LEMMA SameBooks ==
  ASSUME BooksInv, quotas \in [Keys -> QuotaType], quotas' \in [Keys -> QuotaType],
         \A k \in Keys : quotas'[k].trades = quotas[k].trades /\ quotas'[k].exists = quotas[k].exists,
         UNCHANGED <<halted, processedReports>>,
         reportCount' - reportCount = Len(postQueue') - Len(postQueue),
         postQueue \in Seq(Reports), postQueue' \in Seq(Reports), reportCount' \in Nat
  PROVE  NoTradesWithoutQuota' /\ TradesMatchReports'
<1>1. TotalTrades(quotas') = TotalTrades(quotas)
  <2>1. CASE Keys = {}
    BY <2>1, TotalTradesOfNone
  <2>2. CASE Keys # {}
    <3>1. PICK k \in Keys : TRUE
      BY <2>2
    <3>2. \A x \in Keys : quotas'[x].trades = quotas[x].trades + IF x = k THEN 0 ELSE 0
      BY DEF QuotaType
    <3>3. TotalTrades(quotas') = TotalTrades(quotas) + 0
      BY <3>1, <3>2, TotalTradesFollows
    <3>4. processedReports = TotalTrades(quotas) /\ processedReports \in Nat
      BY BooksAre DEF BooksInv, OtherTypesOK
    <3>5. QED
      BY <3>3, <3>4
  <2>3. QED
    BY <2>1, <2>2
<1>2. /\ processedReports = TotalTrades(quotas)
      /\ reportCount = processedReports + Len(postQueue) + IF Running THEN 0 ELSE 1
  BY BooksAre DEF BooksInv
<1>3. Running' <=> Running
  BY DEF Running
<1>4. Len(postQueue) \in Nat /\ Len(postQueue') \in Nat /\ reportCount \in Nat
      /\ processedReports \in Nat
  BY BoundsAssumption DEF BooksInv, OtherTypesOK
<1> DEFINE e == IF Running THEN 0 ELSE 1
<1>5. reportCount' = processedReports' + Len(postQueue') + IF Running' THEN 0 ELSE 1
  <2>1. e \in Int /\ (IF Running' THEN 0 ELSE 1) = e /\ reportCount = processedReports + Len(postQueue) + e
    BY <1>2, <1>3
  <2>2. processedReports' = processedReports /\ reportCount' - reportCount = Len(postQueue') - Len(postQueue)
    OBVIOUS
  <2> HIDE DEF e
  <2>3. QED
    BY <1>4, <2>1, <2>2
<1>6. TradesMatchReports'
  BY <1>1, <1>2, <1>5, BooksAre
<1>7. QED
  BY <1>6 DEF BooksInv, NoTradesWithoutQuota

LEMMA BooksInvInit == Init => LoopInv /\ BooksInv
<1> SUFFICES ASSUME Init PROVE LoopInv /\ BooksInv
  OBVIOUS
<1>1. LoopInv
  BY LoopInvInit
<1>2. OtherTypesOK
  <2>1. halted \in Reports \cup {NoReport} /\ reportCount \in 0..MaxReports /\ processedReports \in Nat
    BY BoundsAssumption DEF Init
  <2>2. machine \in [Signals -> OrderStates \cup {NoOrder}]
        /\ exposed \in BOOLEAN /\ overridden \in BOOLEAN
    BY DEF Init
  <2>5. 0 \in -1..1 /\ avgSign = [k \in Keys |-> 0]
    BY DEF Init
  <2>6. avgSign \in [Keys -> -1..1]
    BY <2>5
  <2>3. orderQueue \in [Priorities -> Seq(Signals)]
    BY DEF Init, EmptyQueue
  <2>4. QED
    BY <2>1, <2>2, <2>3, <2>6 DEF OtherTypesOK
<1>3. quotas \in [Keys -> QuotaType] /\ \A k \in Keys : quotas[k].trades = 0
  BY DEF Init, NoQuota, QuotaType
<1>4. TotalTrades(quotas) = 0
  BY <1>3, TotalTradesOfNone
<1>5. TradesMatchReports
  BY <1>4, BooksAre DEF Init, Running
<1>6. QED
  BY <1>1, <1>2, <1>3, <1>5 DEF BooksInv, NoTradesWithoutQuota

LEMMA PushTyped ==
  ASSUME NEW q \in [Priorities -> Seq(Signals)], NEW s \in Signals
  PROVE  Push(q, s, DefaultPriority) \in [Priorities -> Seq(Signals)]
<1>1. 5 \in Priorities /\ q[5] \in Seq(Signals)
  BY DEF Priorities
<1>2. Push(q, s, DefaultPriority) = [q EXCEPT ![5] = Append(q[5], s)]
  BY <1>1 DEF Push, DefaultPriority
<1>3. Append(q[5], s) \in Seq(Signals)
  BY <1>1
<1>4. QED
  BY <1>1, <1>2, <1>3

LEMMA BooksInvSignal ==
  ASSUME LoopInv, BooksInv, ProcessSignal
  PROVE  BooksInv'
<1> DEFINE s == Head(preQueue)
<1>1. /\ halted' = halted /\ reportCount' = reportCount /\ postQueue' = postQueue
      /\ processedReports' = processedReports
  BY DEF ProcessSignal
<1>2. s \in Signals
  BY DEF LoopInv, LoopTypeOK, ProcessSignal, SignalTurn
<1>3. /\ lots' = lots /\ avgSign' = avgSign
      /\ \A k \in Keys : quotas'[k].exists = quotas[k].exists
      /\ quotas \in [Keys -> QuotaType] /\ quotas' \in [Keys -> QuotaType]
  BY SignalFacts DEF LoopInv, LoopTypeOK, QuotaType
<1> DEFINE Kept == \A k \in Keys : quotas'[k].trades = quotas[k].trades
<1> HIDE DEF s, Kept
<1>4. ASSUME Kept PROVE NoTradesWithoutQuota' /\ TradesMatchReports'
  <2>1. postQueue \in Seq(Reports) /\ postQueue' \in Seq(Reports) /\ reportCount \in Nat
    BY <1>1, BoundsAssumption DEF LoopInv, LoopTypeOK, BooksInv, OtherTypesOK
  <2>2. reportCount' - reportCount = Len(postQueue') - Len(postQueue)
    BY <1>1, <2>1
  <2>3. QED
    BY <1>1, <1>3, <1>4, <2>1, <2>2, SameBooks DEF Kept
<1>5. CASE s \in InitSignals
  <2>1. HandleInitSignal(s)
    BY <1>5 DEF ProcessSignal, s
  <2>2. machine' = machine /\ orderQueue' = orderQueue
    BY <2>1 DEF HandleInitSignal, orderVars
  <2>3. exposed' \in BOOLEAN /\ overridden' \in BOOLEAN
        /\ \A k \in Keys : quotas'[k].trades = quotas[k].trades
    <3>1. CASE Fails(s)
      BY <2>1, <3>1 DEF HandleInitSignal, BooksInv, OtherTypesOK
    <3>2. CASE ~Fails(s)
      <4>1. ApplySummary
        BY <2>1, <3>2 DEF HandleInitSignal
      <4>2. QED
        BY <1>3, <4>1 DEF ApplySummary, QuotaType
    <3>3. QED
      BY <3>1, <3>2
  <2>4. QED
    BY <1>1, <1>3, <1>4, <2>2, <2>3 DEF BooksInv, OtherTypesOK, Kept
<1>6. CASE s \notin InitSignals
  <2>1. PICK inTime \in BOOLEAN : HandleOrderSignal(s, inTime)
    BY <1>6 DEF ProcessSignal, s
  <2>2. UNCHANGED sharedVars
    BY <2>1 DEF HandleOrderSignal
  <2>3. machine' \in [Signals -> OrderStates \cup {NoOrder}]
        /\ orderQueue' \in [Priorities -> Seq(Signals)]
    <3>1. CASE CreateAndValidate(s)
      BY <1>2, <3>1, PushTyped DEF CreateAndValidate, BooksInv, OtherTypesOK, OrderStates
    <3>2. CASE UNCHANGED orderVars
      BY <3>2 DEF orderVars, BooksInv, OtherTypesOK
    <3>3. QED
      BY <2>1, <3>1, <3>2 DEF HandleOrderSignal
  <2>4. QED
    BY <1>1, <1>3, <1>4, <2>2, <2>3 DEF sharedVars, positionVars, BooksInv, OtherTypesOK, Kept
<1>7. QED
  BY <1>5, <1>6

LEMMA AvgSignTyped ==
  ASSUME NEW avg \in -1..1, NEW q \in Int, NEW f \in Nat
  PROVE  NewAvgSigns(avg, q, f) \subseteq -1..1
  BY DEF NewAvgSigns

LEMMA BooksInvReport ==
  ASSUME LoopInv, BooksInv, ProcessReport
  PROVE  BooksInv'
<1> DEFINE r == Head(postQueue)
<1>1. /\ postQueue # <<>> /\ postQueue' = Tail(postQueue) /\ Running /\ reportCount' = reportCount
      /\ machine' = machine /\ orderQueue' = orderQueue
  BY DEF ProcessReport, orderVars
<1>2. postQueue \in Seq(Reports) /\ lots \in [Keys -> Int] /\ quotas \in [Keys -> QuotaType]
  BY DEF LoopInv, LoopTypeOK, QuotaType
<1>3. /\ r \in Reports /\ Len(postQueue') = Len(postQueue) - 1
      /\ Len(postQueue) \in Nat /\ Len(postQueue') \in Nat
  BY <1>1, <1>2
<1>4. /\ processedReports = TotalTrades(quotas)
      /\ reportCount = processedReports + Len(postQueue)
      /\ processedReports \in Nat /\ reportCount \in Nat
  BY <1>1, BooksAre, BoundsAssumption DEF BooksInv, OtherTypesOK
<1>5. CASE ~Accepted(r)
  <2>1. halted' = r /\ UNCHANGED sharedVars /\ processedReports' = processedReports
    BY <1>5 DEF ProcessReport
  <2>2. ~Running' /\ r # NoReport
    BY <1>3, <2>1, MessagesAssumption DEF Running
  <2>3. quotas' = quotas /\ avgSign' = avgSign /\ exposed' = exposed /\ overridden' = overridden
    BY <2>1 DEF sharedVars, positionVars
  <2>4. TradesMatchReports'
    BY <1>1, <1>3, <1>4, <2>1, <2>2, <2>3, BooksAre
  <2>5. QED
    BY <1>1, <1>3, <2>1, <2>3, <2>4 DEF BooksInv, OtherTypesOK, NoTradesWithoutQuota
<1>6. CASE Accepted(r)
  <2>1. /\ UpdatePosition(r) /\ RecomputeExposure /\ UpdateRiskQuota(r)
        /\ processedReports' = processedReports + 1 /\ halted' = halted
    BY <1>6 DEF ProcessReport
  <2>2. r.ticker \in Keys /\ r.filled \in Nat
    BY <1>3, MessagesAssumption DEF Keys
  <2> HIDE DEF r
  <2>3. avgSign' \in [Keys -> -1..1]
    <3>1. CASE r.side = "Buy"
      <4>1. PICK a \in NewAvgSigns(avgSign[r.ticker], lots[r.ticker], r.filled) :
              avgSign' = [avgSign EXCEPT ![r.ticker] = a]
        BY <2>1, <3>1 DEF UpdatePosition
      <4>2. a \in -1..1
        BY <1>2, <2>2, <4>1, AvgSignTyped DEF BooksInv, OtherTypesOK
      <4>3. QED
        BY <4>1, <4>2 DEF BooksInv, OtherTypesOK
    <3>2. CASE r.side # "Buy"
      BY <2>1, <3>2 DEF UpdatePosition, BooksInv, OtherTypesOK
    <3>3. QED
      BY <3>1, <3>2
  <2>4. exposed' \in BOOLEAN /\ overridden' \in BOOLEAN
    BY <2>1 DEF RecomputeExposure, HasExposure
  <2> DEFINE q == IF quotas[r.ticker].exists THEN quotas[r.ticker] ELSE NewQuota
             n == [q EXCEPT !.used = @ + r.filled, !.trades = @ + 1]
  <2>5. quotas' = [quotas EXCEPT ![r.ticker] = n]
    BY <2>1 DEF UpdateRiskQuota
  <2>6. q \in QuotaType /\ q.exists /\ q.trades = quotas[r.ticker].trades
    <3>1. CASE quotas[r.ticker].exists
      BY <1>2, <2>2, <3>1
    <3>2. CASE ~quotas[r.ticker].exists
      BY <2>2, <3>2 DEF BooksInv, NoTradesWithoutQuota, NewQuota, NoQuota, QuotaType
    <3>3. QED
      BY <3>1, <3>2
  <2> HIDE DEF q
  <2>7. n \in QuotaType /\ n.exists /\ n.trades = q.trades + 1
    <3>1. q.used + r.filled \in Nat /\ q.trades + 1 \in Nat
      BY <2>2, <2>6 DEF QuotaType
    <3>2. QED
      BY <2>6, <3>1 DEF QuotaType
  <2> HIDE DEF n
  <2>8. quotas' \in [Keys -> QuotaType]
        /\ \A x \in Keys : quotas'[x] = IF x = r.ticker THEN n ELSE quotas[x]
    BY <1>2, <2>2, <2>5, <2>7
  <2>9. \A x \in Keys : quotas'[x].trades = quotas[x].trades + IF x = r.ticker THEN 1 ELSE 0
    <3> SUFFICES ASSUME NEW x \in Keys
                 PROVE  quotas'[x].trades = quotas[x].trades + IF x = r.ticker THEN 1 ELSE 0
      OBVIOUS
    <3>1. quotas[x].trades \in Nat
      BY <1>2 DEF QuotaType
    <3>2. QED
      BY <2>6, <2>7, <2>8, <3>1
  <2>10. TotalTrades(quotas') = TotalTrades(quotas) + 1
    <3>1. 1 \in Int
      OBVIOUS
    <3>2. QED
      BY <1>2, <2>2, <2>8, <2>9, <3>1, TotalTradesFollows
  <2>11. Running'
    BY <1>1, <2>1 DEF Running
  <2>12. TradesMatchReports'
    BY <1>1, <1>3, <1>4, <2>1, <2>10, <2>11, BooksAre
  <2>13. NoTradesWithoutQuota'
    BY <2>7, <2>8 DEF NoTradesWithoutQuota, BooksInv
  <2>14. QED
    BY <1>1, <1>4, <2>1, <2>3, <2>4, <2>12, <2>13 DEF BooksInv, OtherTypesOK
<1>7. QED
  BY <1>5, <1>6

LEMMA BooksInvNext == LoopInv /\ BooksInv /\ [Next]_vars => BooksInv'
<1> SUFFICES ASSUME LoopInv, BooksInv, [Next]_vars PROVE BooksInv'
  OBVIOUS
<1>1. quotas \in [Keys -> QuotaType] /\ postQueue \in Seq(Reports) /\ reportCount \in Nat
  BY BoundsAssumption DEF LoopInv, LoopTypeOK, QuotaType, BooksInv, OtherTypesOK
<1>2. ASSUME UNCHANGED <<halted, reportCount, postQueue, orderVars, sharedVars, processedReports>>
      PROVE  BooksInv'
  <2>1. quotas' = quotas /\ postQueue' = postQueue /\ reportCount' = reportCount
    BY <1>2 DEF sharedVars
  <2>2. Len(postQueue') - Len(postQueue) = reportCount' - reportCount
    BY <1>1, <2>1
  <2>3. NoTradesWithoutQuota' /\ TradesMatchReports'
    BY <1>1, <1>2, <2>1, <2>2, SameBooks
  <2>4. QED
    BY <1>2, <2>3 DEF BooksInv, OtherTypesOK, orderVars, sharedVars, positionVars
<1>3. ASSUME NEW r \in Reports, PollReport(r) PROVE BooksInv'
  <2>1. /\ quotas' = quotas /\ postQueue' = Append(postQueue, r) /\ reportCount' = reportCount + 1
        /\ UNCHANGED <<halted, orderVars, sharedVars, processedReports>> /\ reportCount < MaxReports
    BY <1>3 DEF PollReport, sharedVars
  <2>2. postQueue' \in Seq(Reports) /\ Len(postQueue') = Len(postQueue) + 1 /\ Len(postQueue) \in Nat
    BY <1>1, <2>1
  <2>3. Len(postQueue') - Len(postQueue) = reportCount' - reportCount /\ reportCount' \in 0..MaxReports
    BY <1>1, <2>1, <2>2, BoundsAssumption
  <2>4. NoTradesWithoutQuota' /\ TradesMatchReports'
    BY <1>1, <2>1, <2>2, <2>3, SameBooks
  <2>5. QED
    BY <2>1, <2>3, <2>4 DEF BooksInv, OtherTypesOK, orderVars, sharedVars, positionVars
<1>4. CASE \E s \in Signals : PollSignal(s)
  BY <1>2, <1>4 DEF PollSignal
<1>5. CASE Cleanup
  BY <1>2, <1>5 DEF Cleanup
<1>6. CASE UNCHANGED vars
  BY <1>2, <1>6 DEF vars
<1>7. QED
  BY <1>3, <1>4, <1>5, <1>6, BooksInvSignal, BooksInvReport DEF Next

-----------------------------------------------------------------------------
(* The risk state of the loop                                              *)

LastSuccessIn(history) == Max({0} \cup {i \in DOMAIN history : ~Fails(history[i])})

\* The records of the symbols after the first n inits.
ShownAfter(history, n) == [k \in Names |-> Expected(SubSeq(history, 1, n), k)]

Shown == ShownAfter(inits, LastSuccessIn(inits))

\* The loop holds the records as the last success left them, with the day's counts
\* or without, and the metrics of the initializer.
RiskStateShown == \E x \in {Shown, DailyReset(Shown)} : riskState = [symbols |-> x, metrics |-> metrics]

RiskInv == InitializerInv /\ Shown \in SymbolTable /\ RiskStateShown

LEMMA LastSuccessOfAppend ==
  ASSUME NEW h \in Seq(InitSignals), NEW s \in InitSignals
  PROVE  /\ LastSuccessIn(h) \in 0..Len(h)
         /\ LastSuccessIn(Append(h, s)) = IF Fails(s) THEN LastSuccessIn(h) ELSE Len(h) + 1
<1> DEFINE n == Len(h)
           h2 == Append(h, s)
           I == {i \in DOMAIN h : ~Fails(h[i])}
           I2 == {i \in DOMAIN h2 : ~Fails(h2[i])}
<1>1. /\ n \in Nat /\ DOMAIN h = 1..n /\ DOMAIN h2 = 1..(n + 1)
      /\ \A i \in 1..n : h2[i] = h[i]
      /\ h2[n + 1] = s
  BY AppendFacts
<1>2. I \in SUBSET (1..n)
  BY <1>1
<1>3. LastSuccessIn(h) = Max({0} \cup I) /\ LastSuccessIn(h2) = Max({0} \cup I2)
  BY DEF LastSuccessIn
<1> HIDE DEF n, h2
<1>4. I2 = IF Fails(s) THEN I ELSE I \cup {n + 1}
  <2>1. 1..(n + 1) = (1..n) \cup {n + 1} /\ n + 1 \notin 1..n
    BY <1>1
  <2>2. ASSUME NEW i PROVE i \in I2 <=> i \in I \/ (i = n + 1 /\ ~Fails(s))
    BY <1>1, <2>1
  <2>3. CASE Fails(s)
    BY <2>2, <2>3
  <2>4. CASE ~Fails(s)
    BY <2>2, <2>4
  <2>5. QED
    BY <2>3, <2>4
<1> HIDE DEF I, I2
<1>5. Max({0} \cup I) \in 0..n
  BY <1>1, <1>2, LastIndexFacts
<1>6. Max({0} \cup I \cup {n + 1}) = n + 1
  BY <1>1, <1>2, LastIndexGrows
<1>7. {0} \cup I \cup {n + 1} = {0} \cup (I \cup {n + 1})
  OBVIOUS
<1>8. QED
  BY <1>3, <1>4, <1>5, <1>6, <1>7 DEF n, h2

\* An init that fails leaves what is shown, one that succeeds shows all there is.
LEMMA ShownOfAppend ==
  ASSUME NEW h \in Seq(InitSignals), NEW s \in InitSignals
  PROVE  ShownAfter(Append(h, s), LastSuccessIn(Append(h, s))) =
           IF Fails(s) THEN ShownAfter(h, LastSuccessIn(h))
           ELSE [k \in Names |-> Expected(Append(h, s), k)]
<1> DEFINE h2 == Append(h, s)
<1>1. h2 \in Seq(InitSignals) /\ Len(h2) = Len(h) + 1 /\ Len(h) \in Nat
  OBVIOUS
<1>2. ASSUME NEW n \in 0..Len(h) PROVE SubSeq(h2, 1, n) = SubSeq(h, 1, n)
  BY <1>1
<1>3. SubSeq(h2, 1, Len(h) + 1) = h2
  BY <1>1
<1> HIDE DEF h2
<1>4. /\ LastSuccessIn(h) \in 0..Len(h)
      /\ LastSuccessIn(h2) = IF Fails(s) THEN LastSuccessIn(h) ELSE Len(h) + 1
  BY LastSuccessOfAppend DEF h2
<1>5. CASE Fails(s)
  <2>1. SubSeq(h2, 1, LastSuccessIn(h2)) = SubSeq(h, 1, LastSuccessIn(h))
    BY <1>2, <1>4, <1>5
  <2>2. ShownAfter(h2, LastSuccessIn(h2)) = ShownAfter(h, LastSuccessIn(h))
    BY <2>1 DEF ShownAfter
  <2>3. QED
    BY <1>5, <2>2 DEF h2
<1>6. CASE ~Fails(s)
  <2>1. SubSeq(h2, 1, LastSuccessIn(h2)) = h2
    BY <1>3, <1>4, <1>6
  <2>2. ShownAfter(h2, LastSuccessIn(h2)) = [k \in Names |-> Expected(h2, k)]
    BY <2>1 DEF ShownAfter
  <2>3. QED
    BY <1>6, <2>2 DEF h2
<1>7. QED
  BY <1>5, <1>6

\* A second reset of the day changes nothing.
LEMMA DailyResetTwice ==
  ASSUME NEW table \in SymbolTable
  PROVE  DailyReset(DailyReset(table)) = DailyReset(table)
<1>1. \A k \in Names : table[k] \in SymbolRecord
  BY DEF SymbolTable
<1>2. \A k \in Names : [[table[k] EXCEPT !.trades = 0] EXCEPT !.trades = 0] = [table[k] EXCEPT !.trades = 0]
  BY <1>1 DEF SymbolRecord
<1>3. \A k \in Names : DailyReset(table)[k] = [table[k] EXCEPT !.trades = 0]
  BY DEF DailyReset
<1>4. DailyReset(DailyReset(table)) = [k \in Names |-> [DailyReset(table)[k] EXCEPT !.trades = 0]]
  BY DEF DailyReset
<1>5. DailyReset(DailyReset(table)) = [k \in Names |-> [table[k] EXCEPT !.trades = 0]]
  BY <1>2, <1>3, <1>4
<1>6. QED
  BY <1>5 DEF DailyReset

LEMMA RiskInvInit == Init => RiskInv
<1> SUFFICES ASSUME Init PROVE RiskInv
  OBVIOUS
<1>1. InitializerInv
  BY InitializerStarts DEF Init
<1>2. /\ inits = <<>> /\ symbolStates = [k \in Names |-> NoSymbol]
      /\ riskState = [symbols |-> symbolStates, metrics |-> metrics]
  BY DEF Init, InitRisk
<1>3. LastSuccessIn(<<>>) = 0
  <2>1. {i \in DOMAIN <<>> : ~Fails(<<>>[i])} = {} /\ {} \in SUBSET (1..0)
    OBVIOUS
  <2>2. Max({0} \cup {}) = 0
    BY LastIndexFacts
  <2>3. QED
    BY <2>1, <2>2 DEF LastSuccessIn
<1>4. SubSeq(<<>>, 1, 0) = <<>>
  OBVIOUS
<1>5. Shown = symbolStates
  <2>1. Shown = [k \in Names |-> Expected(<<>>, k)]
    BY <1>2, <1>3, <1>4 DEF Shown, ShownAfter
  <2>2. QED
    BY <1>2, <2>1, NothingExpected
<1>6. QED
  BY <1>1, <1>2, <1>5 DEF RiskInv, RiskStateShown, InitializerInv, InitializerTypes

\* What an init does to the records the loop shows.
LEMMA RiskInvInitSignal ==
  ASSUME RiskInv, NEW s \in InitSignals, HandleInitSignal(s)
  PROVE  RiskInv'
<1>1. /\ InitializerInv /\ inits \in Seq(InitSignals) /\ Shown \in SymbolTable
      /\ ProcessInit(s)
  BY DEF RiskInv, InitializerInv, InitializerTypes, HandleInitSignal
<1>2. InitializerInv'
  BY <1>1, ProcessInitPreserves
<1>3. inits' = Append(inits, s)
  BY <1>1 DEF ProcessInit
<1>4. Shown' = ShownAfter(inits', LastSuccessIn(inits'))
  BY DEF Shown, ShownAfter, LastSuccessIn
<1>5. Shown' = IF Fails(s) THEN Shown ELSE [k \in Names |-> Expected(inits', k)]
  BY <1>1, <1>3, <1>4, ShownOfAppend DEF Shown
<1>6. CASE Fails(s)
  <2>1. metrics' = metrics
    BY <1>1, <1>6 DEF ProcessInit, calculatorVars
  <2>2. riskState' = riskState
    BY <1>6 DEF HandleInitSignal
  <2>3. RiskStateShown'
    BY <1>5, <1>6, <2>1, <2>2 DEF RiskInv, RiskStateShown
  <2>4. QED
    BY <1>1, <1>2, <1>5, <1>6, <2>3 DEF RiskInv
<1>7. CASE ~Fails(s)
  <2>1. symbolStates' \in SymbolTable /\ \A k \in Names : symbolStates'[k] = Expected(inits', k)
    BY <1>2 DEF InitializerInv, InitializerTypes
  <2>2. Shown' = symbolStates'
    BY <1>5, <1>7, <2>1 DEF SymbolTable
  <2>3. riskState' = [symbols |-> symbolStates', metrics |-> metrics']
    BY <1>7 DEF HandleInitSignal, CloneRiskState
  <2>4. RiskStateShown'
    BY <2>2, <2>3 DEF RiskStateShown
  <2>5. QED
    BY <1>2, <2>1, <2>2, <2>4 DEF RiskInv
<1>8. QED
  BY <1>6, <1>7

LEMMA RiskInvNext == LoopInv /\ RiskInv /\ [Next]_vars => RiskInv'
<1> SUFFICES ASSUME LoopInv, RiskInv, [Next]_vars PROVE RiskInv'
  OBVIOUS
<1>1. ASSUME UNCHANGED initVars, Shown' = Shown,
             riskState' = riskState \/ riskState' = [riskState EXCEPT !.symbols = DailyReset(@)]
      PROVE  RiskInv'
  <2>1. InitializerInv'
    BY <1>1 DEF RiskInv, InitializerInv, InitializerTypes, MetricsCurrent, initVars, ruleVars, calculatorVars
  <2>2. PICK x \in {Shown, DailyReset(Shown)} : riskState = [symbols |-> x, metrics |-> metrics]
    BY DEF RiskInv, RiskStateShown
  <2>3. DailyReset(x) = DailyReset(Shown)
    BY <2>2, DailyResetTwice DEF RiskInv
  <2>4. \/ riskState' = [symbols |-> x, metrics |-> metrics]
        \/ riskState' = [symbols |-> DailyReset(Shown), metrics |-> metrics]
    BY <1>1, <2>2, <2>3
  <2>5. metrics' = metrics /\ DailyReset(Shown)' = DailyReset(Shown)
    BY <1>1 DEF initVars, calculatorVars, DailyReset
  <2>6. RiskStateShown'
    BY <1>1, <2>2, <2>4, <2>5 DEF RiskStateShown
  <2>7. QED
    BY <1>1, <2>1, <2>6 DEF RiskInv
<1>2. UNCHANGED initVars => Shown' = Shown
  BY DEF initVars, Shown, ShownAfter, LastSuccessIn
<1>3. CASE UNCHANGED riskVars
  BY <1>1, <1>2, <1>3 DEF riskVars
<1>4. CASE Cleanup
  BY <1>1, <1>2, <1>4 DEF Cleanup
<1>5. CASE ProcessSignal
  <2>1. CASE Head(preQueue) \in InitSignals
    BY <1>5, <2>1, RiskInvInitSignal DEF ProcessSignal
  <2>2. CASE Head(preQueue) \notin InitSignals
    BY <1>3, <1>5, <2>2 DEF ProcessSignal, HandleOrderSignal
  <2>3. QED
    BY <2>1, <2>2
<1>6. CASE ~Cleanup /\ ~ProcessSignal
  BY <1>3, <1>6 DEF Next, PollSignal, PollReport, ProcessReport, vars
<1>7. QED
  BY <1>4, <1>5, <1>6

-----------------------------------------------------------------------------
(* The theorems                                                            *)

\* The strengthened invariant of the loop: no quota and no position is ever kept
\* under a name a signal is checked by.
THEOREM LoopInvAlways == Spec => []LoopInv
  BY LoopInvInit, LoopInvNext, PTL DEF Spec

\* Every signal that arrived is in the queue or was processed, exactly once, for
\* any signals and any answers of the pipeline.
THEOREM SignalsAccountedAlways == Spec => []SignalsAccounted
<1>1. LoopInv => SignalsAccounted
  BY DEF LoopInv
<1>2. QED
  BY <1>1, LoopInvAlways, PTL

\* The exposure the risk check reads is the one of the positions unless a risk
\* init has overwritten it since the last report.
THEOREM ExposureIsCurrentAlways == Spec => []ExposureIsCurrent
<1>1. LoopInv => ExposureIsCurrent
  BY DEF LoopInv
<1>2. QED
  BY <1>1, LoopInvAlways, PTL

\* The books and what they rest on, for any reports in any order.
THEOREM BooksInvAlways == Spec => []BooksInv
<1>1. Init => LoopInv /\ BooksInv
  BY BooksInvInit
<1>2. LoopInv /\ BooksInv /\ [Next]_vars => (LoopInv /\ BooksInv)'
  BY LoopInvNext, BooksInvNext
<1>3. QED
  BY <1>1, <1>2, PTL DEF Spec

\* The quotas count exactly the reports the order manager accepted and cover every
\* position, for any symbols, orders and reports: what ends the process has booked
\* no trade.
THEOREM BooksMatchReportsAlways == Spec => []BooksMatchReports
<1>1. LoopInv /\ BooksInv => BooksMatchReports
  BY DEF LoopInv, BooksInv, BooksMatchReports
<1>2. QED
  BY <1>1, LoopInvAlways, BooksInvAlways, PTL

\* The initializer's state explained by the inits processed, and the loop's copy of
\* it by those up to the last success.
THEOREM RiskInvAlways == Spec => []RiskInv
<1>1. RiskInv /\ LoopInv /\ [Next]_vars => RiskInv'
  BY RiskInvNext
<1>2. QED
  BY <1>1, RiskInvInit, LoopInvAlways, PTL DEF Spec

\* The records of the symbols and the rules are what the inits processed say, and
\* the loop shows those up to the last success, for any requests.
THEOREM InitsExplainRiskStateAlways == Spec => []InitsExplainRiskState
<1>1. RiskInv => InitsExplainRiskState
  <2> SUFFICES ASSUME RiskInv PROVE InitsExplainRiskState
    OBVIOUS
  <2>1. LastSuccess = LastSuccessIn(inits)
    BY DEF LastSuccess, LastSuccessIn
  <2>2. Shown = [k \in Names |-> Expected(SubSeq(inits, 1, LastSuccess), k)]
    BY <2>1 DEF Shown, ShownAfter
  <2>3. PICK x \in {Shown, DailyReset(Shown)} : riskState = [symbols |-> x, metrics |-> metrics]
    BY DEF RiskInv, RiskStateShown
  <2>4. riskState.symbols \in {Shown, DailyReset(Shown)} /\ riskState.metrics = metrics
    BY <2>3
  <2>5. QED
    BY <2>2, <2>4 DEF RiskInv, InitializerInv, InitsExplainRiskState
<1>2. QED
  BY <1>1, RiskInvAlways, PTL

\* Total, profit and loss, greatest fall and exposures are those of the window as it
\* is, for any data of any length and any size of the window.
THEOREM MetricsMatchHistoryAlways == Spec => []MetricsMatchHistory
<1>1. RiskInv => MetricsMatchHistory
  <2> SUFFICES ASSUME RiskInv PROVE MetricsMatchHistory
    OBVIOUS
  <2>1. InitializerInv
    BY DEF RiskInv
  <2>2. metrics = IF cachedMetrics = {} THEN NoMetrics ELSE CHOOSE m \in cachedMetrics : TRUE
    BY <2>1 DEF InitializerInv, MetricsCurrent
  <2>3. QED
    BY <2>1, <2>2, MetricsMeanWhatTheySay DEF MetricsMatchHistory
<1>2. QED
  BY <1>1, RiskInvAlways, PTL

\* The types of the whole loop: its queues, its orders, what it shares with the
\* pipelines and the initializer.
THEOREM TypeOKAlways == Spec => []TypeOK
<1>1. LoopInv /\ BooksInv /\ RiskInv => TypeOK
  BY InitializerTyped DEF LoopInv, LoopTypeOK, BooksInv, OtherTypesOK, RiskInv, TypeOK
<1>2. QED
  BY <1>1, LoopInvAlways, BooksInvAlways, RiskInvAlways, PTL

\* No order is made while the positions are exposed and the exposure is current.
THEOREM NoOrderWhenExposedAlways == Spec => NoOrderWhenExposed
<1>1. LoopInv /\ [Next]_vars =>
        [(HasExposure(lots, avgSign) /\ ~overridden) => machine' = machine]_vars
  <2> SUFFICES ASSUME LoopInv, Next, HasExposure(lots, avgSign), ~overridden
               PROVE  machine' = machine
    OBVIOUS
  <2>1. exposed
    BY DEF LoopInv, ExposureIsCurrent
  <2>2. CASE ProcessSignal
    BY <2>1, <2>2 DEF ProcessSignal, HandleInitSignal, HandleOrderSignal, RiskCheck, orderVars
  <2>3. CASE ~ProcessSignal
    BY <2>3 DEF Next, PollSignal, PollReport, ProcessReport, Cleanup, orderVars
  <2>4. QED
    BY <2>2, <2>3
<1>2. QED
  BY <1>1, LoopInvAlways, PTL DEF Spec, NoOrderWhenExposed
=============================================================================
