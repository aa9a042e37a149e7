--------------------------- MODULE ExecutorProofs ---------------------------
(***************************************************************************)
(* The safety properties of Executor for any set of tasks, of client order *)
(* ids and of connections, and any selection among the healthy ones.       *)
(***************************************************************************)
EXTENDS Executor, TLAPS

\* A task out of attempts does not wait for another one.
AttemptsLeft ==
  \A t \in Tasks :
    /\ phase[t] = "Idle" => attempt[t] = 0
    /\ phase[t] = "Waiting" => attempt[t] < MaxAttempts

\* While it sends, a task has no copies but those of this attempt, because an
\* attempt that is followed by another one left none.
CopiesAreResponses ==
  \A t \in Tasks :
    /\ outstanding[t] # {} => phase[t] = "Sending"
    /\ phase[t] = "Sending" => copies[t] = responses[t]
    /\ result[t] = "Ok" => phase[t] = "Done"

\* What a history of successes and failures can leave: a failure since the last
\* success is one of all failures, and before the first success all of them are.
HistoryOf(m) ==
  /\ m.messages \in Nat /\ m.errors \in Nat /\ m.failures \in Nat /\ m.rttScore \in RttScores
  /\ m.failures <= m.errors
  /\ m.messages = 0 => m.failures = m.errors /\ m.rttScore = 30

MetricsAreHistories == \A c \in Conns : metrics[c] = NoMetrics \/ HistoryOf(metrics[c])

ExecutorInv == TypeOK /\ AttemptsLeft /\ CopiesAreResponses /\ FailedMeansNotSent
                 /\ MetricsAreHistories

-----------------------------------------------------------------------------
(* Metrics                                                                 *)

LEMMA NewFacts == NewMetrics \in MetricsType /\ HistoryOf(NewMetrics)
  BY DEF NewMetrics, MetricsType, HistoryOf, RttScores

LEMMA NoMetricsFacts == NoMetrics \in MetricsType /\ ~HistoryOf(NoMetrics)
  BY DEF NoMetrics, MetricsType, HistoryOf

LEMMA SucceedFacts ==
  ASSUME NEW m \in MetricsType, HistoryOf(m), NEW score \in RttScores
  PROVE  MetricsSucceed(m, score) \in MetricsType /\ HistoryOf(MetricsSucceed(m, score))
<1> DEFINE messages == m.messages + 1
           counted == [m EXCEPT !.messages = messages]
           r == [counted EXCEPT !.failures = 0, !.rttScore = score]
<1>1. messages \in Nat \ {0} /\ score \in Nat
  BY DEF HistoryOf, RttScores
<1>2. r = MetricsSucceed(m, score)
  BY DEF MetricsSucceed, MetricsType
<1> HIDE DEF messages
<1>3. /\ counted \in MetricsType
      /\ counted.messages = messages /\ counted.errors = m.errors
  BY <1>1 DEF MetricsType
<1> HIDE DEF counted
<1>4. /\ r \in MetricsType /\ r.messages = counted.messages /\ r.errors = counted.errors
      /\ r.failures = 0 /\ r.rttScore = score
  BY <1>1, <1>3 DEF MetricsType
<1> HIDE DEF r
<1>5. HistoryOf(r)
  BY <1>1, <1>3, <1>4 DEF HistoryOf
<1>6. QED
  BY <1>2, <1>4, <1>5

LEMMA FailFacts ==
  ASSUME NEW m \in MetricsType, HistoryOf(m)
  PROVE  MetricsFail(m) \in MetricsType /\ HistoryOf(MetricsFail(m))
<1> DEFINE errors == m.errors + 1
           failures == m.failures + 1
           r == [m EXCEPT !.errors = errors, !.failures = failures]
<1>1. errors \in Nat /\ failures \in Nat /\ failures <= errors
      /\ (m.messages = 0 => failures = errors)
  BY DEF HistoryOf
<1>2. r = MetricsFail(m)
  BY DEF MetricsFail
<1> HIDE DEF errors, failures
<1>3. r \in MetricsType /\ r.messages = m.messages /\ r.errors = errors
      /\ r.failures = failures /\ r.rttScore = m.rttScore
  BY <1>1 DEF MetricsType
<1> HIDE DEF r
<1>4. HistoryOf(r)
  BY <1>1, <1>3 DEF HistoryOf
<1>5. QED
  BY <1>2, <1>3, <1>4

LEMMA TrackPreserves ==
  ASSUME metrics \in [Conns -> MetricsType], MetricsAreHistories,
         NEW c \in Conns, NEW m, Track(c, m),
         HistoryOf(metrics[c]) => m \in MetricsType /\ HistoryOf(m)
  PROVE  metrics' \in [Conns -> MetricsType] /\ MetricsAreHistories'
<1>1. CASE metrics[c] = NoMetrics
  BY <1>1 DEF Track, MetricsAreHistories
<1>2. CASE metrics[c] # NoMetrics
  <2>1. metrics' = [metrics EXCEPT ![c] = m] /\ m \in MetricsType /\ HistoryOf(m)
    BY <1>2 DEF Track, MetricsAreHistories
  <2>2. QED
    BY <2>1 DEF MetricsAreHistories
<1>3. QED
  BY <1>1, <1>2

-----------------------------------------------------------------------------
(* The steps                                                               *)

LEMMA ExecutorInvInit == Init => ExecutorInv
<1> SUFFICES ASSUME Init PROVE ExecutorInv
  OBVIOUS
<1>1. TypeOK
  BY NoMetricsFacts, ConnsAssumption, BoundsAssumption DEF Init, TypeOK
<1>2. AttemptsLeft /\ CopiesAreResponses /\ FailedMeansNotSent /\ MetricsAreHistories
  BY DEF Init, AttemptsLeft, CopiesAreResponses, FailedMeansNotSent, MetricsAreHistories
<1>3. QED
  BY <1>1, <1>2 DEF ExecutorInv

\* The end of an attempt with a verdict that the copies sent justify.
LEMMA EndAttemptPreserves ==
  ASSUME ExecutorInv, NEW t \in Tasks, NEW tried \in 1..MaxAttempts,
         NEW verdict \in {"Ok", "Failed", "Duplicate", "NoSigner", "NoConnection"},
         EndAttempt(t, tried, verdict), attempt' = [attempt EXCEPT ![t] = tried],
         verdict = "Ok" <=> copies[t] # {}, outstanding[t] = {},
         UNCHANGED <<outstanding, responses, copies, metrics, registered>>
  PROVE  /\ phase' \in [Tasks -> {"Idle", "Sending", "Waiting", "Done"}]
         /\ attempt' \in [Tasks -> 0..MaxAttempts]
         /\ result' \in [Tasks -> {"None", "Ok", "Failed", "Duplicate", "NoSigner", "NoConnection"}]
         /\ AttemptsLeft' /\ CopiesAreResponses' /\ FailedMeansNotSent' /\ MetricsAreHistories'
<1> USE ConnsAssumption DEF ExecutorInv, EndAttempt, RetriesAgain
<1>1. /\ phase' \in [Tasks -> {"Idle", "Sending", "Waiting", "Done"}]
      /\ attempt' \in [Tasks -> 0..MaxAttempts]
      /\ result' \in [Tasks -> {"None", "Ok", "Failed", "Duplicate", "NoSigner", "NoConnection"}]
  BY DEF TypeOK
<1>2. AttemptsLeft'
  BY DEF TypeOK, AttemptsLeft
<1>3. CopiesAreResponses'
  BY DEF TypeOK, CopiesAreResponses
<1>4. FailedMeansNotSent'
  BY DEF TypeOK, FailedMeansNotSent
<1>5. MetricsAreHistories'
  BY DEF MetricsAreHistories
<1>6. QED
  BY <1>1, <1>2, <1>3, <1>4, <1>5

LEMMA ExecutePreserves ==
  ASSUME ExecutorInv, NEW t \in Tasks, Execute(t)
  PROVE  ExecutorInv'
<1> USE DEF ExecutorInv
<1>1. attempt[t] \in Nat /\ attempt[t] + 1 \in 1..MaxAttempts
  BY ConnsAssumption DEF Execute, TypeOK, AttemptsLeft
<1>2. /\ attempt' = [attempt EXCEPT ![t] = attempt[t] + 1]
      /\ UNCHANGED <<copies, metrics, registered>>
  BY DEF Execute
<1>3. usedIds' \subseteq Tasks \X Nat
  <2>1. CASE IdOf[t] = NoId
    <3>1. usedIds' = usedIds \cup {<<t, attempt[t] + 1>>}
      BY <2>1 DEF Execute, TakeId, IdFor
    <3>2. QED
      BY <3>1, <1>1 DEF TypeOK
  <2>2. CASE IdOf[t] # NoId
    BY <2>2 DEF Execute, TakeId, TypeOK
  <2>3. QED
    BY <2>1, <2>2
<1>4. copies[t] = {} /\ outstanding[t] = {} /\ result[t] # "Ok"
  BY DEF Execute, CopiesAreResponses, FailedMeansNotSent
<1>5. CASE \E verdict \in {"Duplicate", "NoSigner", "NoConnection"} :
             EndAttempt(t, attempt[t] + 1, verdict) /\ UNCHANGED <<outstanding, responses>>
  <2>1. PICK verdict \in {"Duplicate", "NoSigner", "NoConnection"} :
          EndAttempt(t, attempt[t] + 1, verdict) /\ UNCHANGED <<outstanding, responses>>
    BY <1>5
  <2>2. verdict \in {"Ok", "Failed", "Duplicate", "NoSigner", "NoConnection"}
        /\ (verdict = "Ok" <=> copies[t] # {})
    BY <1>4
  <2> DEFINE tried == attempt[t] + 1
  <2>3. tried \in 1..MaxAttempts /\ attempt' = [attempt EXCEPT ![t] = tried]
        /\ EndAttempt(t, tried, verdict)
    BY <1>1, <1>2, <2>1
  <2> HIDE DEF tried
  <2>4. /\ phase' \in [Tasks -> {"Idle", "Sending", "Waiting", "Done"}]
        /\ attempt' \in [Tasks -> 0..MaxAttempts]
        /\ result' \in [Tasks -> {"None", "Ok", "Failed", "Duplicate", "NoSigner", "NoConnection"}]
        /\ AttemptsLeft' /\ CopiesAreResponses' /\ FailedMeansNotSent' /\ MetricsAreHistories'
    BY <2>1, <2>2, <2>3, <1>2, <1>4, EndAttemptPreserves
  <2>5. TypeOK'
    BY <2>1, <2>4, <1>2, <1>3 DEF TypeOK
  <2>6. QED
    BY <2>4, <2>5
<1>6. CASE /\ \E s \in Selections : outstanding' = [outstanding EXCEPT ![t] = s]
           /\ responses' = [responses EXCEPT ![t] = {}]
           /\ phase' = [phase EXCEPT ![t] = "Sending"]
           /\ UNCHANGED result
  <2>1. PICK s \in SUBSET Conns : outstanding' = [outstanding EXCEPT ![t] = s]
    BY <1>6 DEF Selections, Healthy, Tracked
  <2>2. /\ phase' \in [Tasks -> {"Idle", "Sending", "Waiting", "Done"}]
        /\ attempt' \in [Tasks -> 0..MaxAttempts]
    BY <1>1, <1>2, <1>6 DEF TypeOK
  <2>3. TypeOK'
    BY <2>1, <2>2, <1>2, <1>3, <1>6 DEF TypeOK
  <2>4. AttemptsLeft'
    BY <1>2, <1>6 DEF TypeOK, AttemptsLeft
  <2>5. CopiesAreResponses'
    BY <1>2, <1>4, <1>6, <2>1 DEF TypeOK, CopiesAreResponses
  <2>6. FailedMeansNotSent'
    BY <1>2, <1>4, <1>6 DEF TypeOK, FailedMeansNotSent
  <2>7. MetricsAreHistories'
    BY <1>2 DEF MetricsAreHistories
  <2>8. QED
    BY <2>3, <2>4, <2>5, <2>6, <2>7
<1>7. QED
  BY <1>5, <1>6 DEF Execute

LEMMA FinishPreserves ==
  ASSUME ExecutorInv, NEW t \in Tasks, Finish(t)
  PROVE  ExecutorInv'
<1> DEFINE verdict == IF responses[t] # {} THEN "Ok" ELSE "Failed"
<1>1. /\ EndAttempt(t, attempt[t], verdict)
      /\ UNCHANGED <<attempt, outstanding, responses, copies, usedIds, metrics, registered>>
      /\ phase[t] = "Sending" /\ outstanding[t] = {}
  BY DEF Finish, AllEnded
<1>2. verdict \in {"Ok", "Failed", "Duplicate", "NoSigner", "NoConnection"}
      /\ (verdict = "Ok" <=> copies[t] # {})
  BY <1>1 DEF ExecutorInv, CopiesAreResponses
<1> HIDE DEF verdict
<1>3. /\ phase' \in [Tasks -> {"Idle", "Sending", "Waiting", "Done"}]
      /\ result' \in [Tasks -> {"None", "Ok", "Failed", "Duplicate", "NoSigner", "NoConnection"}]
  BY <1>1, <1>2 DEF EndAttempt, ExecutorInv, TypeOK
<1>4. TypeOK'
  BY <1>1, <1>3 DEF ExecutorInv, TypeOK
<1>5. AttemptsLeft'
  BY <1>1 DEF EndAttempt, RetriesAgain, ExecutorInv, TypeOK, AttemptsLeft
<1>6. CopiesAreResponses'
  BY <1>1 DEF EndAttempt, ExecutorInv, TypeOK, CopiesAreResponses
<1>7. FailedMeansNotSent'
  BY <1>1, <1>2 DEF EndAttempt, ExecutorInv, TypeOK, FailedMeansNotSent
<1>8. MetricsAreHistories'
  BY <1>1 DEF ExecutorInv, MetricsAreHistories
<1>9. QED
  BY <1>4, <1>5, <1>6, <1>7, <1>8 DEF ExecutorInv

LEMMA SendSucceedsPreserves ==
  ASSUME ExecutorInv, NEW t \in Tasks, NEW c \in Conns, SendSucceeds(t, c)
  PROVE  ExecutorInv'
<1> USE DEF ExecutorInv, SendSucceeds
<1>1. metrics' \in [Conns -> MetricsType] /\ MetricsAreHistories'
  <2>1. PICK score \in RttScores : Track(c, MetricsSucceed(metrics[c], score))
    OBVIOUS
  <2>2. metrics \in [Conns -> MetricsType] /\ metrics[c] \in MetricsType
    BY DEF TypeOK
  <2>3. QED
    BY <2>1, <2>2, SucceedFacts, TrackPreserves
<1>2. TypeOK'
  BY <1>1 DEF TypeOK
<1>3. AttemptsLeft' /\ CopiesAreResponses' /\ FailedMeansNotSent'
  BY DEF TypeOK, AttemptsLeft, CopiesAreResponses, FailedMeansNotSent
<1>4. QED
  BY <1>1, <1>2, <1>3

LEMMA SendFailsPreserves ==
  ASSUME ExecutorInv, NEW t \in Tasks, NEW c \in Conns, SendFails(t, c)
  PROVE  ExecutorInv'
<1> USE DEF ExecutorInv, SendFails
<1>1. metrics' \in [Conns -> MetricsType] /\ MetricsAreHistories'
  <2>1. metrics \in [Conns -> MetricsType] /\ metrics[c] \in MetricsType
    BY DEF TypeOK
  <2>2. QED
    BY <2>1, FailFacts, TrackPreserves
<1>2. TypeOK'
  BY <1>1 DEF TypeOK
<1>3. AttemptsLeft' /\ CopiesAreResponses' /\ FailedMeansNotSent'
  BY DEF TypeOK, AttemptsLeft, CopiesAreResponses, FailedMeansNotSent
<1>4. QED
  BY <1>1, <1>2, <1>3

LEMMA TablesPreserve ==
  ASSUME ExecutorInv,
         \/ \E c \in Conns : RegisterConnection(c) \/ RemoveConnection(c)
         \/ \E old \in (SUBSET usedIds) \ {{}} : CleanupOldIds(old)
  PROVE  ExecutorInv'
<1> USE DEF ExecutorInv
<1>1. UNCHANGED taskVars
  BY DEF RegisterConnection, RemoveConnection, CleanupOldIds
<1>2. metrics' \in [Conns -> MetricsType] /\ MetricsAreHistories'
  BY NewFacts, NoMetricsFacts
  DEF RegisterConnection, RemoveConnection, CleanupOldIds, TypeOK, MetricsAreHistories
<1>3. usedIds' \subseteq Tasks \X Nat /\ registered' \in 0..MaxRegistered
  BY BoundsAssumption DEF RegisterConnection, RemoveConnection, CleanupOldIds, TypeOK
<1>4. TypeOK'
  BY <1>1, <1>2, <1>3 DEF taskVars, TypeOK
<1>5. AttemptsLeft' /\ CopiesAreResponses' /\ FailedMeansNotSent'
  BY <1>1 DEF taskVars, AttemptsLeft, CopiesAreResponses, FailedMeansNotSent
<1>6. QED
  BY <1>2, <1>4, <1>5

LEMMA ExecutorInvNext == ExecutorInv /\ [Next]_vars => ExecutorInv'
<1> SUFFICES ASSUME ExecutorInv, [Next]_vars PROVE ExecutorInv'
  OBVIOUS
<1>1. CASE UNCHANGED vars
  BY <1>1 DEF vars, taskVars, ExecutorInv, TypeOK, AttemptsLeft, CopiesAreResponses,
     FailedMeansNotSent, MetricsAreHistories
<1>2. CASE Next
  BY <1>2, ExecutePreserves, FinishPreserves, SendSucceedsPreserves, SendFailsPreserves,
     TablesPreserve DEF Next
<1>3. QED
  BY <1>1, <1>2

-----------------------------------------------------------------------------
(* The results                                                             *)

\* The inductive invariant holds in every reachable state.
THEOREM ExecutorInvAlways == Spec => []ExecutorInv
<1>1. QED
  BY ExecutorInvInit, ExecutorInvNext, PTL DEF Spec

\* Every variable has its type, and no task makes more than the configured
\* attempts (max_retry_attempts).
THEOREM TypeOKAlways == Spec => []TypeOK
<1>1. ExecutorInv => TypeOK
  BY DEF ExecutorInv
<1>2. QED
  BY <1>1, ExecutorInvAlways, PTL

\* A verdict other than a success means that no copy of the order went out, in
\* this attempt or in one before it.
THEOREM FailedMeansNotSentAlways == Spec => []FailedMeansNotSent
<1>1. ExecutorInv => FailedMeansNotSent
  BY DEF ExecutorInv
<1>2. QED
  BY <1>1, ExecutorInvAlways, PTL

\* What the health score makes of a history with at most one failure, or with
\* nothing but three of them or more.
LEMMA ScoreOfHistory ==
  ASSUME NEW m, HistoryOf(m)
  PROVE  /\ m.errors <= 1 => IsHealthy(m)
         /\ m.messages = 0 /\ m.errors >= 3 => ~IsHealthy(m)
<1> DEFINE total == m.messages + m.errors
           rest == m.rttScore + FailurePenalty(m.failures) + RecencyBonus
<1>1. /\ ScoreReachesFifty(m) <=>
            IF total = 0 THEN 40 + rest >= 50 ELSE 40 * m.messages + rest * total >= 50 * total
      /\ total \in Nat
  BY DEF ScoreReachesFifty, HistoryOf
<1>2. ASSUME m.errors <= 1 PROVE IsHealthy(m)
  <2>1. m.failures < 5
    BY <1>2 DEF HistoryOf
  <2>2. CASE m.failures = 0
    <3>1. rest \in {35, 60}
      BY <2>2 DEF FailurePenalty, HistoryOf, RttScores, RecencyBonus
    <3>2. total = 0 \/ m.messages >= 1
      BY <2>2 DEF HistoryOf
    <3> HIDE DEF rest
    <3>3. rest * total >= 35 * total
      BY <3>1, <1>1
    <3>4. total > 0 => 40 * m.messages + 35 * total >= 50 * total
      BY <3>2, <1>2 DEF HistoryOf
    <3>5. ScoreReachesFifty(m)
      <4>1. CASE total = 0
        BY <4>1, <3>1, <1>1
      <4>2. CASE total > 0
        <5> DEFINE paid == rest * total
        <5>1. paid \in Nat
          BY <3>1, <1>1
        <5> HIDE DEF total
        <5>2. 40 * m.messages + paid >= 50 * total
          <6>1. m.messages \in Nat
            BY DEF HistoryOf
          <6> HIDE DEF paid
          <6>2. QED
            BY <3>3, <3>4, <4>2, <5>1, <6>1, <1>1 DEF paid
        <5>3. QED
          BY <5>2, <4>2, <1>1
      <4>3. QED
        BY <4>1, <4>2, <1>1
    <3>6. QED
      BY <2>1, <3>5 DEF IsHealthy
  <2>3. CASE m.failures = 1
    <3>1. rest \in {30, 55} /\ (m.messages = 0 => rest = 55)
      BY <2>3, <1>2 DEF FailurePenalty, HistoryOf, RttScores, RecencyBonus
    <3>2. total > 0 /\ m.errors = 1 /\ m.messages \in Nat
      BY <1>2, <2>3 DEF HistoryOf
    <3>3. CASE rest = 55
      BY <3>2, <3>3, <1>1, <2>1 DEF IsHealthy
    <3>4. CASE rest = 30
      <4>1. 40 * m.messages + 30 * total >= 50 * total
        BY <3>1, <3>2, <3>4
      <4>2. QED
        BY <3>2, <3>4, <4>1, <1>1, <2>1 DEF IsHealthy
    <3>5. QED
      BY <3>1, <3>3, <3>4
  <2>4. QED
    BY <1>2, <2>2, <2>3 DEF HistoryOf
<1>3. ASSUME m.messages = 0, m.errors >= 3 PROVE ~IsHealthy(m)
  <2>1. rest \in {40, 45} /\ total = m.errors /\ total > 0
    BY <1>3 DEF FailurePenalty, HistoryOf, RttScores, RecencyBonus
  <2>2. ~ScoreReachesFifty(m)
    <3>1. CASE rest = 40
      BY <2>1, <3>1, <1>1, <1>3
    <3>2. CASE rest = 45
      BY <2>1, <3>2, <1>1, <1>3
    <3>3. QED
      BY <2>1, <3>1, <3>2
  <2>3. QED
    BY <2>2 DEF IsHealthy
<1>4. QED
  BY <1>2, <1>3

\* At any point of its history a connection survives one failed send, and one
\* that never sent anything is out after three.
THEOREM OneFailureToleratedAlways == Spec => []OneFailureTolerated
<1>1. ExecutorInv => OneFailureTolerated
  BY ScoreOfHistory DEF ExecutorInv, MetricsAreHistories, OneFailureTolerated, Tracked
<1>2. QED
  BY <1>1, ExecutorInvAlways, PTL

\* No answer, however late, brings a removed connection back.
THEOREM RemovedStaysRemovedAlways == Spec => RemovedStaysRemoved
<1>1. ASSUME [Next]_vars, NEW c \in Conns, ExecutorInv, metrics[c] = NoMetrics,
             metrics'[c] # NoMetrics
      PROVE  registered' = registered + 1
  <2>1. ASSUME NEW d \in Conns, NEW m, Track(d, m) PROVE FALSE
    BY <1>1, <2>1 DEF Track, ExecutorInv, TypeOK
  <2>2. ASSUME NEW t \in Tasks, NEW d \in Conns, SendSucceeds(t, d) \/ SendFails(t, d) PROVE FALSE
    BY <2>1, <2>2 DEF SendSucceeds, SendFails
  <2>3. ASSUME NEW t \in Tasks, Execute(t) \/ Finish(t) PROVE FALSE
    BY <1>1, <2>3 DEF Execute, Finish
  <2>4. ASSUME NEW d \in Conns, RemoveConnection(d) PROVE FALSE
    BY <1>1, <2>4 DEF RemoveConnection, ExecutorInv, TypeOK
  <2>5. ASSUME NEW old, CleanupOldIds(old) PROVE FALSE
    BY <1>1, <2>5 DEF CleanupOldIds
  <2>6. CASE UNCHANGED vars
    BY <1>1, <2>6 DEF vars
  <2>7. QED
    BY <1>1, <2>2, <2>3, <2>4, <2>5, <2>6 DEF Next, RegisterConnection
<1>2. ExecutorInv /\ [Next]_vars =>
        [\A c \in Conns : metrics[c] = NoMetrics /\ metrics'[c] # NoMetrics
           => registered' = registered + 1]_vars
  BY <1>1
<1>3. QED
  BY <1>2, ExecutorInvAlways, PTL DEF RemovedStaysRemoved, Spec
=============================================================================
