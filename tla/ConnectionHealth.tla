-------------------------- MODULE ConnectionHealth --------------------------
(***************************************************************************)
(* The health metrics of one connection                                    *)
(* (trading-engine/src/health/health_tracker.rs), as operators on records. *)
(* The round trip time is represented by the part of the score it earns;   *)
(* the score itself is out of 100, with the success rate as a fraction.    *)
(***************************************************************************)
EXTENDS Naturals

\* The worst and the best of 5, 10, 15, 20, 25 and 30: one slow answer is enough
\* for the worst, the average being exponential.
RttScores == {5, 30}

\* HealthMetrics::new, with rtt_ms = 0.
NewMetrics == [messages |-> 0, errors |-> 0, failures |-> 0, rttScore |-> 30]

MetricsSucceed(m, rttScore) ==
  [m EXCEPT !.messages = @ + 1, !.failures = 0, !.rttScore = rttScore]

MetricsFail(m) == [m EXCEPT !.errors = @ + 1, !.failures = @ + 1]

FailurePenalty(failures) == IF failures <= 3 THEN 20 - 5 * failures ELSE 0

\* The metrics were updated just before, so the recency bonus is always 10.
RecencyBonus == 10

\* success_rate * 0.4 + rtt + penalty + bonus >= 50, the rate being 100 per cent
\* before the first message.
ScoreReachesFifty(m) ==
  LET total == m.messages + m.errors
      rest == m.rttScore + FailurePenalty(m.failures) + RecencyBonus
  IN  IF total = 0 THEN 40 + rest >= 50 ELSE 40 * m.messages + rest * total >= 50 * total

\* Mutant: a score of exactly 50 is not enough.
IsHealthyStrict(m) ==
  LET total == m.messages + m.errors
      rest == m.rttScore + FailurePenalty(m.failures) + RecencyBonus
  IN  /\ IF total = 0 THEN 40 + rest > 50 ELSE 40 * m.messages + rest * total > 50 * total
      /\ m.failures < 5

IsHealthy(m) == ScoreReachesFifty(m) /\ m.failures < 5
=============================================================================
