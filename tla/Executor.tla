------------------------------ MODULE Executor ------------------------------
(***************************************************************************)
(* The order executor of the trading engine                                *)
(* (trading-engine/src/executor/executor.rs, idempotent.rs) with the       *)
(* health tracker and the connection selector it shares among all          *)
(* executions.  Every command runs in a task of its own: it checks its     *)
(* client order id, selects healthy connections, sends one copy of the     *)
(* order on each of them at once and waits for all sends to end, by a      *)
(* success, an error or the timeout.  Tasks interleave at every send.      *)
(*                                                                         *)
(* A task runs execute or, if it is in Retrying, retry_execution.          *)
(* Connections may be registered, removed and swept as stale at any time.  *)
(***************************************************************************)
EXTENDS ConnectionHealth, Integers, FiniteSets

CONSTANTS
  Tasks,         \* executions: a command delivered twice makes two of them
  Ids,           \* the client order ids commands carry
  NoId,          \* client_order_id: None
  IdOf,          \* the client order id of each task's command
  Retrying,      \* the tasks that run retry_execution
  Unsigned,      \* the tasks whose exchange has no signer
  Conns,         \* connection ids
  SendCount,     \* concurrent_send_count
  MaxAttempts,   \* max_retry_attempts
  SendBound,     \* bound on the sends counted for one connection
  MaxRegistered  \* bound on the number of registrations

ASSUME IdsAssumption == NoId \notin Ids /\ IdOf \in [Tasks -> Ids \cup {NoId}]
\* With no attempts at all retry_execution executes nothing.
ASSUME ConnsAssumption == IsFiniteSet(Conns) /\ SendCount \in Nat /\ MaxAttempts \in Nat \ {0}
ASSUME BoundsAssumption == SendBound \in Nat /\ MaxRegistered \in Nat
ASSUME TasksAssumption == Retrying \subseteq Tasks /\ Unsigned \subseteq Tasks

VARIABLES
  phase,       \* "Idle", "Sending", "Waiting" (for a retry), "Done"
  attempt,     \* the number of executions of the command so far
  outstanding, \* the connections whose send has not ended
  responses,   \* the connections that accepted a copy in this attempt
  result,      \* "Ok", "Failed", "Duplicate", "NoSigner", "NoConnection" or "None"
  copies,      \* the connections that accepted a copy in any attempt
  usedIds,     \* IdempotentManager.used_ids: generated ids, by task and attempt
  metrics,     \* HealthTracker.metrics; NoMetrics for a connection not in it
  registered   \* the number of registrations so far

taskVars == <<phase, attempt, outstanding, responses, result, copies>>
vars == <<taskVars, usedIds, metrics, registered>>

NoMetrics == [messages |-> -1, errors |-> 0, failures |-> 0, rttScore |-> 0]
Tracked == {c \in Conns : metrics[c] # NoMetrics}
Healthy == {c \in Tracked : IsHealthy(metrics[c])}

Init ==
  /\ phase = [t \in Tasks |-> "Idle"]
  /\ attempt = [t \in Tasks |-> 0]
  /\ outstanding = [t \in Tasks |-> {}]
  /\ responses = [t \in Tasks |-> {}]
  /\ result = [t \in Tasks |-> "None"]
  /\ copies = [t \in Tasks |-> {}]
  /\ usedIds = {}
  /\ metrics = [c \in Conns |-> NoMetrics]
  /\ registered = 0

-----------------------------------------------------------------------------
(* One execution                                                           *)

\* The selection strategies differ in which healthy connections they prefer.
Selections == {s \in SUBSET Healthy : Cardinality(s) = SendCount
                                      \/ (s = Healthy /\ Cardinality(s) < SendCount)}

\* Mutant: the last attempt is followed by another one.
RetriesAgainPastLast(t, tried) == t \in Retrying /\ tried <= MaxAttempts

\* retry_execution sleeps and tries again, whatever the error was.
RetriesAgain(t, tried) == t \in Retrying /\ tried < MaxAttempts

EndAttempt(t, tried, verdict) ==
  /\ phase' = [phase EXCEPT ![t] =
       IF verdict # "Ok" /\ RetriesAgain(t, tried) THEN "Waiting" ELSE "Done"]
  /\ result' = [result EXCEPT ![t] = verdict]

\* A generated id is put in used_ids and found there by the check that follows;
\* an id of the command is looked up and never put there.
TakeId(t, id) ==
  usedIds' = IF IdOf[t] = NoId THEN usedIds \cup {id} ELSE usedIds

IsDuplicate(id) == id \in usedIds'

\* The id of this attempt: a generated one carries the time.
IdFor(t) == IF IdOf[t] = NoId THEN <<t, attempt[t] + 1>> ELSE <<IdOf[t], 0>>

Execute(t) ==
  /\ phase[t] \in {"Idle", "Waiting"}
  /\ attempt' = [attempt EXCEPT ![t] = @ + 1]
  /\ TakeId(t, IdFor(t))
  /\ \/ /\ IsDuplicate(IdFor(t))
        /\ EndAttempt(t, attempt[t] + 1, "Duplicate")
        /\ UNCHANGED <<outstanding, responses>>
     \/ /\ ~IsDuplicate(IdFor(t)) /\ t \in Unsigned
        /\ EndAttempt(t, attempt[t] + 1, "NoSigner")
        /\ UNCHANGED <<outstanding, responses>>
     \/ /\ ~IsDuplicate(IdFor(t)) /\ t \notin Unsigned /\ Healthy = {}
        /\ EndAttempt(t, attempt[t] + 1, "NoConnection")
        /\ UNCHANGED <<outstanding, responses>>
     \/ /\ ~IsDuplicate(IdFor(t)) /\ t \notin Unsigned /\ Healthy # {}
        /\ \E s \in Selections : outstanding' = [outstanding EXCEPT ![t] = s]
        /\ responses' = [responses EXCEPT ![t] = {}]
        /\ phase' = [phase EXCEPT ![t] = "Sending"]
        /\ UNCHANGED result
  /\ UNCHANGED <<copies, metrics, registered>>

\* Mutant: a connection that was removed meanwhile is entered again.
TrackInserting(c, m) ==
  metrics' = [metrics EXCEPT ![c] = IF @ = NoMetrics THEN NewMetrics ELSE m]

\* get_mut: a connection no longer tracked is left alone.
Track(c, m) ==
  metrics' = [metrics EXCEPT ![c] = IF @ = NoMetrics THEN @ ELSE m]

Counted(c) == metrics[c] = NoMetrics \/ metrics[c].messages + metrics[c].errors < SendBound

SendSucceeds(t, c) ==
  /\ c \in outstanding[t] /\ Counted(c)
  /\ outstanding' = [outstanding EXCEPT ![t] = @ \ {c}]
  /\ responses' = [responses EXCEPT ![t] = @ \cup {c}]
  /\ copies' = [copies EXCEPT ![t] = @ \cup {c}]
  /\ \E rttScore \in RttScores : Track(c, MetricsSucceed(metrics[c], rttScore))
  /\ UNCHANGED <<phase, attempt, result, usedIds, registered>>

\* Mutant: a send that times out may still have gone out.
SendFailsLate(t, c) ==
  /\ c \in outstanding[t] /\ Counted(c)
  /\ outstanding' = [outstanding EXCEPT ![t] = @ \ {c}]
  /\ copies' = [copies EXCEPT ![t] = @ \cup {c}]
  /\ Track(c, MetricsFail(metrics[c]))
  /\ UNCHANGED <<phase, attempt, responses, result, usedIds, registered>>

\* The connection returns an error, or the timeout cancels the send: the copy
\* has not been accepted either way.
SendFails(t, c) ==
  /\ c \in outstanding[t] /\ Counted(c)
  /\ outstanding' = [outstanding EXCEPT ![t] = @ \ {c}]
  /\ Track(c, MetricsFail(metrics[c]))
  /\ UNCHANGED <<phase, attempt, responses, result, copies, usedIds, registered>>

\* Mutant: the task waits for an answer of every connection.
AllEndedWithAnswer(t) == outstanding[t] = {} /\ responses[t] # {}

\* join_all
AllEnded(t) == outstanding[t] = {}

\* Each response is a placeholder of status New, so any of them is a success.
Finish(t) ==
  /\ phase[t] = "Sending" /\ AllEnded(t)
  /\ EndAttempt(t, attempt[t], IF responses[t] # {} THEN "Ok" ELSE "Failed")
  /\ UNCHANGED <<attempt, outstanding, responses, copies, usedIds, metrics, registered>>

-----------------------------------------------------------------------------
(* The tables the tasks share                                              *)

RegisterConnection(c) ==
  /\ registered < MaxRegistered
  /\ registered' = registered + 1
  /\ metrics' = [metrics EXCEPT ![c] = NewMetrics]
  /\ UNCHANGED <<taskVars, usedIds>>

\* remove_connection and cleanup_stale_connections
RemoveConnection(c) ==
  /\ c \in Tracked
  /\ metrics' = [metrics EXCEPT ![c] = NoMetrics]
  /\ UNCHANGED <<taskVars, usedIds, registered>>

CleanupOldIds(old) ==
  /\ usedIds' = usedIds \ old
  /\ UNCHANGED <<taskVars, metrics, registered>>

Next ==
  \/ \E t \in Tasks : Execute(t) \/ Finish(t)
  \/ \E t \in Tasks, c \in Conns : SendSucceeds(t, c) \/ SendFails(t, c)
  \/ \E c \in Conns : RegisterConnection(c) \/ RemoveConnection(c)
  \/ \E old \in (SUBSET usedIds) \ {{}} : CleanupOldIds(old)

\* The timeout ends every send; a task that is spawned or awake runs on.
Fairness ==
  /\ \A t \in Tasks : WF_vars(Execute(t)) /\ WF_vars(Finish(t))
  /\ \A t \in Tasks, c \in Conns : WF_vars(SendFails(t, c))

Spec == Init /\ [][Next]_vars /\ Fairness

-----------------------------------------------------------------------------
(* Properties                                                              *)

MetricsType == [messages : Int, errors : Nat, failures : Nat, rttScore : Nat]

TypeOK ==
  /\ phase \in [Tasks -> {"Idle", "Sending", "Waiting", "Done"}]
  /\ attempt \in [Tasks -> 0..MaxAttempts]
  /\ outstanding \in [Tasks -> SUBSET Conns] /\ responses \in [Tasks -> SUBSET Conns]
  /\ copies \in [Tasks -> SUBSET Conns]
  /\ result \in [Tasks -> {"None", "Ok", "Failed", "Duplicate", "NoSigner", "NoConnection"}]
  /\ usedIds \subseteq Tasks \X Nat
  /\ metrics \in [Conns -> MetricsType]
  /\ registered \in 0..MaxRegistered

\* A result that is not a success means that no copy of the order went out in
\* any attempt, so sending the command again cannot trade twice; a success means
\* that at least one did.
FailedMeansNotSent ==
  \A t \in Tasks :
    /\ result[t] = "Ok" => copies[t] # {}
    /\ phase[t] # "Sending" /\ result[t] # "Ok" => copies[t] = {}

\* A connection stays selectable after a single failed send, at any round trip
\* time and at whatever point of its history, and a connection that never sent
\* anything is out after three.
OneFailureTolerated ==
  \A c \in Tracked :
    /\ metrics[c].errors <= 1 => IsHealthy(metrics[c])
    /\ (metrics[c].messages = 0 /\ metrics[c].errors >= 3) => ~IsHealthy(metrics[c])

\* A late answer of a task brings no removed connection back: a connection is
\* tracked again only by a registration.
RemovedStaysRemoved ==
  [][\A c \in Conns : metrics[c] = NoMetrics /\ metrics'[c] # NoMetrics
        => registered' = registered + 1]_vars

\* Every task ends with a verdict, whatever the connections do.
CommandsFinish == \A t \in Tasks : <>(phase[t] = "Done")

-----------------------------------------------------------------------------
\* "Idempotence (by ClientOrderId)" (doc/pp.md:246) and "Check for duplicate"
\* (executor.rs:62): a first execution is not refused as a duplicate, and of two
\* commands of one client order id only one is sent.
DuplicatesExactly ==
  \A t \in Tasks :
    /\ result[t] = "Duplicate" => \E u \in Tasks \ {t} : IdOf[u] = IdOf[t] /\ attempt[u] > 0
    /\ \A u \in Tasks \ {t} : IdOf[u] = IdOf[t] /\ copies[u] # {} => copies[t] = {}
=============================================================================
