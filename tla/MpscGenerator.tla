---------------------------- MODULE MpscGenerator ----------------------------
(***************************************************************************)
(* The signal generator on one bounded mpsc channel                        *)
(* (test-signal-generator/src/ice_mpsc_generator_fixed.rs).  Source tasks  *)
(* send events for ever; the main loop receives them, turns them into      *)
(* signals and counts both.  A permit of the channel is one free place: a  *)
(* sender without one waits, and permits are handed out in the order of    *)
(* waiting.                                                                *)
(*                                                                         *)
(* A termination request is answered by sending Shutdown into the loop's   *)
(* own channel and returning.  The one receiver is then the sender, so a   *)
(* channel without a free permit stays so for ever, and the branch of the  *)
(* loop that would receive Shutdown is never taken: both follow from the   *)
(* loop being one task, and neither has an action here.                    *)
(*                                                                         *)
(* Of an event only its source is kept; whether it makes a signal is       *)
(* decided when it is received.  Every source has a symbol to report.      *)
(***************************************************************************)
EXTENDS Integers, FiniteSets, SequencesExt

CONSTANTS
  MarketSources, FundingSources, OrderBookSources,
  Main,       \* the main loop, as a sender
  Capacity,   \* 2000: the bound of the channel
  MaxCount    \* bound on what the counters of the statistics tell apart

Sources == MarketSources \cup FundingSources \cup OrderBookSources

ASSUME GeneratorAssumption ==
  /\ Capacity \in Nat \ {0} /\ MaxCount \in Nat \ {0}
  /\ Main \notin Sources

VARIABLES
  channel,    \* the sources of the events in the channel
  waiting,    \* the senders waiting for a permit, in order
  granted,    \* the sources woken with a permit that have not sent yet
  loop,       \* "Looping", "Sending" its Shutdown, or "Returned"
  requested,  \* a termination or interrupt signal was delivered
  stats       \* Statistics, without the latencies

channelVars == <<channel, waiting, granted>>
vars == <<channelVars, loop, requested, stats>>

NewStatistics == [market |-> 0, funding |-> 0, orderbook |-> 0, sent |-> 0, events |-> 0]

Init ==
  /\ channel = <<>> /\ waiting = <<>> /\ granted = {}
  /\ loop = "Looping" /\ requested = FALSE
  /\ stats = NewStatistics

Permits == Capacity - Len(channel) - Cardinality(granted)

-----------------------------------------------------------------------------
(* The sources                                                             *)

\* send: at once with a free permit, behind the other senders without one.
Send(s) ==
  /\ loop # "Returned"
  /\ s \notin granted \cup ToSet(waiting)
  /\ IF Permits > 0
       THEN channel' = Append(channel, s) /\ UNCHANGED waiting
       ELSE waiting' = Append(waiting, s) /\ UNCHANGED channel
  /\ UNCHANGED <<granted, loop, requested, stats>>

\* A source that was woken with a permit puts its event into the channel.
SendGranted(s) ==
  /\ loop # "Returned"
  /\ s \in granted
  /\ channel' = Append(channel, s) /\ granted' = granted \ {s}
  /\ UNCHANGED <<waiting, loop, requested, stats>>

-----------------------------------------------------------------------------
(* The main loop                                                           *)

\* Whether process_*_event says it sent a signal: a spread or an imbalance may be
\* too small, a funding rate never is.  An order book signal is only logged, and
\* a send that fails is too: both are counted as sent.
SaysSent(s) == IF s \in FundingSources THEN {TRUE} ELSE BOOLEAN

\* Mutant: the last source to wait is woken first.
LastWaiter == Len(waiting)

NextWaiter == 1

\* A received event frees a permit, which goes to a waiting source if there is one.
PassPermit ==
  IF waiting = <<>> THEN UNCHANGED <<waiting, granted>>
  ELSE /\ granted' = granted \cup {waiting[NextWaiter]}
       /\ waiting' = RemoveAt(waiting, NextWaiter)

Raised(count) == Min({count + 1, MaxCount})

Counted(s, sent) ==
  [market |-> IF s \in MarketSources THEN Raised(stats.market) ELSE stats.market,
   funding |-> IF s \in FundingSources THEN Raised(stats.funding) ELSE stats.funding,
   orderbook |-> IF s \in OrderBookSources THEN Raised(stats.orderbook) ELSE stats.orderbook,
   sent |-> IF sent THEN Raised(stats.sent) ELSE stats.sent,
   events |-> Raised(stats.events)]

ReceiveEvent ==
  /\ loop = "Looping" /\ channel # <<>>
  /\ channel' = Tail(channel)
  /\ PassPermit
  /\ \E sent \in SaysSent(Head(channel)) : stats' = Counted(Head(channel), sent)
  /\ UNCHANGED <<loop, requested>>

\* print_and_reset, every three seconds
PrintAndReset ==
  /\ loop = "Looping"
  /\ stats' = NewStatistics
  /\ UNCHANGED <<channelVars, loop, requested>>

\* Mutant: events go first, as with a biased select!.
CheckTurnBiased == loop = "Looping" /\ channel = <<>>

CheckTurn == loop = "Looping"

\* The check of the node every 100 ms: without a request it changes nothing.
CheckNode ==
  /\ CheckTurn /\ requested
  /\ IF Permits > 0
       THEN loop' = "Returned" /\ UNCHANGED waiting
       ELSE loop' = "Sending" /\ waiting' = Append(waiting, Main)
  /\ UNCHANGED <<channel, granted, requested, stats>>

\* The environment: SIGTERM or SIGINT.
RequestTermination ==
  /\ loop = "Looping" /\ ~requested
  /\ requested' = TRUE
  /\ UNCHANGED <<channelVars, loop, stats>>

Next ==
  \/ \E s \in Sources : Send(s) \/ SendGranted(s)
  \/ ReceiveEvent
  \/ PrintAndReset
  \/ CheckNode
  \/ RequestTermination

\* The runtime runs every task that is ready, and the sources never stop sending;
\* select! picks at random among the branches that are ready, and a tick that is
\* due stays ready until it is taken.
Fairness ==
  /\ \A s \in Sources : WF_vars(Send(s)) /\ WF_vars(SendGranted(s))
  /\ WF_vars(ReceiveEvent) /\ WF_vars(CheckNode)

Spec == Init /\ [][Next]_vars /\ Fairness

-----------------------------------------------------------------------------
(* Properties                                                              *)

\* Everyone waits on everyone: the loop and all sources for a permit, which only
\* the loop could free.
AllBlocked ==
  /\ loop = "Sending" /\ Len(channel) = Capacity /\ granted = {}
  /\ ToSet(waiting) = Sources \cup {Main}

\* A termination request is acted on however busy the sources are, but it ends the
\* process only when a permit is free at that moment: without one the loop waits on
\* its own channel and the whole process comes to a stop with it, for ever.
TerminationHonoured == requested ~> (loop = "Returned" \/ []AllBlocked)

\* A slow source that waits for a permit gets one while the loop runs, however many
\* fast sources keep the channel full.
SourcesServed ==
  \A s \in Sources : (s \in ToSet(waiting)) ~> (s \notin ToSet(waiting) \/ loop # "Looping")
=============================================================================
