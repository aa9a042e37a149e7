--------------------------- MODULE SignalCollector ---------------------------
(***************************************************************************)
(* The signal collector (signal-collector/src): subscriber threads decode  *)
(* signals and push them through a bounded channel to the main loop, which *)
(* keeps the last signal of each kind, evaluates the triggers registered   *)
(* for the kind that arrived and numbers the events they produce; a second *)
(* bounded channel takes the events to the publisher thread.               *)
(*                                                                         *)
(* A full channel blocks its sender; a channel whose receiver is gone      *)
(* fails it.  A signal carries what the triggers look at; the number of a  *)
(* signal at its source and the kind that caused an event are history.     *)
(***************************************************************************)
EXTENDS Integers, Sequences

CONSTANTS
  Sources,      \* the subscriber threads
  Signals,      \* the signals the sources send
  Kind,         \* SignalType of a signal
  HighSpread,   \* the spread signals with a percentile above 0.8
  StrongRate,   \* the funding signals with a rate beyond the threshold
  Direction,    \* FundingDirection of a signal
  SignalCapacity, EventCapacity,   \* of the two channels (both 1024 in main.rs)
  MaxSignals    \* bound on the signals of a source

\* The kinds of signals the triggers are about.  The subscriber can also decode an
\* order response (binary.rs:206): it would be stored, and no trigger depends on it.
Kinds == {"AdaptiveSpreadDeviation", "FixedSpreadDeviation", "FundingRateDirection",
          "RealTimeFundingRisk"}
Directions == {"Positive", "Negative", "Neutral"}

ASSUME SignalsAssumption ==
  Kind \in [Signals -> Kinds] /\ Direction \in [Signals -> Directions]
ASSUME CapacityAssumption ==
  SignalCapacity \in Nat \ {0} /\ EventCapacity \in Nat \ {0} /\ MaxSignals \in Nat

VARIABLES
  read,         \* how many signals each subscriber has read
  blocked,      \* the signal each subscriber is handing over, in a set of at most one
  alive,        \* the subscriber threads that still run
  signals,      \* the signal channel
  lastSignal,   \* SignalManager: the last signal of each kind, in a set of at most one
  pending,      \* the event send_event is handing over, in a set of at most one
  sequenceId,   \* EventGenerator.sequence_id
  events,       \* the event channel
  published,    \* the ids published, in order
  dropped,      \* the number of events lost at or with the publisher
  collector,    \* "Running" or "Exited": the main loop
  publisher     \* "Running" or "Stopped"

sourceVars == <<read, blocked, alive>>
mainVars == <<lastSignal, sequenceId, collector>>
publisherVars == <<published, dropped, publisher>>
vars == <<sourceVars, signals, mainVars, pending, events, publisherVars>>

Init ==
  /\ read = [s \in Sources |-> 0]
  /\ blocked = [s \in Sources |-> {}]
  /\ alive = Sources
  /\ signals = <<>>
  /\ lastSignal = [k \in Kinds |-> {}]
  /\ pending = {}
  /\ sequenceId = 0
  /\ events = <<>>
  /\ published = <<>>
  /\ dropped = 0
  /\ collector = "Running"
  /\ publisher = "Running"

-----------------------------------------------------------------------------
(* The subscriber threads                                                  *)

\* A message that does not decode is only logged.
ReadSignal(s) ==
  /\ s \in alive /\ blocked[s] = {} /\ read[s] < MaxSignals /\ collector = "Running"
  /\ read' = [read EXCEPT ![s] = @ + 1]
  /\ \E sig \in Signals :
       blocked' = [blocked EXCEPT ![s] = {[source |-> s, number |-> read[s] + 1, signal |-> sig]}]
  /\ UNCHANGED <<alive, signals, mainVars, pending, events, publisherVars>>

\* Mutant: a signal overtakes those that wait.
HandOverFirst(s) ==
  /\ blocked[s] # {} /\ collector = "Running" /\ Len(signals) < SignalCapacity
  /\ \E m \in blocked[s] : signals' = <<m>> \o signals
  /\ blocked' = [blocked EXCEPT ![s] = {}]
  /\ UNCHANGED <<read, alive, mainVars, pending, events, publisherVars>>

\* Mutant: an unbounded channel.
HandOverUnbounded(s) ==
  /\ blocked[s] # {} /\ collector = "Running"
  /\ \E m \in blocked[s] : signals' = Append(signals, m)
  /\ blocked' = [blocked EXCEPT ![s] = {}]
  /\ UNCHANGED <<read, alive, mainVars, pending, events, publisherVars>>

\* blocking_send
HandOver(s) ==
  /\ blocked[s] # {} /\ collector = "Running" /\ Len(signals) < SignalCapacity
  /\ \E m \in blocked[s] : signals' = Append(signals, m)
  /\ blocked' = [blocked EXCEPT ![s] = {}]
  /\ UNCHANGED <<read, alive, mainVars, pending, events, publisherVars>>

\* A receive error of iceoryx, or a panic on a message that is too short.  The
\* main loop keeps a sender of its own and never learns of it.
SubscriberDies(s) ==
  /\ s \in alive /\ blocked[s] = {}
  /\ alive' = alive \ {s}
  /\ UNCHANGED <<read, blocked, signals, mainVars, pending, events, publisherVars>>

-----------------------------------------------------------------------------
(* The main loop                                                           *)

\* register_default_triggers
DependsOn == [
  MTTrigger |-> {"AdaptiveSpreadDeviation", "FixedSpreadDeviation", "FundingRateDirection"},
  MTCloseTrigger |-> {"RealTimeFundingRisk", "AdaptiveSpreadDeviation", "FixedSpreadDeviation"},
  HedgeTrigger |-> {"AdaptiveSpreadDeviation", "FixedSpreadDeviation"}]

\* The last spread may be of any age and of another symbol.
MTTriggerFires(sig) ==
  /\ Kind[sig] = "FundingRateDirection"
  /\ \E m \in lastSignal'["AdaptiveSpreadDeviation"] : m.signal \in HighSpread
  /\ sig \in StrongRate
  /\ Direction[sig] # "Neutral"

Side(sig) == IF Direction[sig] = "Positive" THEN "Sell" ELSE "Buy"

\* The other two triggers are not implemented: evaluate returns None.
Evaluate(trigger, sig) == trigger = "MTTrigger" /\ MTTriggerFires(sig)

UpdateSignal(m) == lastSignal' = [lastSignal EXCEPT ![Kind[m.signal]] = {m}]

\* Mutant: the second event gets the number of the first.
NumberEventTwice(sig) ==
  /\ pending' = {[id |-> sequenceId, side |-> Side(sig), cause |-> Kind[sig]]}
  /\ sequenceId' = IF sequenceId = 0 THEN 0 ELSE sequenceId + 1

NumberEvent(sig) ==
  /\ pending' = {[id |-> sequenceId, side |-> Side(sig), cause |-> Kind[sig]]}
  /\ sequenceId' = sequenceId + 1

ProcessSignal ==
  /\ collector = "Running" /\ pending = {} /\ signals # <<>>
  /\ signals' = Tail(signals)
  /\ LET m == Head(signals)
         fires == \E t \in DOMAIN DependsOn :
                    Kind[m.signal] \in DependsOn[t] /\ Evaluate(t, m.signal)
     IN  /\ UpdateSignal(m)
         /\ \/ fires /\ NumberEvent(m.signal)
            \/ ~fires /\ UNCHANGED <<pending, sequenceId>>
  /\ UNCHANGED <<sourceVars, collector, events, publisherVars>>

\* Mutant: try_send, an event that finds the channel full is forgotten.
SendEventOrForget ==
  /\ collector = "Running" /\ pending # {} /\ publisher = "Running"
  /\ events' = IF Len(events) < EventCapacity THEN events \o <<CHOOSE e \in pending : TRUE>> ELSE events
  /\ pending' = {}
  /\ UNCHANGED <<sourceVars, signals, mainVars, publisherVars>>

\* Mutant: a publisher that is gone is taken for a full channel.
SendEventUnaware ==
  /\ collector = "Running" /\ pending # {} /\ publisher = "Running"
  /\ Len(events) < EventCapacity
  /\ \E e \in pending : events' = Append(events, e)
  /\ pending' = {}
  /\ UNCHANGED <<sourceVars, signals, mainVars, publisherVars>>

\* The await of send_event.  A failed send ends main with an error, and with it
\* the process.
SendEvent ==
  /\ collector = "Running" /\ pending # {}
  /\ \/ /\ publisher = "Running" /\ Len(events) < EventCapacity
        /\ \E e \in pending : events' = Append(events, e)
        /\ pending' = {}
        /\ UNCHANGED collector
     \/ /\ publisher = "Stopped"
        /\ collector' = "Exited"
        /\ UNCHANGED <<events, pending>>
  /\ UNCHANGED <<sourceVars, signals, lastSignal, sequenceId, publisherVars>>

-----------------------------------------------------------------------------
(* The publisher thread                                                    *)

\* An event that is too large or that iceoryx refuses is logged and dropped.
Publish ==
  /\ collector = "Running" /\ publisher = "Running" /\ events # <<>>
  /\ events' = Tail(events)
  /\ \/ published' = Append(published, Head(events).id) /\ UNCHANGED dropped
     \/ dropped' = dropped + 1 /\ UNCHANGED published
  /\ UNCHANGED <<sourceVars, signals, mainVars, pending, publisher>>

\* A termination signal, or an error before the loop; the channel goes with it.
PublisherStops ==
  /\ collector = "Running" /\ publisher = "Running"
  /\ publisher' = "Stopped"
  /\ dropped' = dropped + Len(events)
  /\ events' = <<>>
  /\ UNCHANGED <<sourceVars, signals, mainVars, pending, published>>

Next ==
  \/ \E s \in Sources : ReadSignal(s) \/ HandOver(s) \/ SubscriberDies(s)
  \/ ProcessSignal \/ SendEvent \/ Publish \/ PublisherStops

\* The loop and the publisher run on; the channel serves its blocked senders in
\* turn, so a sender that finds room again and again gets it.
Fairness ==
  /\ WF_vars(ProcessSignal) /\ WF_vars(SendEvent) /\ WF_vars(Publish)
  /\ \A s \in Sources : SF_vars(HandOver(s))

Spec == Init /\ [][Next]_vars /\ Fairness

-----------------------------------------------------------------------------
(* Properties                                                              *)

Message == [source : Sources, number : 1..MaxSignals, signal : Signals]
Event == [id : Nat, side : {"Buy", "Sell"}, cause : Kinds]

TypeOK ==
  /\ read \in [Sources -> 0..MaxSignals] /\ alive \subseteq Sources
  /\ blocked \in [Sources -> SUBSET Message]
  /\ signals \in Seq(Message) /\ Len(signals) <= SignalCapacity
  /\ lastSignal \in [Kinds -> SUBSET Message]
  /\ \A k \in Kinds : \A m \in lastSignal[k] : Kind[m.signal] = k
  /\ pending \subseteq Event /\ sequenceId \in Nat
  /\ events \in Seq(Event) /\ Len(events) <= EventCapacity
  /\ published \in Seq(Nat) /\ dropped \in Nat
  /\ collector \in {"Running", "Exited"} /\ publisher \in {"Running", "Stopped"}

InHand == IF pending = {} THEN 0 ELSE 1

\* Every number given is that of one event, which is published, lost at the
\* publisher, or still on its way: a full channel delays events and loses none.
EventsAccounted == sequenceId = Len(published) + dropped + Len(events) + InHand

\* Events leave in the order of their numbers: those published increase, and those
\* on their way are consecutive, the newest being the last numbered.
EventsInOrder ==
  /\ \A i \in 1..(Len(published) - 1) : published[i] < published[i + 1]
  /\ \A i \in 1..Len(events) : events[i].id = sequenceId - InHand - Len(events) + i - 1
  /\ events # <<>> => \A i \in 1..Len(published) : published[i] < events[1].id

\* The signal the triggers compare with is never older than one of the same source
\* that still waits: neither channel nor block reorders a source.
SourceOrderKept ==
  \A k \in Kinds : \A m \in lastSignal[k] :
    /\ \A i \in 1..Len(signals) : signals[i].source = m.source => signals[i].number > m.number
    /\ \A w \in blocked[m.source] : w.number > m.number

\* A subscriber that has read a signal is not blocked for ever by full channels,
\* unless the process ends.
SubscribersUnblocked == \A s \in Sources : blocked[s] # {} ~> blocked[s] = {} \/ collector = "Exited"

-----------------------------------------------------------------------------
\* "A funding rate signal alone does not trigger a trade; only the close signal and
\* the order book signal do" (doc/时间戳维护.md:251): no event is caused by a
\* funding rate signal.
FundingAloneTriggersNothing == \A e \in pending : e.cause # "FundingRateDirection"
=============================================================================
