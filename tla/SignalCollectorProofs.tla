------------------------ MODULE SignalCollectorProofs ------------------------
(***************************************************************************)
(* The safety properties of SignalCollector for any set of subscribers,    *)
(* any signals and any capacities of the two channels.                     *)
(***************************************************************************)
EXTENDS SignalCollector, TLAPS

\* The event in hand is the newest, and every published one is older than those
\* on their way, or than the next if there are none.
NumbersGrow ==
  /\ \A e \in pending : e.id = sequenceId - 1
  /\ \A i \in 1..Len(published) : published[i] < sequenceId - InHand - Len(events)

\* A source numbers its signals in the order it reads them, the one it hands over
\* being the newest, and the channel keeps that order.
SignalsInOrder ==
  /\ \A s \in Sources : \A w \in blocked[s] : w.source = s /\ w.number = read[s]
  /\ \A i \in 1..Len(signals) :
       /\ signals[i].number <= read[signals[i].source]
       /\ \A w \in blocked[signals[i].source] : signals[i].number < w.number
  /\ \A i, j \in 1..Len(signals) :
       i < j /\ signals[i].source = signals[j].source => signals[i].number < signals[j].number
  /\ \A k \in Kinds : \A m \in lastSignal[k] : m.number <= read[m.source]

CollectorInv == TypeOK /\ EventsAccounted /\ EventsInOrder /\ SourceOrderKept
                  /\ NumbersGrow /\ SignalsInOrder

LEMMA MessageFacts ==
  ASSUME NEW m \in Message
  PROVE  m.source \in Sources /\ m.number \in Nat
  BY CapacityAssumption DEF Message

LEMMA ChannelFacts ==
  ASSUME NEW queue \in Seq(Message)
  PROVE  \A i \in 1..Len(queue) : queue[i].source \in Sources /\ queue[i].number \in Nat
<1> SUFFICES ASSUME NEW i \in 1..Len(queue)
             PROVE  queue[i].source \in Sources /\ queue[i].number \in Nat
  OBVIOUS
<1>1. queue[i] \in Message
  OBVIOUS
<1>2. QED
  BY <1>1, MessageFacts

LEMMA CollectorInvInit == Init => CollectorInv
<1> SUFFICES ASSUME Init PROVE CollectorInv
  OBVIOUS
<1> USE DEF Init
<1>1. TypeOK
  BY CapacityAssumption DEF TypeOK
<1>2. EventsAccounted /\ EventsInOrder /\ NumbersGrow
  BY DEF EventsAccounted, EventsInOrder, NumbersGrow, InHand
<1>3. SourceOrderKept /\ SignalsInOrder
  BY DEF SourceOrderKept, SignalsInOrder
<1>4. QED
  BY <1>1, <1>2, <1>3 DEF CollectorInv

-----------------------------------------------------------------------------
(* Steps that leave one half of the state alone                            *)

LEMMA EventsUntouched ==
  ASSUME CollectorInv, UNCHANGED <<pending, sequenceId, events, published, dropped>>
  PROVE  EventsAccounted' /\ EventsInOrder' /\ NumbersGrow'
  BY DEF CollectorInv, EventsAccounted, EventsInOrder, NumbersGrow, InHand

LEMMA SignalsUntouched ==
  ASSUME CollectorInv, UNCHANGED <<read, blocked, signals, lastSignal>>
  PROVE  SourceOrderKept' /\ SignalsInOrder'
  BY DEF CollectorInv, SourceOrderKept, SignalsInOrder

-----------------------------------------------------------------------------
(* The subscribers                                                         *)

LEMMA ReadSignalPreserves ==
  ASSUME CollectorInv, NEW s \in Sources, ReadSignal(s)
  PROVE  CollectorInv'
<1> USE DEF CollectorInv, ReadSignal, mainVars, publisherVars
<1>1. PICK sig \in Signals :
        blocked' = [blocked EXCEPT ![s] = {[source |-> s, number |-> read[s] + 1, signal |-> sig]}]
  OBVIOUS
<1>2. read[s] \in Nat /\ read[s] + 1 \in 1..MaxSignals
  BY CapacityAssumption DEF TypeOK
<1> DEFINE m == [source |-> s, number |-> read[s] + 1, signal |-> sig]
<1>3. m \in Message /\ m.source = s /\ m.number = read[s] + 1
  BY <1>2 DEF Message
<1> HIDE DEF m
<1>4. blocked' = [blocked EXCEPT ![s] = {m}]
  BY <1>1 DEF m
<1>5. read' = [read EXCEPT ![s] = read[s] + 1] /\ read' \in [Sources -> 0..MaxSignals]
  BY <1>2, CapacityAssumption DEF TypeOK
<1>6. TypeOK'
  BY <1>3, <1>4, <1>5 DEF TypeOK
<1>7. EventsAccounted' /\ EventsInOrder' /\ NumbersGrow'
  BY EventsUntouched
<1>8. \A i \in 1..Len(signals) : signals[i].source \in Sources /\ signals[i].number \in Nat
  BY ChannelFacts DEF TypeOK
<1>9. \A k \in Kinds : \A l \in lastSignal[k] : l.source \in Sources /\ l.number \in Nat
  BY DEF TypeOK, Message
<1>10. \A u \in Sources : read[u] \in Nat /\ read'[u] \in Nat /\ read[u] <= read'[u]
  BY <1>5 DEF TypeOK
<1>11. SourceOrderKept'
  <2>1. \A k \in Kinds : \A l \in lastSignal[k] : \A w \in blocked'[l.source] : w.number > l.number
    BY <1>2, <1>3, <1>4, <1>9 DEF TypeOK, SourceOrderKept, SignalsInOrder
  <2>2. QED
    BY <2>1 DEF SourceOrderKept
<1>12. SignalsInOrder'
  <2>1. \A u \in Sources : \A w \in blocked'[u] : w.source = u /\ w.number = read'[u]
    BY <1>3, <1>4, <1>5 DEF TypeOK, SignalsInOrder
  <2>2. \A i \in 1..Len(signals) : signals[i].number <= read'[signals[i].source]
    BY <1>8, <1>10 DEF SignalsInOrder
  <2>3. \A i \in 1..Len(signals) : \A w \in blocked'[signals[i].source] : signals[i].number < w.number
    BY <1>2, <1>3, <1>4, <1>8 DEF TypeOK, SignalsInOrder
  <2>4. \A k \in Kinds : \A l \in lastSignal[k] : l.number <= read'[l.source]
    BY <1>9, <1>10 DEF SignalsInOrder
  <2>5. QED
    BY <2>1, <2>2, <2>3, <2>4 DEF SignalsInOrder
<1>13. QED
  BY <1>6, <1>7, <1>11, <1>12

LEMMA HandOverPreserves ==
  ASSUME CollectorInv, NEW s \in Sources, HandOver(s)
  PROVE  CollectorInv'
<1> USE DEF CollectorInv, HandOver, mainVars, publisherVars
<1>1. PICK m \in blocked[s] : signals' = Append(signals, m)
  OBVIOUS
<1>2. blocked' = [blocked EXCEPT ![s] = {}]
  OBVIOUS
<1>3. m \in Message /\ m.source = s /\ m.number = read[s] /\ m.number \in Nat /\ signals \in Seq(Message)
  BY DEF TypeOK, SignalsInOrder, Message
<1>4. /\ Len(signals') = Len(signals) + 1 /\ Len(signals) \in Nat /\ signals' \in Seq(Message)
      /\ \A i \in 1..Len(signals) : signals'[i] = signals[i]
      /\ signals'[Len(signals) + 1] = m
  BY <1>1, <1>3
<1>5. TypeOK'
  BY <1>2, <1>4, CapacityAssumption DEF TypeOK
<1>6. EventsAccounted' /\ EventsInOrder' /\ NumbersGrow'
  BY EventsUntouched
<1>7. \A i \in 1..Len(signals) : signals[i].source \in Sources /\ signals[i].number \in Nat
  BY <1>3, ChannelFacts
<1>8. \A i \in 1..Len(signals') : i \in 1..Len(signals) \/ i = Len(signals) + 1
  BY <1>4
<1>9. SourceOrderKept'
  <2> SUFFICES ASSUME NEW k \in Kinds, NEW l \in lastSignal[k]
               PROVE  /\ \A i \in 1..Len(signals') :
                           signals'[i].source = l.source => signals'[i].number > l.number
                      /\ \A w \in blocked'[l.source] : w.number > l.number
    BY DEF SourceOrderKept
  <2>1. l.source \in Sources
    BY DEF TypeOK, Message
  <2>2. /\ \A i \in 1..Len(signals) : signals[i].source = l.source => signals[i].number > l.number
        /\ \A w \in blocked[l.source] : w.number > l.number
    BY DEF SourceOrderKept
  <2>3. \A w \in blocked'[l.source] : w.number > l.number
    BY <1>2, <2>1, <2>2 DEF TypeOK
  <2>4. m.source = l.source => m.number > l.number
    BY <1>3, <2>2
  <2>5. QED
    BY <1>4, <1>8, <2>2, <2>3, <2>4
<1>10. SignalsInOrder'
  <2>1. \A u \in Sources : \A w \in blocked'[u] : w.source = u /\ w.number = read[u]
    BY <1>2 DEF TypeOK, SignalsInOrder
  <2>2. \A i \in 1..Len(signals') : signals'[i].number <= read[signals'[i].source]
    BY <1>3, <1>4, <1>8 DEF SignalsInOrder
  <2>3. \A i \in 1..Len(signals') : \A w \in blocked'[signals'[i].source] : signals'[i].number < w.number
    <3>1. blocked'[m.source] = {}
      BY <1>2, <1>3 DEF TypeOK
    <3>2. \A u \in Sources : blocked'[u] \subseteq blocked[u]
      BY <1>2 DEF TypeOK
    <3>3. QED
      BY <1>4, <1>7, <1>8, <3>1, <3>2 DEF SignalsInOrder
  <2>4. \A i, j \in 1..Len(signals') :
          i < j /\ signals'[i].source = signals'[j].source => signals'[i].number < signals'[j].number
    <3> SUFFICES ASSUME NEW i \in 1..Len(signals'), NEW j \in 1..Len(signals'), i < j,
                        signals'[i].source = signals'[j].source
                 PROVE  signals'[i].number < signals'[j].number
      OBVIOUS
    <3>1. i \in 1..Len(signals) /\ signals'[i] = signals[i]
      BY <1>4
    <3>2. CASE j \in 1..Len(signals)
      BY <3>1, <3>2, <1>4 DEF SignalsInOrder
    <3>3. CASE j = Len(signals) + 1
      BY <3>1, <3>3, <1>3, <1>4 DEF SignalsInOrder
    <3>4. QED
      BY <3>2, <3>3, <1>8
  <2>5. QED
    BY <2>1, <2>2, <2>3, <2>4 DEF SignalsInOrder
<1>11. QED
  BY <1>5, <1>6, <1>9, <1>10

LEMMA SubscriberDiesPreserves ==
  ASSUME CollectorInv, NEW s \in Sources, SubscriberDies(s)
  PROVE  CollectorInv'
<1> USE DEF CollectorInv, SubscriberDies, mainVars, publisherVars
<1>1. TypeOK'
  BY DEF TypeOK
<1>2. QED
  BY <1>1, EventsUntouched, SignalsUntouched

-----------------------------------------------------------------------------
(* The main loop                                                           *)

LEMMA ProcessSignalPreserves ==
  ASSUME CollectorInv, ProcessSignal
  PROVE  CollectorInv'
<1> USE DEF CollectorInv
<1> DEFINE m == Head(signals)
<1>1. /\ pending = {} /\ signals # <<>> /\ signals' = Tail(signals)
      /\ lastSignal' = [lastSignal EXCEPT ![Kind[m.signal]] = {m}]
      /\ UNCHANGED <<read, blocked, alive, collector, events, published, dropped, publisher>>
  BY DEF ProcessSignal, UpdateSignal, sourceVars, publisherVars
<1>2. NumberEvent(m.signal) \/ UNCHANGED <<pending, sequenceId>>
  BY DEF ProcessSignal
<1>3. signals \in Seq(Message) /\ m \in Message /\ m = signals[1]
  BY <1>1 DEF TypeOK
<1>4. /\ Len(signals') = Len(signals) - 1 /\ Len(signals) \in Nat /\ signals' \in Seq(Message)
      /\ \A i \in 1..Len(signals') : i + 1 \in 1..Len(signals) /\ signals'[i] = signals[i + 1]
      /\ 1 \in 1..Len(signals)
  BY <1>1, <1>3
<1> HIDE DEF m
<1>5. Kind[m.signal] \in Kinds /\ m.source \in Sources /\ m.number \in Nat
  BY <1>3, SignalsAssumption DEF Message
<1>6. pending' \subseteq Event /\ sequenceId' \in Nat
  BY <1>2, <1>5 DEF NumberEvent, Event, Side, TypeOK
<1>7. /\ lastSignal' \in [Kinds -> SUBSET Message]
      /\ \A k \in Kinds : \A l \in lastSignal'[k] : l = m \/ l \in lastSignal[k]
      /\ \A k \in Kinds : \A l \in lastSignal'[k] : Kind[l.signal] = k
  BY <1>1, <1>3, <1>5 DEF TypeOK
<1>8. TypeOK'
  BY <1>1, <1>4, <1>6, <1>7, CapacityAssumption DEF TypeOK
<1>9. EventsAccounted' /\ EventsInOrder' /\ NumbersGrow'
  <2>1. CASE UNCHANGED <<pending, sequenceId>>
    BY <1>1, <2>1, EventsUntouched
  <2>2. CASE NumberEvent(m.signal)
    <3>1. sequenceId' = sequenceId + 1 /\ InHand = 0 /\ InHand' = 1
          /\ \A e \in pending' : e.id = sequenceId
      <4>1. pending' = {[id |-> sequenceId, side |-> Side(m.signal), cause |-> Kind[m.signal]]}
            /\ sequenceId' = sequenceId + 1
        BY <2>2 DEF NumberEvent
      <4>2. pending' # {} /\ \A e \in pending' : e.id = sequenceId
        BY <4>1
      <4>3. QED
        BY <1>1, <4>1, <4>2 DEF InHand
    <3>2. sequenceId \in Nat /\ Len(events) \in Nat
      BY DEF TypeOK
    <3>3. QED
      BY <1>1, <3>1, <3>2 DEF TypeOK, EventsAccounted, EventsInOrder, NumbersGrow
  <2>3. QED
    BY <1>2, <2>1, <2>2
<1>10. \A i \in 1..Len(signals') : signals'[i].source = m.source => signals'[i].number > m.number
  <2> SUFFICES ASSUME NEW i \in 1..Len(signals'), signals'[i].source = m.source
               PROVE  signals'[i].number > m.number
    OBVIOUS
  <2>1. i + 1 \in 1..Len(signals) /\ 1 < i + 1 /\ signals'[i] = signals[i + 1]
    BY <1>4
  <2>2. signals[1].number < signals[i + 1].number
    BY <1>3, <1>4, <2>1 DEF SignalsInOrder
  <2>3. signals[i + 1].number \in Nat
    BY <1>3, <2>1, ChannelFacts
  <2>4. QED
    BY <1>3, <1>5, <2>1, <2>2, <2>3
<1>11. SourceOrderKept'
  <2> SUFFICES ASSUME NEW k \in Kinds, NEW l \in lastSignal'[k]
               PROVE  /\ \A i \in 1..Len(signals') :
                           signals'[i].source = l.source => signals'[i].number > l.number
                      /\ \A w \in blocked[l.source] : w.number > l.number
    BY <1>1 DEF SourceOrderKept
  <2>1. CASE l = m
    BY <1>3, <1>4, <1>10, <2>1, <1>5 DEF SignalsInOrder, TypeOK, Message
  <2>2. CASE l \in lastSignal[k]
    BY <1>4, <2>2 DEF SourceOrderKept
  <2>3. QED
    BY <1>7, <2>1, <2>2
<1>12. SignalsInOrder'
  <2>1. \A k \in Kinds : \A l \in lastSignal'[k] : l.number <= read[l.source]
    BY <1>3, <1>4, <1>7 DEF SignalsInOrder
  <2>2. \A i, j \in 1..Len(signals') :
          i < j /\ signals'[i].source = signals'[j].source => signals'[i].number < signals'[j].number
    BY <1>4 DEF SignalsInOrder
  <2>3. QED
    BY <1>1, <1>4, <2>1, <2>2 DEF SignalsInOrder
<1>13. QED
  BY <1>8, <1>9, <1>11, <1>12

LEMMA SendEventPreserves ==
  ASSUME CollectorInv, SendEvent
  PROVE  CollectorInv'
<1> USE DEF CollectorInv
<1>1. /\ pending # {} /\ UNCHANGED <<read, blocked, alive, signals, lastSignal, sequenceId>>
      /\ UNCHANGED <<published, dropped, publisher>>
  BY DEF SendEvent, sourceVars, publisherVars
<1>2. SourceOrderKept' /\ SignalsInOrder'
  BY <1>1, SignalsUntouched
<1>3. CASE UNCHANGED <<events, pending>>
  <2>1. TypeOK'
    BY <1>1, <1>3 DEF TypeOK, SendEvent
  <2>2. QED
    BY <1>1, <1>2, <1>3, <2>1, EventsUntouched
<1>4. CASE /\ \E e \in pending : events' = Append(events, e)
           /\ Len(events) < EventCapacity /\ pending' = {} /\ UNCHANGED collector
  <2>1. PICK e \in pending : events' = Append(events, e)
    BY <1>4
  <2>2. e \in Event /\ e.id = sequenceId - 1 /\ events \in Seq(Event)
    BY DEF TypeOK, NumbersGrow
  <2>3. /\ Len(events') = Len(events) + 1 /\ Len(events) \in Nat /\ events' \in Seq(Event)
        /\ \A i \in 1..Len(events) : events'[i] = events[i]
        /\ events'[Len(events) + 1] = e /\ events' # <<>>
    BY <2>1, <2>2
  <2>4. TypeOK'
    BY <1>1, <1>4, <2>3, CapacityAssumption DEF TypeOK
  <2>5. InHand = 1 /\ InHand' = 0 /\ sequenceId \in Nat /\ published \in Seq(Nat)
    BY <1>1, <1>4 DEF InHand, TypeOK
  <2>6. EventsAccounted'
    BY <1>1, <2>3, <2>5 DEF EventsAccounted, TypeOK
  <2>7. NumbersGrow'
    BY <1>1, <1>4, <2>3, <2>5 DEF NumbersGrow
  <2>8. \A i \in 1..Len(events') : events'[i].id = sequenceId' - InHand' - Len(events') + i - 1
    <3> SUFFICES ASSUME NEW i \in 1..Len(events')
                 PROVE  events'[i].id = sequenceId - Len(events) - 1 + i - 1
      BY <1>1, <2>3, <2>5
    <3>1. CASE i \in 1..Len(events)
      BY <2>3, <2>5, <3>1 DEF EventsInOrder
    <3>2. CASE i = Len(events) + 1
      BY <2>2, <2>3, <2>5, <3>2
    <3>3. QED
      BY <2>3, <3>1, <3>2
  <2>9. \A i \in 1..Len(published) : published[i] < events'[1].id
    <3>1. events'[1].id = sequenceId - Len(events) - 1
      BY <1>1, <2>3, <2>5, <2>8
    <3>2. QED
      BY <3>1, <2>3, <2>5 DEF NumbersGrow
  <2>10. EventsInOrder'
    BY <1>1, <2>8, <2>9 DEF EventsInOrder
  <2>11. QED
    BY <1>2, <2>4, <2>6, <2>7, <2>10
<1>5. QED
  BY <1>3, <1>4 DEF SendEvent

-----------------------------------------------------------------------------
(* The publisher                                                           *)

LEMMA PublishPreserves ==
  ASSUME CollectorInv, Publish
  PROVE  CollectorInv'
<1> USE DEF CollectorInv
<1>1. /\ events # <<>> /\ events' = Tail(events)
      /\ UNCHANGED <<read, blocked, alive, signals, lastSignal, sequenceId, collector, pending,
                     publisher>>
  BY DEF Publish, sourceVars, mainVars
<1>2. \/ published' = Append(published, Head(events).id) /\ UNCHANGED dropped
      \/ dropped' = dropped + 1 /\ UNCHANGED published
  BY DEF Publish
<1>3. events \in Seq(Event) /\ published \in Seq(Nat) /\ dropped \in Nat /\ sequenceId \in Nat
      /\ InHand \in {0, 1} /\ InHand' = InHand
  BY <1>1 DEF TypeOK, InHand
<1>4. /\ Len(events') = Len(events) - 1 /\ Len(events) \in Nat /\ events' \in Seq(Event)
      /\ \A i \in 1..Len(events') : i + 1 \in 1..Len(events) /\ events'[i] = events[i + 1]
      /\ 1 \in 1..Len(events) /\ Head(events) = events[1]
  BY <1>1, <1>3
<1> DEFINE id == Head(events).id
<1>5. id \in Nat /\ id = sequenceId - InHand - Len(events)
  <2>1. events[1] \in Event
    BY <1>3, <1>4
  <2>2. events[1].id \in Nat
    BY <2>1 DEF Event
  <2>3. events[1].id = sequenceId - InHand - Len(events)
    BY <1>3, <1>4 DEF EventsInOrder
  <2>4. QED
    BY <1>4, <2>2, <2>3
<1>6. \A i \in 1..Len(published) : published[i] < id /\ published[i] \in Nat
  BY <1>1, <1>3, <1>4 DEF EventsInOrder
<1> HIDE DEF id
<1>7. Len(published) \in Nat /\ published' \in Seq(Nat) /\ dropped' \in Nat
      /\ Len(published') + dropped' = Len(published) + dropped + 1
  <2>1. CASE published' = Append(published, id) /\ UNCHANGED dropped
    BY <1>3, <1>5, <2>1
  <2>2. CASE dropped' = dropped + 1 /\ UNCHANGED published
    BY <1>3, <2>2
  <2>3. QED
    BY <1>2, <2>1, <2>2 DEF id
<1>8. TypeOK'
  BY <1>1, <1>4, <1>7, CapacityAssumption DEF TypeOK
<1>9. SourceOrderKept' /\ SignalsInOrder'
  BY <1>1, SignalsUntouched
<1>10. EventsAccounted'
  BY <1>1, <1>3, <1>4, <1>7 DEF EventsAccounted
<1>11. \A i \in 1..Len(published') :
         published'[i] <= id /\ (i < Len(published') => published'[i] < published'[i + 1])
  <2>1. CASE published' = Append(published, id)
    <3>1. /\ Len(published') = Len(published) + 1 /\ published'[Len(published) + 1] = id
          /\ \A i \in 1..Len(published) : published'[i] = published[i]
      BY <1>3, <1>5, <2>1
    <3> SUFFICES ASSUME NEW i \in 1..Len(published')
                 PROVE  published'[i] <= id /\ (i < Len(published') => published'[i] < published'[i + 1])
      OBVIOUS
    <3>2. CASE i = Len(published) + 1
      BY <1>5, <1>7, <3>1, <3>2
    <3>3. CASE i = Len(published)
      BY <1>5, <1>6, <1>7, <3>1, <3>3
    <3>4. CASE i < Len(published)
      <4>1. i \in 1..(Len(published) - 1) /\ i + 1 \in 1..Len(published) /\ i \in 1..Len(published)
        BY <1>7, <3>4
      <4>2. published[i] < published[i + 1]
        BY <4>1 DEF EventsInOrder
      <4>3. QED
        BY <1>5, <1>6, <3>1, <4>1, <4>2
    <3>5. QED
      BY <1>7, <3>1, <3>2, <3>3, <3>4
  <2>2. CASE UNCHANGED published
    BY <1>5, <1>6, <1>7, <2>2 DEF EventsInOrder
  <2>3. QED
    BY <1>2, <2>1, <2>2 DEF id
<1>12. \A i \in 1..Len(published') : published'[i] \in Nat
  BY <1>7
<1>13. NumbersGrow'
  BY <1>1, <1>3, <1>4, <1>5, <1>11, <1>12 DEF NumbersGrow
<1>14. EventsInOrder'
  <2>1. \A i \in 1..Len(events') : events'[i].id = sequenceId' - InHand' - Len(events') + i - 1
    BY <1>1, <1>3, <1>4 DEF EventsInOrder
  <2>2. events' # <<>> => 1 \in 1..Len(events')
    BY <1>4
  <2>3. \A i \in 1..(Len(published') - 1) : published'[i] < published'[i + 1]
    BY <1>7, <1>11
  <2>4. events' # <<>> => \A i \in 1..Len(published') : published'[i] < events'[1].id
    BY <1>1, <1>3, <1>4, <1>5, <1>11, <1>12, <2>1, <2>2
  <2>5. QED
    BY <2>1, <2>3, <2>4 DEF EventsInOrder
<1>15. QED
  BY <1>8, <1>9, <1>10, <1>13, <1>14

LEMMA PublisherStopsPreserves ==
  ASSUME CollectorInv, PublisherStops
  PROVE  CollectorInv'
<1> USE DEF CollectorInv, PublisherStops, sourceVars, mainVars
<1>1. TypeOK'
  BY CapacityAssumption DEF TypeOK
<1>2. SourceOrderKept' /\ SignalsInOrder'
  BY SignalsUntouched
<1>3. events \in Seq(Event) /\ dropped \in Nat /\ sequenceId \in Nat /\ Len(events) \in Nat
      /\ InHand \in {0, 1} /\ InHand' = InHand /\ Len(events') = 0 /\ published \in Seq(Nat)
  BY DEF TypeOK, InHand
<1>4. EventsAccounted' /\ EventsInOrder' /\ NumbersGrow'
  BY <1>3 DEF EventsAccounted, EventsInOrder, NumbersGrow
<1>5. QED
  BY <1>1, <1>2, <1>4

LEMMA CollectorInvNext == CollectorInv /\ [Next]_vars => CollectorInv'
<1> SUFFICES ASSUME CollectorInv, [Next]_vars PROVE CollectorInv'
  OBVIOUS
<1>1. CASE UNCHANGED vars
  <2>1. TypeOK'
    BY <1>1 DEF vars, sourceVars, mainVars, publisherVars, CollectorInv, TypeOK
  <2>2. QED
    BY <1>1, <2>1, EventsUntouched, SignalsUntouched
    DEF vars, sourceVars, mainVars, publisherVars, CollectorInv
<1>2. CASE Next
  BY <1>2, ReadSignalPreserves, HandOverPreserves, SubscriberDiesPreserves, ProcessSignalPreserves,
     SendEventPreserves, PublishPreserves, PublisherStopsPreserves DEF Next
<1>3. QED
  BY <1>1, <1>2

-----------------------------------------------------------------------------
(* The results                                                             *)

\* The inductive invariant holds in every reachable state.
THEOREM CollectorInvAlways == Spec => []CollectorInv
<1>1. QED
  BY CollectorInvInit, CollectorInvNext, PTL DEF Spec

\* Every variable has its type; neither channel exceeds its capacity.
THEOREM TypeOKAlways == Spec => []TypeOK
<1>1. CollectorInv => TypeOK
  BY DEF CollectorInv
<1>2. QED
  BY <1>1, CollectorInvAlways, PTL

\* A full channel loses no event: each number given is published, dropped at the
\* publisher or on its way.
THEOREM EventsAccountedAlways == Spec => []EventsAccounted
<1>1. CollectorInv => EventsAccounted
  BY DEF CollectorInv
<1>2. QED
  BY <1>1, CollectorInvAlways, PTL

\* Events leave the collector in the order of their numbers.
THEOREM EventsInOrderAlways == Spec => []EventsInOrder
<1>1. CollectorInv => EventsInOrder
  BY DEF CollectorInv
<1>2. QED
  BY <1>1, CollectorInvAlways, PTL

\* The last signal of a kind is never older than one of its source that still waits.
THEOREM SourceOrderKeptAlways == Spec => []SourceOrderKept
<1>1. CollectorInv => SourceOrderKept
  BY DEF CollectorInv
<1>2. QED
  BY <1>1, CollectorInvAlways, PTL
=============================================================================
