------------------------- MODULE MpscGeneratorProofs -------------------------
(***************************************************************************)
(* The permits of the generator's channel for any sources and any capacity.*)
(* What TerminationHonoured and SourcesServed say of fair behaviours rests *)
(* on them: nobody waits beside a free permit, and a loop that waits for   *)
(* one itself never gets it.                                               *)
(***************************************************************************)
EXTENDS MpscGenerator, FiniteSetTheorems, SequenceTheorems, TLAPS

GeneratorTypeOK ==
  /\ channel \in Seq(Sources) /\ waiting \in Seq(Sources \cup {Main})
  /\ granted \subseteq Sources /\ IsFiniteSet(granted)
  /\ loop \in {"Looping", "Sending", "Returned"} /\ requested \in BOOLEAN
  /\ stats \in [market : 0..MaxCount, funding : 0..MaxCount, orderbook : 0..MaxCount,
                sent : 0..MaxCount, events : 0..MaxCount]

\* The permits and the events in the channel add up to its capacity, and no sender
\* waits beside a free permit.
NoPermitLost == Permits \in Nat /\ (waiting # <<>> => Permits = 0)

\* A sender waits in one place, and not while it holds a permit.
OnePlaceEach ==
  /\ \A i, j \in 1..Len(waiting) : waiting[i] = waiting[j] => i = j
  /\ \A i \in 1..Len(waiting) : waiting[i] \notin granted

\* The loop is among the waiting exactly while it sends its Shutdown.
MainIsWaiting == loop = "Sending" <=> \E i \in 1..Len(waiting) : waiting[i] = Main

GeneratorInv == GeneratorTypeOK /\ NoPermitLost /\ OnePlaceEach /\ MainIsWaiting

-----------------------------------------------------------------------------
(* The operators                                                           *)

LEMMA RaisedType == \A c \in 0..MaxCount : Raised(c) \in 0..MaxCount
<1> SUFFICES ASSUME NEW c \in 0..MaxCount PROVE Raised(c) \in 0..MaxCount
  OBVIOUS
<1> DEFINE S == {c + 1, MaxCount}
           IsLeast(x) == x \in S /\ \A y \in S : x <= y
<1>1. c + 1 \in Nat /\ MaxCount \in Nat
  BY GeneratorAssumption
<1>2. \E x : IsLeast(x)
  <2>1. CASE c + 1 <= MaxCount
    BY <1>1, <2>1
  <2>2. CASE MaxCount <= c + 1
    BY <1>1, <2>2
  <2>3. QED
    BY <1>1, <2>1, <2>2
<1>3. Min(S) = CHOOSE x \in S : \A y \in S : x <= y
  BY DEF Min
<1>4. Min(S) \in S /\ Min(S) <= MaxCount
  BY <1>2, <1>3
<1>5. QED
  BY <1>1, <1>4 DEF Raised

\* What taking the first of the waiting leaves.
LEMMA FirstRemoved ==
  ASSUME NEW X, NEW w \in Seq(X), w # <<>>
  PROVE  /\ RemoveAt(w, 1) \in Seq(X) /\ Len(RemoveAt(w, 1)) = Len(w) - 1
         /\ w[1] \in X /\ Len(w) \in Nat \ {0}
         /\ \A i \in 1..(Len(w) - 1) : RemoveAt(w, 1)[i] = w[i + 1]
<1>1. Len(w) \in Nat \ {0}
  OBVIOUS
<1>2. RemoveAt(w, 1) = SubSeq(w, 1, 0) \o SubSeq(w, 2, Len(w))
  BY DEF RemoveAt
<1>3. SubSeq(w, 1, 0) = <<>>
  OBVIOUS
<1> DEFINE t == SubSeq(w, 2, Len(w))
<1>4. t \in Seq(X) /\ Len(t) = Len(w) - 1 /\ \A i \in 1..(Len(w) - 1) : t[i] = w[i + 1]
  <2>1. t = Tail(w)
    BY TailIsSubSeq
  <2>2. /\ Tail(w) \in Seq(X) /\ Len(Tail(w)) = Len(w) - 1
        /\ \A i \in 1..Len(Tail(w)) : Tail(w)[i] = w[i + 1]
    BY HeadTailProperties
  <2>3. QED
    BY <2>1, <2>2
<1>5. RemoveAt(w, 1) = t
  <2>1. <<>> \o t = t
    BY <1>4
  <2>2. QED
    BY <1>2, <1>3, <2>1
<1> HIDE DEF t
<1>6. w[1] \in X
  BY <1>1
<1>7. QED
  BY <1>1, <1>4, <1>5, <1>6

\* Appending a sender that is not waiting keeps one place for each.
LEMMA WaitsLast ==
  ASSUME NEW X, NEW w \in Seq(X), NEW s \in X,
         \A i, j \in 1..Len(w) : w[i] = w[j] => i = j,
         \A i \in 1..Len(w) : w[i] # s
  PROVE  /\ Append(w, s) \in Seq(X) /\ Append(w, s) # <<>> /\ Len(w) \in Nat
         /\ Len(Append(w, s)) = Len(w) + 1 /\ Append(w, s)[Len(w) + 1] = s
         /\ \A i \in 1..Len(w) : Append(w, s)[i] = w[i]
         /\ \A i, j \in 1..(Len(w) + 1) : Append(w, s)[i] = Append(w, s)[j] => i = j
<1>1. /\ Append(w, s) \in Seq(X) /\ Append(w, s) # <<>> /\ Len(w) \in Nat
      /\ Len(Append(w, s)) = Len(w) + 1 /\ Append(w, s)[Len(w) + 1] = s
      /\ \A i \in 1..Len(w) : Append(w, s)[i] = w[i]
  OBVIOUS
<1>2. \A i \in 1..(Len(w) + 1) : i \in 1..Len(w) \/ i = Len(w) + 1
  BY <1>1
<1>3. QED
  BY <1>1, <1>2

LEMMA PermitsAre ==
  ASSUME GeneratorTypeOK
  PROVE  /\ Len(channel) \in Nat /\ Cardinality(granted) \in Nat /\ Capacity \in Nat \ {0}
         /\ Permits = Capacity - Len(channel) - Cardinality(granted)
  BY GeneratorAssumption, FS_CardinalityType DEF GeneratorTypeOK, Permits

-----------------------------------------------------------------------------
(* The invariant                                                           *)

LEMMA GeneratorInvInit == Init => GeneratorInv
<1> SUFFICES ASSUME Init PROVE GeneratorInv
  OBVIOUS
<1>1. GeneratorTypeOK
  <2>1. 0 \in 0..MaxCount
    BY GeneratorAssumption
  <2>2. stats \in [market : 0..MaxCount, funding : 0..MaxCount, orderbook : 0..MaxCount,
                   sent : 0..MaxCount, events : 0..MaxCount]
    BY <2>1 DEF Init, NewStatistics
  <2>3. channel = <<>> /\ waiting = <<>> /\ granted = {} /\ loop = "Looping" /\ requested = FALSE
    BY DEF Init
  <2>4. IsFiniteSet(granted) /\ granted \subseteq Sources
    BY <2>3, FS_EmptySet
  <2>5. channel \in Seq(Sources) /\ waiting \in Seq(Sources \cup {Main})
    BY <2>3
  <2>6. QED
    BY <2>2, <2>3, <2>4, <2>5 DEF GeneratorTypeOK
<1>2. NoPermitLost
  BY GeneratorAssumption, FS_EmptySet DEF Init, NoPermitLost, Permits
<1>3. QED
  BY <1>1, <1>2 DEF Init, GeneratorInv, OnePlaceEach, MainIsWaiting

LEMMA SendPreserves ==
  ASSUME GeneratorInv, NEW s \in Sources, Send(s)
  PROVE  GeneratorInv'
<1> USE DEF GeneratorInv, GeneratorTypeOK
<1>1. /\ granted' = granted /\ loop' = loop /\ requested' = requested /\ stats' = stats
      /\ s \notin granted /\ s \notin ToSet(waiting)
  BY DEF Send
<1>2. \A i \in 1..Len(waiting) : waiting[i] # s
  BY <1>1 DEF ToSet
<1>3. CASE Permits > 0
  <2>1. channel' = Append(channel, s) /\ waiting' = waiting
    BY <1>3 DEF Send
  <2>2. channel' \in Seq(Sources) /\ Len(channel') = Len(channel) + 1
    BY <2>1
  <2>3. GeneratorTypeOK'
    BY <1>1, <2>1, <2>2
  <2>4. Permits' = Permits - 1 /\ Permits \in Nat
    BY <1>1, <2>2, PermitsAre DEF Permits, NoPermitLost
  <2>5. NoPermitLost'
    BY <1>3, <2>1, <2>4 DEF NoPermitLost
  <2>6. QED
    BY <1>1, <2>1, <2>3, <2>5 DEF OnePlaceEach, MainIsWaiting
<1>4. CASE ~(Permits > 0)
  <2>1. waiting' = Append(waiting, s) /\ channel' = channel
    BY <1>4 DEF Send
  <2>2. s \in Sources \cup {Main} /\ s # Main
    BY GeneratorAssumption
  <2>3. /\ waiting' \in Seq(Sources \cup {Main}) /\ Len(waiting) \in Nat
        /\ Len(waiting') = Len(waiting) + 1 /\ waiting'[Len(waiting) + 1] = s
        /\ \A i \in 1..Len(waiting) : waiting'[i] = waiting[i]
        /\ \A i, j \in 1..(Len(waiting) + 1) : waiting'[i] = waiting'[j] => i = j
    BY <1>2, <2>1, <2>2, WaitsLast DEF OnePlaceEach
  <2>4. GeneratorTypeOK'
    BY <1>1, <2>1, <2>3
  <2>5. NoPermitLost'
    BY <1>1, <1>4, <2>1 DEF NoPermitLost, Permits
  <2>6. \A i \in 1..(Len(waiting) + 1) : i \in 1..Len(waiting) \/ i = Len(waiting) + 1
    BY <2>3
  <2>7. OnePlaceEach'
    BY <1>1, <2>3, <2>6 DEF OnePlaceEach
  <2>8. MainIsWaiting'
    <3>1. (\E i \in 1..Len(waiting') : waiting'[i] = Main) <=> \E i \in 1..Len(waiting) : waiting[i] = Main
      BY <2>2, <2>3, <2>6
    <3>2. QED
      BY <1>1, <3>1 DEF MainIsWaiting
  <2>9. QED
    BY <2>4, <2>5, <2>7, <2>8
<1>5. QED
  BY <1>3, <1>4

LEMMA SendGrantedPreserves ==
  ASSUME GeneratorInv, NEW s \in Sources, SendGranted(s)
  PROVE  GeneratorInv'
<1> USE DEF GeneratorInv, GeneratorTypeOK
<1>1. /\ s \in granted /\ channel' = Append(channel, s) /\ granted' = granted \ {s}
      /\ waiting' = waiting /\ loop' = loop /\ requested' = requested /\ stats' = stats
  BY DEF SendGranted
<1>2. channel' \in Seq(Sources) /\ Len(channel') = Len(channel) + 1
  BY <1>1
<1>3. IsFiniteSet(granted') /\ Cardinality(granted') = Cardinality(granted) - 1
  BY <1>1, FS_RemoveElement
<1>4. GeneratorTypeOK'
  BY <1>1, <1>2, <1>3
<1>5. Permits' = Permits
  <2>1. Len(channel) \in Nat /\ Cardinality(granted) \in Nat /\ Capacity \in Nat
    BY PermitsAre
  <2>2. Permits' = Capacity - Len(channel') - Cardinality(granted')
    BY DEF Permits
  <2>3. QED
    BY <1>2, <1>3, <2>1, <2>2 DEF Permits
<1>6. QED
  BY <1>1, <1>4, <1>5 DEF NoPermitLost, OnePlaceEach, MainIsWaiting

LEMMA ReceiveEventPreserves ==
  ASSUME GeneratorInv, ReceiveEvent
  PROVE  GeneratorInv'
<1> USE DEF GeneratorInv, GeneratorTypeOK
<1>1. /\ loop = "Looping" /\ loop' = loop /\ requested' = requested
      /\ channel # <<>> /\ channel' = Tail(channel) /\ PassPermit
  BY DEF ReceiveEvent
<1>2. channel' \in Seq(Sources) /\ Len(channel') = Len(channel) - 1
  BY <1>1
<1>3. stats' \in [market : 0..MaxCount, funding : 0..MaxCount, orderbook : 0..MaxCount,
                  sent : 0..MaxCount, events : 0..MaxCount]
  <2>1. PICK sent \in SaysSent(Head(channel)) : stats' = Counted(Head(channel), sent)
    BY DEF ReceiveEvent
  <2>2. QED
    BY <2>1, RaisedType DEF Counted
<1>4. CASE waiting = <<>>
  <2>1. waiting' = waiting /\ granted' = granted
    BY <1>1, <1>4 DEF PassPermit
  <2>2. GeneratorTypeOK'
    BY <1>1, <1>2, <1>3, <2>1
  <2>3. Permits' = Permits + 1 /\ Permits \in Nat
    BY <1>2, <2>1, PermitsAre DEF Permits, NoPermitLost
  <2>4. QED
    BY <1>1, <1>4, <2>1, <2>2, <2>3 DEF NoPermitLost, OnePlaceEach, MainIsWaiting
<1>5. CASE waiting # <<>>
  <2> DEFINE n == Len(waiting)
             first == waiting[1]
  <2>1. granted' = granted \cup {first} /\ waiting' = RemoveAt(waiting, 1)
    BY <1>1, <1>5 DEF PassPermit, NextWaiter
  <2>2. /\ waiting' \in Seq(Sources \cup {Main}) /\ Len(waiting') = n - 1
        /\ first \in Sources \cup {Main} /\ n \in Nat \ {0}
        /\ \A i \in 1..(n - 1) : waiting'[i] = waiting[i + 1]
    BY <1>5, <2>1, FirstRemoved
  <2>3. \A i \in 1..n : waiting[i] # Main /\ waiting[i] \notin granted
    BY <1>1 DEF MainIsWaiting, OnePlaceEach
  <2>4. 1 \in 1..n /\ \A i \in 1..(n - 1) : i + 1 \in 1..n /\ i + 1 # 1
    BY <2>2
  <2>5. first \in Sources /\ first \notin granted
    BY <2>2, <2>3, <2>4
  <2> HIDE DEF n, first
  <2>6. IsFiniteSet(granted') /\ Cardinality(granted') = Cardinality(granted) + 1
    BY <2>1, <2>5, FS_AddElement
  <2>7. GeneratorTypeOK'
    BY <1>1, <1>2, <1>3, <2>1, <2>2, <2>5, <2>6
  <2>8. Permits' = Permits /\ Permits = 0
    BY <1>2, <1>5, <2>6, PermitsAre DEF Permits, NoPermitLost
  <2>9. OnePlaceEach'
    <3>1. \A i, j \in 1..n : waiting[i] = waiting[j] => i = j
      BY DEF OnePlaceEach, n
    <3>2. ASSUME NEW i \in 1..(n - 1), NEW j \in 1..(n - 1), waiting'[i] = waiting'[j] PROVE i = j
      <4>1. i + 1 = j + 1
        BY <2>2, <2>4, <3>1, <3>2
      <4>2. QED
        BY <2>2, <4>1
    <3>3. ASSUME NEW i \in 1..(n - 1) PROVE waiting'[i] \notin granted'
      <4>1. waiting'[i] = waiting[i + 1] /\ waiting[i + 1] \notin granted /\ waiting[i + 1] # waiting[1]
        BY <2>2, <2>3, <2>4, <3>1
      <4>2. QED
        BY <2>1, <4>1 DEF first
    <3>4. QED
      BY <2>2, <3>2, <3>3 DEF OnePlaceEach
  <2>10. MainIsWaiting'
    <3>1. \A i \in 1..(n - 1) : waiting'[i] # Main
      BY <2>2, <2>3, <2>4
    <3>2. QED
      BY <1>1, <2>2, <3>1 DEF MainIsWaiting
  <2>11. NoPermitLost'
    BY <2>8 DEF NoPermitLost
  <2>12. QED
    BY <2>7, <2>9, <2>10, <2>11
<1>6. QED
  BY <1>4, <1>5

LEMMA CheckNodePreserves ==
  ASSUME GeneratorInv, CheckNode
  PROVE  GeneratorInv'
<1> USE DEF GeneratorInv, GeneratorTypeOK
<1>1. /\ loop = "Looping" /\ channel' = channel /\ granted' = granted
      /\ requested' = requested /\ stats' = stats
  BY DEF CheckNode, CheckTurn
<1>2. \A i \in 1..Len(waiting) : waiting[i] # Main
  BY <1>1 DEF MainIsWaiting
<1>3. CASE Permits > 0
  <2>1. loop' = "Returned" /\ waiting' = waiting
    BY <1>3 DEF CheckNode
  <2>2. QED
    BY <1>1, <1>2, <2>1 DEF NoPermitLost, Permits, OnePlaceEach, MainIsWaiting
<1>4. CASE ~(Permits > 0)
  <2>1. loop' = "Sending" /\ waiting' = Append(waiting, Main)
    BY <1>4 DEF CheckNode
  <2>2. Main \in Sources \cup {Main} /\ Main \notin granted
    BY GeneratorAssumption
  <2>3. /\ waiting' \in Seq(Sources \cup {Main}) /\ Len(waiting) \in Nat
        /\ Len(waiting') = Len(waiting) + 1 /\ waiting'[Len(waiting) + 1] = Main
        /\ \A i \in 1..Len(waiting) : waiting'[i] = waiting[i]
        /\ \A i, j \in 1..(Len(waiting) + 1) : waiting'[i] = waiting'[j] => i = j
    BY <1>2, <2>1, <2>2, WaitsLast DEF OnePlaceEach
  <2>4. GeneratorTypeOK'
    BY <1>1, <2>1, <2>3
  <2>5. NoPermitLost'
    BY <1>1, <1>4, <2>1 DEF NoPermitLost, Permits
  <2>6. Len(waiting) + 1 \in 1..(Len(waiting) + 1)
        /\ \A i \in 1..(Len(waiting) + 1) : i \in 1..Len(waiting) \/ i = Len(waiting) + 1
    BY <2>3
  <2>7. OnePlaceEach'
    BY <1>1, <2>2, <2>3, <2>6 DEF OnePlaceEach
  <2>8. MainIsWaiting'
    BY <2>1, <2>3, <2>6 DEF MainIsWaiting
  <2>9. QED
    BY <2>4, <2>5, <2>7, <2>8
<1>5. QED
  BY <1>3, <1>4

LEMMA GeneratorInvNext == GeneratorInv /\ [Next]_vars => GeneratorInv'
<1> SUFFICES ASSUME GeneratorInv, [Next]_vars PROVE GeneratorInv'
  OBVIOUS
<1>1. ASSUME UNCHANGED <<channelVars, loop>>, requested' \in BOOLEAN, stats' = stats \/ stats' = NewStatistics
      PROVE  GeneratorInv'
  <2>1. NewStatistics \in [market : 0..MaxCount, funding : 0..MaxCount, orderbook : 0..MaxCount,
                            sent : 0..MaxCount, events : 0..MaxCount]
    BY GeneratorAssumption DEF NewStatistics
  <2>2. QED
    BY <1>1, <2>1 DEF channelVars, GeneratorInv, GeneratorTypeOK, NoPermitLost, Permits,
       OnePlaceEach, MainIsWaiting
<1>2. CASE PrintAndReset
  BY <1>1, <1>2 DEF PrintAndReset, GeneratorInv, GeneratorTypeOK
<1>3. CASE RequestTermination
  BY <1>1, <1>3 DEF RequestTermination
<1>4. CASE UNCHANGED vars
  BY <1>1, <1>4 DEF vars, GeneratorInv, GeneratorTypeOK
<1>5. QED
  BY <1>2, <1>3, <1>4, SendPreserves, SendGrantedPreserves, ReceiveEventPreserves, CheckNodePreserves
     DEF Next

-----------------------------------------------------------------------------
(* The theorems                                                            *)

THEOREM GeneratorInvAlways == Spec => []GeneratorInv
  BY GeneratorInvInit, GeneratorInvNext, PTL DEF Spec

\* No permit is lost between the receiver and the senders: what is not in the channel
\* or promised is free, and nobody waits beside a free permit, for any capacity.
THEOREM NoPermitLostAlways == Spec => []NoPermitLost
<1>1. GeneratorInv => NoPermitLost
  BY DEF GeneratorInv
<1>2. QED
  BY <1>1, GeneratorInvAlways, PTL

\* A loop that has to wait for a permit to send its own Shutdown waits for ever, and
\* no permit becomes free again: it never returns.
THEOREM SelfSendIsFinal == Spec => [](loop = "Sending" => [](loop = "Sending" /\ Permits = 0))
<1>1. GeneratorInv /\ loop = "Sending" => Permits = 0
  <2> SUFFICES ASSUME GeneratorInv, loop = "Sending" PROVE Permits = 0
    OBVIOUS
  <2>1. PICK i \in 1..Len(waiting) : waiting[i] = Main
    BY DEF GeneratorInv, MainIsWaiting
  <2>2. waiting # <<>>
    BY <2>1
  <2>3. QED
    BY <2>2 DEF GeneratorInv, NoPermitLost
<1>2. loop = "Sending" /\ [Next]_vars => (loop = "Sending")'
  BY DEF Next, Send, SendGranted, ReceiveEvent, PrintAndReset, CheckNode, CheckTurn,
     RequestTermination, vars
<1>3. QED
  BY <1>1, <1>2, GeneratorInvAlways, PTL DEF Spec

\* When the loop and all sources wait for a permit, no step is possible any more: the
\* state of TerminationHonoured is final, for any number of sources.
THEOREM BlockedForEver == Spec => [](AllBlocked => []AllBlocked)
<1>1. AllBlocked /\ [Next]_vars => AllBlocked'
  <2> SUFFICES ASSUME AllBlocked, [Next]_vars PROVE AllBlocked'
    OBVIOUS
  <2>1. ~Next
    BY DEF AllBlocked, Next, Send, SendGranted, ReceiveEvent, PrintAndReset, CheckNode, CheckTurn,
       RequestTermination
  <2>2. QED
    BY <2>1 DEF AllBlocked, vars, channelVars
<1>2. QED
  BY <1>1, PTL DEF Spec
=============================================================================
