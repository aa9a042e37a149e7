---------------------------- MODULE WsPoolProofs ----------------------------
(***************************************************************************)
(* The safety properties of WsPool for any set of connections and any      *)
(* configuration of them.                                                  *)
(***************************************************************************)
EXTENDS WsPool, TLAPS

\* A runner on its way to a connection shows neither an error nor an end.
ConnectingIsShown ==
  \A c \in Conns : phase[c] \in {"Connecting", "Subscribing"} => state[c] = "Connecting"

PoolInv ==
  /\ TypeOK /\ TrackedHaveRunners /\ StateFollowsSocket /\ MissedPongIsReal
  /\ ConnectingIsShown

LEMMA PoolInvInit == Init => PoolInv
<1> SUFFICES ASSUME Init PROVE PoolInv
  OBVIOUS
<1> USE DEF Init
<1>1. TypeOK
  BY DEF TypeOK
<1>2. TrackedHaveRunners
  BY DEF TrackedHaveRunners
<1>3. StateFollowsSocket /\ MissedPongIsReal /\ ConnectingIsShown
  BY DEF StateFollowsSocket, MissedPongIsReal, ConnectingIsShown
<1>4. QED
  BY <1>1, <1>2, <1>3 DEF PoolInv

-----------------------------------------------------------------------------
(* The pool                                                                *)

LEMMA CreateConnectionPreserves ==
  ASSUME PoolInv, NEW c \in Conns, CreateConnection(c)
  PROVE  PoolInv'
<1> USE DEF PoolInv, CreateConnection
<1>1. TypeOK'
  BY DEF TypeOK
<1>2. TrackedHaveRunners'
  BY DEF TypeOK, TrackedHaveRunners
<1>3. StateFollowsSocket'
  BY DEF TypeOK, StateFollowsSocket
<1>4. MissedPongIsReal' /\ ConnectingIsShown'
  BY DEF TypeOK, MissedPongIsReal, ConnectingIsShown
<1>5. QED
  BY <1>1, <1>2, <1>3, <1>4

LEMMA SendPreserves ==
  ASSUME PoolInv, NEW c \in Conns, SendToConnection(c)
  PROVE  PoolInv'
  BY DEF SendToConnection, runnerVars, PoolInv, TypeOK, TrackedHaveRunners, StateFollowsSocket,
     MissedPongIsReal, ConnectingIsShown

LEMMA PoolStepsPreserve ==
  ASSUME PoolInv, StartReturns \/ Shutdown \/ ClearConnections
  PROVE  PoolInv'
<1> USE DEF StartReturns, Shutdown, ClearConnections, runnerVars, PoolInv
<1>1. UNCHANGED <<exchange, runnerVars>>
  OBVIOUS
<1>2. TypeOK'
  BY DEF TypeOK
<1>3. TrackedHaveRunners'
  BY <1>1 DEF TrackedHaveRunners
<1>4. StateFollowsSocket' /\ MissedPongIsReal' /\ ConnectingIsShown'
  BY <1>1 DEF StateFollowsSocket, MissedPongIsReal, ConnectingIsShown
<1>5. QED
  BY <1>2, <1>3, <1>4

-----------------------------------------------------------------------------
(* The runners                                                             *)

\* A step of a runner that is and stays spawned keeps the pool's view of it.
LEMMA TrackedPreserved ==
  ASSUME PoolInv, UNCHANGED poolVars,
         \A c \in Conns : phase'[c] = phase[c] \/ (phase[c] # "None" /\ phase'[c] # "None")
  PROVE  TrackedHaveRunners'
  BY DEF poolVars, PoolInv, TypeOK, TrackedHaveRunners

LEMMA ConnectPreserves ==
  ASSUME PoolInv, NEW c \in Conns, Connect(c)
  PROVE  PoolInv'
<1> USE DEF PoolInv, Connect, poolVars
<1>1. TypeOK'
  BY DEF TypeOK
<1>2. TrackedHaveRunners'
  BY TrackedPreserved DEF TypeOK
<1>3. StateFollowsSocket'
  <2>1. socket[c] = "None" /\ state[c] # "Connected"
    BY DEF TypeOK, StateFollowsSocket
  <2>2. CASE phase' = [phase EXCEPT ![c] = "Subscribing"] /\ UNCHANGED state
    <3>1. state[c] \notin {"Disconnected", "Error"}
      BY DEF ConnectingIsShown
    <3>2. QED
      BY <2>1, <2>2, <3>1 DEF TypeOK, StateFollowsSocket
  <2>3. CASE phase' = [phase EXCEPT ![c] = "Backoff"] /\ UNCHANGED socket
    BY <2>1, <2>3 DEF TypeOK, StateFollowsSocket
  <2>4. QED
    BY <2>2, <2>3
<1>4. MissedPongIsReal' /\ ConnectingIsShown'
  BY DEF TypeOK, MissedPongIsReal, ConnectingIsShown
<1>5. QED
  BY <1>1, <1>2, <1>3, <1>4

\* A socket that has just subscribed waits for no pong: waiting_pong is local to
\* the loop that serves it.
LEMMA SubscribePreserves ==
  ASSUME PoolInv, NEW c \in Conns, Subscribe(c)
  PROVE  PoolInv'
<1> USE DEF PoolInv, Subscribe, poolVars
<1>1. TypeOK'
  <2>1. CASE phase' = [phase EXCEPT ![c] = "Running"] /\ UNCHANGED socket
    <3>1. /\ state' = [state EXCEPT ![c] = "Connected"]
          /\ channels' = [channels EXCEPT ![c] = @ \cup {"runner"}]
          /\ waitingPong' = [waitingPong EXCEPT ![c] = FALSE]
      BY <2>1 DEF TypeOK
    <3>2. channels' \in [Conns -> SUBSET {"pool", "runner"}]
      BY <3>1 DEF TypeOK
    <3>3. waitingPong' \in [Conns -> BOOLEAN]
      BY <3>1 DEF TypeOK
    <3>4. /\ \A d \in Conns : socket'[d] # "None" <=> phase'[d] \in {"Subscribing", "Running"}
          /\ phase' \in [Conns -> {"None", "Connecting", "Subscribing", "Running", "Backoff",
                                   "Closed"}]
      BY <2>1 DEF TypeOK
    <3>5. QED
      BY <2>1, <3>1, <3>2, <3>3, <3>4 DEF TypeOK
  <2>2. CASE phase' = [phase EXCEPT ![c] = "Connecting"] /\ socket' = [socket EXCEPT ![c] = "None"]
    BY <2>2 DEF TypeOK
  <2>3. QED
    BY <2>1, <2>2
<1>2. TrackedHaveRunners'
  BY TrackedPreserved DEF TypeOK
<1>3. StateFollowsSocket'
  BY DEF TypeOK, StateFollowsSocket
<1>4. MissedPongIsReal' /\ ConnectingIsShown'
  BY DEF TypeOK, MissedPongIsReal, ConnectingIsShown
<1>5. QED
  BY <1>1, <1>2, <1>3, <1>4

\* Leaving the loop, for whatever reason.
LEMMA BreakLoopPreserves ==
  ASSUME PoolInv, NEW c \in Conns, phase[c] = "Running", BreakLoop(c)
  PROVE  PoolInv'
<1> USE DEF PoolInv, BreakLoop, poolVars
<1>1. TypeOK'
  BY DEF TypeOK
<1>2. TrackedHaveRunners'
  BY TrackedPreserved DEF TypeOK
<1>3. StateFollowsSocket'
  BY DEF TypeOK, StateFollowsSocket
<1>4. MissedPongIsReal' /\ ConnectingIsShown'
  BY DEF TypeOK, MissedPongIsReal, ConnectingIsShown
<1>5. QED
  BY <1>1, <1>2, <1>3, <1>4

\* A ping, counted as waiting for its pong or not.
LEMMA PingPreserves ==
  ASSUME PoolInv, NEW c \in Conns, NEW b \in BOOLEAN, Ping(c),
         waitingPong' = [waitingPong EXCEPT ![c] = b]
  PROVE  PoolInv'
<1> USE DEF PoolInv, Ping, poolVars
<1>1. TypeOK'
  BY DEF TypeOK
<1>2. TrackedHaveRunners'
  BY TrackedPreserved DEF TypeOK
<1>3. StateFollowsSocket'
  BY DEF TypeOK, StateFollowsSocket
<1>4. MissedPongIsReal' /\ ConnectingIsShown'
  BY DEF TypeOK, MissedPongIsReal, ConnectingIsShown
<1>5. QED
  BY <1>1, <1>2, <1>3, <1>4

LEMMA TimerPreserves ==
  ASSUME PoolInv, NEW c \in Conns, Timer(c)
  PROVE  PoolInv'
<1>1. CASE phase[c] = "Running" /\ BreakLoop(c)
  BY <1>1, BreakLoopPreserves
<1>2. CASE OkexTimer(c) /\ ~BreakLoop(c)
  <2>1. Ping(c) /\ waitingPong' = [waitingPong EXCEPT ![c] = TRUE]
    BY <1>2 DEF OkexTimer
  <2>2. QED
    BY <2>1, PingPreserves
<1>3. CASE BybitTimer(c)
  <2>1. Ping(c) /\ waitingPong' = [waitingPong EXCEPT ![c] = waitingPong[c]]
    BY <1>3 DEF BybitTimer, PoolInv, TypeOK
  <2>2. waitingPong[c] \in BOOLEAN
    BY DEF PoolInv, TypeOK
  <2>3. QED
    BY <2>1, <2>2, PingPreserves
<1>4. QED
  BY <1>1, <1>2, <1>3 DEF Timer, BinanceTimer, OkexTimer

LEMMA ReceivePongPreserves ==
  ASSUME PoolInv, NEW c \in Conns, ReceivePong(c)
  PROVE  PoolInv'
<1> USE DEF PoolInv, ReceivePong, poolVars
<1>1. TypeOK'
  BY DEF TypeOK
<1>2. TrackedHaveRunners'
  BY TrackedPreserved DEF TypeOK
<1>3. StateFollowsSocket' /\ MissedPongIsReal' /\ ConnectingIsShown'
  BY DEF TypeOK, StateFollowsSocket, MissedPongIsReal, ConnectingIsShown
<1>4. QED
  BY <1>1, <1>2, <1>3

LEMMA PeerVanishesPreserves ==
  ASSUME PoolInv, NEW c \in Conns, PeerVanishes(c)
  PROVE  PoolInv'
<1> USE DEF PoolInv, PeerVanishes, poolVars
<1>1. TypeOK'
  BY DEF TypeOK
<1>2. TrackedHaveRunners'
  BY TrackedPreserved DEF TypeOK
<1>3. StateFollowsSocket' /\ MissedPongIsReal' /\ ConnectingIsShown'
  BY DEF TypeOK, StateFollowsSocket, MissedPongIsReal, ConnectingIsShown
<1>4. QED
  BY <1>1, <1>2, <1>3

LEMMA ReconnectPreserves ==
  ASSUME PoolInv, NEW c \in Conns, Reconnect(c)
  PROVE  PoolInv'
<1> USE DEF PoolInv, Reconnect, poolVars
<1>1. TypeOK'
  BY DEF TypeOK
<1>2. TrackedHaveRunners'
  BY TrackedPreserved DEF TypeOK
<1>3. StateFollowsSocket' /\ MissedPongIsReal' /\ ConnectingIsShown'
  BY DEF TypeOK, StateFollowsSocket, MissedPongIsReal, ConnectingIsShown
<1>4. QED
  BY <1>1, <1>2, <1>3

LEMMA ObserveShutdownPreserves ==
  ASSUME PoolInv, NEW c \in Conns, ObserveShutdown(c)
  PROVE  PoolInv'
<1> USE DEF PoolInv, ObserveShutdown, poolVars
<1>1. TypeOK'
  BY DEF TypeOK
<1>2. TrackedHaveRunners'
  BY TrackedPreserved DEF TypeOK
<1>3. StateFollowsSocket' /\ MissedPongIsReal' /\ ConnectingIsShown'
  BY DEF TypeOK, StateFollowsSocket, MissedPongIsReal, ConnectingIsShown
<1>4. QED
  BY <1>1, <1>2, <1>3

LEMMA PoolInvNext == PoolInv /\ [Next]_vars => PoolInv'
<1> SUFFICES ASSUME PoolInv, [Next]_vars PROVE PoolInv'
  OBVIOUS
<1>1. CASE StartReturns \/ Shutdown \/ ClearConnections
  BY <1>1, PoolStepsPreserve
<1>2. CASE \E c \in Conns : CreateConnection(c) \/ SendToConnection(c)
  BY <1>2, CreateConnectionPreserves, SendPreserves
<1>3. CASE \E c \in Conns : Connect(c) \/ Subscribe(c) \/ Timer(c) \/ ReceivePong(c)
  BY <1>3, ConnectPreserves, SubscribePreserves, TimerPreserves, ReceivePongPreserves
<1>4. CASE \E c \in Conns : PeerVanishes(c) \/ Reconnect(c) \/ ObserveShutdown(c)
  BY <1>4, PeerVanishesPreserves, ReconnectPreserves, ObserveShutdownPreserves
<1>5. CASE \E c \in Conns : SocketFails(c)
  BY <1>5, BreakLoopPreserves DEF SocketFails
<1>6. CASE UNCHANGED vars
  BY <1>6 DEF vars, poolVars, runnerVars, PoolInv, TypeOK, TrackedHaveRunners,
     StateFollowsSocket, MissedPongIsReal, ConnectingIsShown
<1>7. QED
  BY <1>1, <1>2, <1>3, <1>4, <1>5, <1>6 DEF Next

-----------------------------------------------------------------------------
(* The theorems                                                            *)

\* The four invariants of the pool hold together in every reachable state, for any
\* mix of exchanges.
THEOREM PoolInvAlways == Spec => []PoolInv
  BY PoolInvInit, PoolInvNext, PTL DEF Spec

\* Types, and a socket exactly while a runner subscribes or serves it.
THEOREM TypeOKAlways == Spec => []TypeOK
<1>1. PoolInv => TypeOK
  BY DEF PoolInv
<1>2. QED
  BY <1>1, PoolInvAlways, PTL

\* The pool knows of every runner until it is cleared, and of nobody else.
THEOREM TrackedHaveRunnersAlways == Spec => []TrackedHaveRunners
<1>1. PoolInv => TrackedHaveRunners
  BY DEF PoolInv
<1>2. QED
  BY <1>1, PoolInvAlways, PTL

\* The state the pool reads agrees with the socket the runner has.
THEOREM StateFollowsSocketAlways == Spec => []StateFollowsSocket
<1>1. PoolInv => StateFollowsSocket
  BY DEF PoolInv
<1>2. QED
  BY <1>1, PoolInvAlways, PTL

\* No OKEx socket is given up for the missing pong of an earlier one.
THEOREM MissedPongIsRealAlways == Spec => []MissedPongIsReal
<1>1. PoolInv => MissedPongIsReal
  BY DEF PoolInv
<1>2. QED
  BY <1>1, PoolInvAlways, PTL
=============================================================================
