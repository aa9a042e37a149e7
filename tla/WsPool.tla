------------------------------- MODULE WsPool -------------------------------
(***************************************************************************)
(* The WebSocket pool of the trading engine and the runners it spawns      *)
(* (trading-engine/src/ws_pool).  The pool stores a copy of every          *)
(* connection and gives another copy to a runner, a task that connects,    *)
(* subscribes, serves its socket in a select loop until something breaks   *)
(* it, sleeps and connects again.  The two copies share state and the      *)
(* shutdown watch, not the command channel.                                *)
(*                                                                         *)
(* The exchanges differ in their timer: Binance gives the socket up after  *)
(* a silence, OKEx pings and gives up when the pong is missing at the next *)
(* timer, Bybit only pings.  A socket is alive, dead (the peer is gone and *)
(* nothing says so) or absent; a write to a dead socket may succeed.       *)
(***************************************************************************)
EXTENDS FiniteSets

CONSTANTS
  Conns,          \* the connections start creates
  Configurations  \* the configurations: the exchange of each connection

Supported == {"binance", "okex", "bybit"}

ASSUME ConfigurationsAssumption ==
  IsFiniteSet(Conns) /\ Configurations \subseteq [Conns -> Supported \cup {"other"}]

VARIABLES
  exchange,    \* the configuration in force
  startup,     \* "Starting", "Started" or "Failed": where start is
  tracked,     \* WsPool.connections
  phase,       \* where each runner is; "None" before it is spawned
  state,       \* ConnectionState, in an Arc both copies share
  channels,    \* the copies of the connection whose command_tx is set
  socket,      \* "None", "Alive" or "Dead"
  waitingPong, \* OKEx: waiting_pong
  pinged,      \* a ping on this very socket has not been answered
  shutdown,    \* the watched value
  unseen,      \* the runners whose receiver has not seen the watch change
  lastSend     \* what send_to_connection last returned for the connection

poolVars == <<exchange, startup, tracked, shutdown, lastSend>>
runnerVars == <<phase, state, channels, socket, waitingPong, pinged>>
vars == <<poolVars, runnerVars, unseen>>

Init ==
  /\ exchange \in Configurations
  /\ startup = "Starting"
  /\ tracked = {}
  /\ phase = [c \in Conns |-> "None"]
  /\ state = [c \in Conns |-> "Disconnected"]
  /\ channels = [c \in Conns |-> {}]
  /\ socket = [c \in Conns |-> "None"]
  /\ waitingPong = [c \in Conns |-> FALSE]
  /\ pinged = [c \in Conns |-> FALSE]
  /\ shutdown = FALSE
  /\ unseen = {}
  /\ lastSend = [c \in Conns |-> "None"]

-----------------------------------------------------------------------------
(* The pool                                                                *)

\* Mutant: the entry of an unsupported exchange is not removed.
CreateConnectionKeeping(c) ==
  /\ startup = "Starting" /\ phase[c] = "None"
  /\ tracked' = tracked \cup {c}
  /\ phase' = IF exchange[c] \in Supported THEN [phase EXCEPT ![c] = "Connecting"] ELSE phase
  /\ startup' = IF exchange[c] \in Supported THEN startup ELSE "Failed"
  /\ state' = [state EXCEPT ![c] = "Connecting"]
  /\ UNCHANGED <<exchange, channels, socket, waitingPong, pinged, shutdown, unseen, lastSend>>

\* The pool keeps a copy and spawns the runner with another; an unsupported
\* exchange takes the copy out again and makes start fail.
CreateConnection(c) ==
  /\ startup = "Starting" /\ phase[c] = "None"
  /\ \/ /\ exchange[c] \in Supported
        /\ tracked' = tracked \cup {c}
        /\ phase' = [phase EXCEPT ![c] = "Connecting"]
        /\ state' = [state EXCEPT ![c] = "Connecting"]
        /\ UNCHANGED startup
     \/ /\ exchange[c] \notin Supported
        /\ startup' = "Failed"
        /\ UNCHANGED <<tracked, phase, state>>
  /\ UNCHANGED <<exchange, channels, socket, waitingPong, pinged, shutdown, unseen, lastSend>>

\* start returns when every runner is spawned, connected or not.
StartReturns ==
  /\ startup = "Starting" /\ \A c \in Conns : phase[c] # "None"
  /\ startup' = "Started"
  /\ UNCHANGED <<exchange, tracked, shutdown, lastSend, runnerVars, unseen>>

\* send_command on the pool's copy, which was made before any channel was.
SendToConnection(c) ==
  /\ startup = "Started"
  /\ lastSend' = [lastSend EXCEPT ![c] =
       IF c \notin tracked THEN "NotFound"
       ELSE IF "pool" \in channels[c] THEN "Accepted" ELSE "Refused"]
  /\ UNCHANGED <<exchange, startup, tracked, shutdown, runnerVars, unseen>>

Shutdown ==
  /\ startup = "Started" /\ ~shutdown
  /\ shutdown' = TRUE
  /\ unseen' = Conns
  /\ UNCHANGED <<exchange, startup, tracked, lastSend, runnerVars>>

\* One second later the map is cleared, whatever the runners do.
ClearConnections ==
  /\ shutdown /\ tracked # {}
  /\ tracked' = {}
  /\ UNCHANGED <<exchange, startup, shutdown, lastSend, runnerVars, unseen>>

-----------------------------------------------------------------------------
(* A runner                                                                *)

Connect(c) ==
  /\ phase[c] = "Connecting"
  /\ \/ /\ phase' = [phase EXCEPT ![c] = "Subscribing"]
        /\ socket' = [socket EXCEPT ![c] = "Alive"]
        /\ UNCHANGED state
     \/ /\ phase' = [phase EXCEPT ![c] = "Backoff"]
        /\ state' = [state EXCEPT ![c] = "Error"]
        /\ UNCHANGED socket
  /\ UNCHANGED <<poolVars, channels, waitingPong, pinged, unseen>>

\* Mutant: the receiver is told that the current value of the watch is seen.
SubscribeSeeing(c) ==
  /\ phase[c] = "Subscribing"
  /\ phase' = [phase EXCEPT ![c] = "Running"]
  /\ state' = [state EXCEPT ![c] = "Connected"]
  /\ channels' = [channels EXCEPT ![c] = @ \cup {"runner"}]
  /\ waitingPong' = [waitingPong EXCEPT ![c] = FALSE]
  /\ unseen' = unseen \ {c}
  /\ UNCHANGED <<poolVars, socket, pinged>>

\* Mutant: waiting_pong outlives the connection.
SubscribeWaiting(c) ==
  /\ phase[c] = "Subscribing"
  /\ phase' = [phase EXCEPT ![c] = "Running"]
  /\ state' = [state EXCEPT ![c] = "Connected"]
  /\ channels' = [channels EXCEPT ![c] = @ \cup {"runner"}]
  /\ UNCHANGED <<poolVars, socket, waitingPong, pinged, unseen>>

\* A failed subscription connects again at once.
Subscribe(c) ==
  /\ phase[c] = "Subscribing"
  /\ \/ /\ phase' = [phase EXCEPT ![c] = "Running"]
        /\ state' = [state EXCEPT ![c] = "Connected"]
        /\ channels' = [channels EXCEPT ![c] = @ \cup {"runner"}]
        /\ waitingPong' = [waitingPong EXCEPT ![c] = FALSE]
        /\ UNCHANGED socket
     \/ /\ phase' = [phase EXCEPT ![c] = "Connecting"]
        /\ socket' = [socket EXCEPT ![c] = "None"]
        /\ UNCHANGED <<state, channels, waitingPong>>
  /\ UNCHANGED <<poolVars, pinged, unseen>>

\* Mutant: the socket outlives the loop.
BreakLoopKeeping(c) ==
  /\ phase' = [phase EXCEPT ![c] = "Backoff"]
  /\ state' = [state EXCEPT ![c] = "Disconnected"]
  /\ pinged' = [pinged EXCEPT ![c] = FALSE]
  /\ UNCHANGED <<poolVars, channels, socket, waitingPong, unseen>>

\* Mutant: the pool is not told that the connection is down.
BreakLoopSilently(c) ==
  /\ phase' = [phase EXCEPT ![c] = "Backoff"]
  /\ socket' = [socket EXCEPT ![c] = "None"]
  /\ pinged' = [pinged EXCEPT ![c] = FALSE]
  /\ UNCHANGED <<poolVars, state, channels, waitingPong, unseen>>

\* Leaving the select loop: the socket and the receiving end of the command
\* channel are dropped, the sender stays in the runner's copy.
BreakLoop(c) ==
  /\ phase' = [phase EXCEPT ![c] = "Backoff"]
  /\ state' = [state EXCEPT ![c] = "Disconnected"]
  /\ socket' = [socket EXCEPT ![c] = "None"]
  /\ pinged' = [pinged EXCEPT ![c] = FALSE]
  /\ UNCHANGED <<poolVars, channels, waitingPong, unseen>>

Ping(c) ==
  /\ pinged' = [pinged EXCEPT ![c] = TRUE]
  /\ UNCHANGED <<poolVars, phase, state, channels, socket, unseen>>

BinanceTimer(c) ==
  exchange[c] = "binance" /\ phase[c] = "Running" /\ BreakLoop(c)

\* Mutant: OKEx pings at every timer, like Bybit.
OkexTimerForgetful(c) ==
  exchange[c] = "okex" /\ phase[c] = "Running" /\ Ping(c) /\ UNCHANGED waitingPong

OkexTimer(c) ==
  /\ exchange[c] = "okex" /\ phase[c] = "Running"
  /\ \/ waitingPong[c] /\ BreakLoop(c)
     \/ ~waitingPong[c] /\ Ping(c) /\ waitingPong' = [waitingPong EXCEPT ![c] = TRUE]

BybitTimer(c) ==
  exchange[c] = "bybit" /\ phase[c] = "Running" /\ Ping(c) /\ UNCHANGED waitingPong

Timer(c) == BinanceTimer(c) \/ OkexTimer(c) \/ BybitTimer(c)

ReceivePong(c) ==
  /\ phase[c] = "Running" /\ socket[c] = "Alive" /\ pinged[c]
  /\ pinged' = [pinged EXCEPT ![c] = FALSE]
  /\ waitingPong' = [waitingPong EXCEPT ![c] = FALSE]
  /\ UNCHANGED <<poolVars, phase, state, channels, socket, unseen>>

\* A close frame, a read error, or a failed write of a ping or a pong.
SocketFails(c) == phase[c] = "Running" /\ BreakLoop(c)

\* The peer vanishes and nothing says so.
PeerVanishes(c) ==
  /\ socket[c] = "Alive"
  /\ socket' = [socket EXCEPT ![c] = "Dead"]
  /\ UNCHANGED <<poolVars, phase, state, channels, waitingPong, pinged, unseen>>

\* The end of the five seconds of sleep.
Reconnect(c) ==
  /\ phase[c] = "Backoff"
  /\ phase' = [phase EXCEPT ![c] = "Connecting"]
  /\ state' = [state EXCEPT ![c] = "Connecting"]
  /\ UNCHANGED <<poolVars, channels, socket, waitingPong, pinged, unseen>>

\* The watch is awaited in the select loop only; it keeps a change that came
\* while the runner was elsewhere.  run returns and state stays Connected.
ObserveShutdown(c) ==
  /\ phase[c] = "Running" /\ c \in unseen
  /\ unseen' = unseen \ {c}
  /\ phase' = [phase EXCEPT ![c] = "Closed"]
  /\ socket' = [socket EXCEPT ![c] = "None"]
  /\ UNCHANGED <<poolVars, state, channels, waitingPong, pinged>>

Next ==
  \/ StartReturns \/ Shutdown \/ ClearConnections
  \/ \E c \in Conns :
       \/ CreateConnection(c) \/ SendToConnection(c)
       \/ Connect(c) \/ Subscribe(c) \/ Timer(c) \/ ReceivePong(c) \/ SocketFails(c)
       \/ PeerVanishes(c) \/ Reconnect(c) \/ ObserveShutdown(c)

\* Connecting, subscribing, sleeping and the timers end; select chooses a ready
\* branch at random, so a branch that is ready again and again is taken.
Fairness ==
  \A c \in Conns :
    /\ WF_vars(Connect(c)) /\ WF_vars(Subscribe(c)) /\ WF_vars(Reconnect(c))
    /\ WF_vars(Timer(c)) /\ SF_vars(ObserveShutdown(c))

Spec == Init /\ [][Next]_vars /\ Fairness

-----------------------------------------------------------------------------
(* Properties                                                              *)

TypeOK ==
  /\ exchange \in Configurations
  /\ startup \in {"Starting", "Started", "Failed"}
  /\ tracked \subseteq Conns /\ unseen \subseteq Conns
  /\ phase \in [Conns -> {"None", "Connecting", "Subscribing", "Running", "Backoff", "Closed"}]
  /\ state \in [Conns -> {"Connecting", "Connected", "Disconnected", "Error"}]
  /\ channels \in [Conns -> SUBSET {"pool", "runner"}] /\ pinged \in [Conns -> BOOLEAN]
  /\ waitingPong \in [Conns -> BOOLEAN] /\ shutdown \in BOOLEAN
  /\ socket \in [Conns -> {"None", "Alive", "Dead"}]
  /\ \A c \in Conns : socket[c] # "None" <=> phase[c] \in {"Subscribing", "Running"}
  /\ lastSend \in [Conns -> {"None", "Accepted", "Refused", "NotFound"}]

\* The pool hands out no connection nobody runs, and until it is cleared it
\* knows every runner.
TrackedHaveRunners ==
  /\ \A c \in tracked : phase[c] # "None"
  /\ ~shutdown => \A c \in Conns : phase[c] # "None" => c \in tracked

\* What the pool sees in state is what the runner has: a socket that is being
\* served (or was, when the shutdown closed it), and no socket behind any
\* reconnection.
StateFollowsSocket ==
  \A c \in Conns :
    /\ state[c] = "Connected" <=> phase[c] \in {"Running", "Closed"}
    /\ state[c] \in {"Disconnected", "Error"} => socket[c] = "None"

\* An OKEx runner that is about to give its socket up for want of a pong has sent
\* a ping on this socket, not on an earlier one, and got no answer.
MissedPongIsReal ==
  \A c \in Conns :
    exchange[c] = "okex" /\ phase[c] = "Running" /\ waitingPong[c] => pinged[c]

\* A Binance or OKEx runner does not stay on a socket whose peer is gone.
DeadPeerIsLeft ==
  \A c \in Conns :
    (phase[c] = "Running" /\ socket[c] = "Dead" /\ exchange[c] # "bybit")
      ~> phase[c] # "Running"

\* A shutdown sent while a runner is connecting or asleep is not lost: unless its
\* connects fail from some time on, the runner ends.
ShutdownIsObserved ==
  \A c \in Conns :
    [](shutdown => <>(phase[c] = "Closed") \/ <>[](phase[c] # "Running"))

\* "Choose the ws according to the message, then send" (doc/pp.md:224): an order
\* sent to a connection that is up and subscribed is accepted for sending.
SendReachesRunner ==
  [][\A c \in Conns : state[c] = "Connected" /\ lastSend'[c] # lastSend[c]
        => lastSend'[c] = "Accepted"]_vars
=============================================================================
