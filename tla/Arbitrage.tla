----------------------------- MODULE Arbitrage -----------------------------
(***************************************************************************)
(* The arbitrage manager of the pre-post-processor                         *)
(* (pre-post-processor/src/order/arbitrage.rs): pairs of a maker and a     *)
(* taker order, the state derived from the statuses of the two legs, and   *)
(* the statistics.  Nothing guards the order of the calls: pairs may be    *)
(* created again, cancelled and given orders at any time.  What the caller *)
(* does guarantee comes from the order manager: an order id is new when it *)
(* is added, and an order's status never leaves a terminal one.            *)
(***************************************************************************)
EXTENDS OrderState, Naturals, FiniteSets

CONSTANTS
  Pairs,       \* arbitrage ids
  Legs,        \* client order ids
  NoLeg,       \* not an order id
  Statuses,    \* the order states update_order_status is called with
  MaxPairs     \* bound on total_pairs

ASSUME PairsAssumption == IsFiniteSet(Pairs)
ASSUME LegsAssumption == NoLeg \notin Legs
ASSUME StatusesAssumption == Statuses \subseteq OrderStates

VARIABLES
  status,      \* the state of each order's machine, as its manager reports it
  added,       \* the orders given to add_order
  state,       \* ArbitragePair.state; NoPair for an id not in pairs
  maker,       \* maker_order_id
  taker,       \* taker_order_id
  makerStatus, \* maker_status
  takerStatus, \* taker_status
  pairOf,      \* order_to_arbitrage
  totalPairs, activePairs, completedPairs,                \* ArbitrageStats
  successfulPairs, partialSuccessPairs, failedPairs

legVars == <<maker, taker, makerStatus, takerStatus>>
kindStats == <<completedPairs, successfulPairs, partialSuccessPairs, failedPairs>>
stats == <<totalPairs, activePairs, kindStats>>
vars == <<status, added, state, legVars, pairOf, stats>>

NoPair == "NoPair"
Settled == {"Completed", "PartialSuccess", "Failed"}
PairIsTerminal(s) == s \in Settled \cup {"Cancelled"}

InPairs == {id \in Pairs : state[id] # NoPair}

Init ==
  /\ status = [o \in Legs |-> "Created"]
  /\ added = {}
  /\ state = [id \in Pairs |-> NoPair]
  /\ maker = [id \in Pairs |-> NoLeg] /\ taker = [id \in Pairs |-> NoLeg]
  /\ makerStatus = [id \in Pairs |-> NoOrder] /\ takerStatus = [id \in Pairs |-> NoOrder]
  /\ pairOf = [o \in Legs |-> NoPair]
  /\ totalPairs = 0 /\ activePairs = 0 /\ completedPairs = 0
  /\ successfulPairs = 0 /\ partialSuccessPairs = 0 /\ failedPairs = 0

\* The pairs of ids lose their legs.
ClearLegs(ids) ==
  /\ maker' = [id \in Pairs |-> IF id \in ids THEN NoLeg ELSE maker[id]]
  /\ taker' = [id \in Pairs |-> IF id \in ids THEN NoLeg ELSE taker[id]]
  /\ makerStatus' = [id \in Pairs |-> IF id \in ids THEN NoOrder ELSE makerStatus[id]]
  /\ takerStatus' = [id \in Pairs |-> IF id \in ids THEN NoOrder ELSE takerStatus[id]]

\* Mutant: a plain subtraction on the counter.
DecrementPlain(n) == n - 1

\* saturating_sub(1)
Decrement(n) == IF n = 0 THEN 0 ELSE n - 1

\* An existing pair of this id is replaced, its orders stay mapped to the id.
CreatePair(id) ==
  /\ totalPairs < MaxPairs
  /\ state' = [state EXCEPT ![id] = "Created"]
  /\ ClearLegs({id})
  /\ totalPairs' = totalPairs + 1 /\ activePairs' = activePairs + 1
  /\ UNCHANGED <<status, added, pairOf, kindStats>>

\* Mutant: the order is mapped only when it becomes a leg of a pair.
MapOrderOnce(o, id) ==
  pairOf' = [pairOf EXCEPT ![o] = IF taker[id] = NoLeg /\ maker[id] # NoLeg THEN id ELSE @]

MapOrder(o, id) == pairOf' = [pairOf EXCEPT ![o] = id]

\* The first order of a pair is its maker, the second its taker, whatever the
\* pair's state; a third one is only mapped.
AddOrder(id, o) ==
  /\ o \notin added
  /\ added' = added \cup {o}
  /\ MapOrder(o, id)
  /\ IF id \in InPairs /\ maker[id] = NoLeg THEN
       /\ maker' = [maker EXCEPT ![id] = o]
       /\ state' = [state EXCEPT ![id] = "MakerPending"]
       /\ UNCHANGED taker
     ELSE IF id \in InPairs /\ taker[id] = NoLeg THEN
       /\ taker' = [taker EXCEPT ![id] = o]
       /\ state' = [state EXCEPT ![id] =
                      IF @ = "MakerPending" THEN "BothPending" ELSE "TakerPending"]
       /\ UNCHANGED maker
     ELSE UNCHANGED <<maker, taker, state>>
  /\ UNCHANGED <<status, makerStatus, takerStatus, stats>>

LegFilled(s) == s = "Filled"
LegFailed(s) == s \in {"Failed", "Cancelled", "Rejected"}   \* not Expired

\* The two arms of the match that end in a partial success.
Partial(m, t) == (LegFilled(m) /\ LegFailed(t)) \/ (LegFilled(t) /\ LegFailed(m))

\* Mutant: only a filled maker makes a pair one-sided.
PairStateMakerOnly(m, t, s) ==
  IF LegFilled(m) /\ LegFilled(t) THEN "Completed"
  ELSE IF LegFilled(m) /\ LegFailed(t) THEN "PartialSuccess"
  ELSE IF LegFailed(m) /\ LegFailed(t) THEN "Failed"
  ELSE IF LegFilled(m) THEN "MakerFilled"
  ELSE s

\* The match of update_order_status on the two statuses.
PairState(m, t, s) ==
  IF LegFilled(m) /\ LegFilled(t) THEN "Completed"
  ELSE IF Partial(m, t) THEN "PartialSuccess"
  ELSE IF LegFailed(m) /\ LegFailed(t) THEN "Failed"
  ELSE IF LegFilled(m) THEN "MakerFilled"
  ELSE s

\* Mutant: a terminal state is counted again at every report.
CountPairAlways(old, new) ==
  IF PairIsTerminal(new) THEN
    /\ activePairs' = Decrement(activePairs)
    /\ completedPairs' = completedPairs + 1
    /\ successfulPairs' = successfulPairs + IF new = "Completed" THEN 1 ELSE 0
    /\ partialSuccessPairs' = partialSuccessPairs + IF new = "PartialSuccess" THEN 1 ELSE 0
    /\ failedPairs' = failedPairs + IF new = "Failed" THEN 1 ELSE 0
  ELSE UNCHANGED <<activePairs, kindStats>>

CountPair(old, new) ==
  IF old # new /\ PairIsTerminal(new) THEN
    /\ activePairs' = Decrement(activePairs)
    /\ completedPairs' = completedPairs + 1
    /\ successfulPairs' = successfulPairs + IF new = "Completed" THEN 1 ELSE 0
    /\ partialSuccessPairs' = partialSuccessPairs + IF new = "PartialSuccess" THEN 1 ELSE 0
    /\ failedPairs' = failedPairs + IF new = "Failed" THEN 1 ELSE 0
  ELSE UNCHANGED <<activePairs, kindStats>>

\* Order o, reported in status s, is looked up among the legs of pair id.
UpdateOrderStatus(id, o, s) ==
  LET isMaker == maker[id] = o
      m == IF isMaker THEN s ELSE makerStatus[id]
      t == IF ~isMaker /\ taker[id] = o THEN s ELSE takerStatus[id]
      new == PairState(m, t, state[id])
  IN  /\ o \in added
      /\ IsTerminal(status[o]) => s = status[o]
      /\ status' = [status EXCEPT ![o] = s]
      /\ IF id \in InPairs THEN
           /\ makerStatus' = [makerStatus EXCEPT ![id] = m]
           /\ takerStatus' = [takerStatus EXCEPT ![id] = t]
           /\ state' = [state EXCEPT ![id] = new]
           /\ CountPair(state[id], new)
         ELSE UNCHANGED <<makerStatus, takerStatus, state, activePairs, kindStats>>
      /\ UNCHANGED <<added, maker, taker, pairOf, totalPairs>>

\* Mutant: a settled pair can be cancelled too.
MayCancelAny(s) == s # "Cancelled"

MayCancel(s) == ~PairIsTerminal(s)

\* A cancelled pair is not counted in completed_pairs.
CancelPair(id) ==
  /\ id \in InPairs /\ MayCancel(state[id])
  /\ state' = [state EXCEPT ![id] = "Cancelled"]
  /\ activePairs' = Decrement(activePairs)
  /\ UNCHANGED <<status, added, legVars, pairOf, totalPairs, kindStats>>

\* The pairs of old are terminal since more than keep_hours.
CleanupCompletedPairs(old) ==
  /\ state' = [id \in Pairs |-> IF id \in old THEN NoPair ELSE state[id]]
  /\ ClearLegs(old)
  /\ pairOf' = [o \in Legs |->
                  IF \E id \in old : o \in {maker[id], taker[id]} THEN NoPair ELSE pairOf[o]]
  /\ UNCHANGED <<status, added, stats>>

Next ==
  \/ \E id \in Pairs : CreatePair(id)
  \/ \E id \in Pairs, o \in Legs : AddOrder(id, o)
  \/ \E id \in Pairs, o \in Legs, s \in Statuses : UpdateOrderStatus(id, o, s)
  \/ \E id \in Pairs : CancelPair(id)
  \/ \E old \in SUBSET {id \in Pairs : PairIsTerminal(state[id])} : CleanupCompletedPairs(old)

Spec == Init /\ [][Next]_vars

-----------------------------------------------------------------------------
(* Properties                                                              *)

PairStates == {"Created", "MakerPending", "MakerFilled", "TakerPending", "BothPending",
               "Cancelled", NoPair} \cup Settled

TypeOK ==
  /\ status \in [Legs -> OrderStates] /\ added \subseteq Legs
  /\ state \in [Pairs -> PairStates]
  /\ maker \in [Pairs -> Legs \cup {NoLeg}] /\ taker \in [Pairs -> Legs \cup {NoLeg}]
  /\ makerStatus \in [Pairs -> OrderStates \cup {NoOrder}]
  /\ takerStatus \in [Pairs -> OrderStates \cup {NoOrder}]
  /\ pairOf \in [Legs -> Pairs \cup {NoPair}]
  /\ totalPairs \in Nat /\ activePairs \in Nat /\ completedPairs \in Nat
  /\ successfulPairs \in Nat /\ partialSuccessPairs \in Nat /\ failedPairs \in Nat

\* An order that is over and has not traded: by the table of the order's own state
\* (IsTerminal), not by the list in update_order_status.
Dead(s) == IsTerminal(s) /\ s # "Filled"

\* One leg traded and the other never will.
OneSided(m, t) == (m = "Filled" /\ Dead(t)) \/ (t = "Filled" /\ Dead(m))

\* get_hedge_required_pairs selects PartialSuccess.  A pair is offered for a hedge
\* only when, by the machines of its orders, one leg has traded and the other is
\* dead; and it is offered once its legs were reported so, in whatever order the
\* reports came and even if the pair was cancelled in between, with one exception
\* the code makes: Expired is terminal, but update_order_status does not take it
\* for a failure (arbitrage.rs:205).  A pair with one leg traded and the other
\* expired is never offered, and is not settled in any other way either.
HedgeOfferedUnlessExpired ==
  \A id \in InPairs :
    LET m == makerStatus[id]
        t == takerStatus[id]
    IN  /\ state[id] = "PartialSuccess" => OneSided(status[maker[id]], status[taker[id]])
        /\ OneSided(m, t) =>
             IF "Expired" \in {m, t} THEN state[id] \notin Settled
             ELSE state[id] = "PartialSuccess"

\* A settled pair stays settled the same way, against repeated reports, late
\* orders and cancels, until it is cleaned up or its id is used again.
SettledIsFinal ==
  [][\A id \in Pairs : state[id] \in Settled => state'[id] \in {state[id], NoPair, "Created"}]_vars

CompletedOnce ==
  completedPairs + Cardinality({id \in InPairs : state[id] \notin Settled}) <= totalPairs

ActiveNotCompleted == activePairs + completedPairs <= totalPairs

\* Each pair is counted as completed once, however often its legs are reported
\* and even if it was cancelled first: the success rate divides by this number.
\* And a pair so counted is no longer in active_pairs.
SettledCountedOnce == CompletedOnce /\ ActiveNotCompleted

\* The map behind get_pair_by_order agrees with the legs of the pairs: add_order
\* enters every order it is given, also one the pair has no room for, and the
\* cleanup takes out legs only.
LegsAreMapped ==
  \A id \in InPairs : \A o \in Legs : o \in {maker[id], taker[id]} => pairOf[o] = id

-----------------------------------------------------------------------------
(* What the proofs add: the properties above are inductive together with     *)
(* these.                                                                    *)

\* The leg `leg` of a pair, last reported in legStatus: an order that was added,
\* without a report until it is there, and in the state of its machine once
\* that state is terminal.
LegInOrder(leg, legStatus) ==
  /\ leg \in added \cup {NoLeg}
  /\ leg = NoLeg => legStatus = NoOrder
  /\ IsTerminal(legStatus) => legStatus = status[leg]

LegsInOrder ==
  \A id \in Pairs :
    /\ LegInOrder(maker[id], makerStatus[id])
    /\ LegInOrder(taker[id], takerStatus[id])
    /\ maker[id] = NoLeg => taker[id] = NoLeg

PartialExact ==
  \A id \in InPairs : state[id] = "PartialSuccess" <=> Partial(makerStatus[id], takerStatus[id])

\* How a pair is settled otherwise follows from its legs.
SettledByLegs ==
  \A id \in InPairs :
    /\ state[id] = "Completed" => LegFilled(makerStatus[id]) /\ LegFilled(takerStatus[id])
    /\ state[id] = "Failed" => LegFailed(makerStatus[id]) /\ LegFailed(takerStatus[id])

ArbitrageInv ==
  /\ TypeOK
  /\ PartialExact
  /\ LegsAreMapped
  /\ LegsInOrder
  /\ SettledByLegs

-----------------------------------------------------------------------------
\* "Whether the state is final" (arbitrage.rs:55, "是否为终态"): a pair in a
\* terminal state does not go back to an active one.
TerminalIsFinal ==
  [][\A id \in Pairs : PairIsTerminal(state[id]) =>
       PairIsTerminal(state'[id]) \/ state'[id] \in {NoPair, "Created"}]_vars
=============================================================================
