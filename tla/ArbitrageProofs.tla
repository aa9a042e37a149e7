-------------------------- MODULE ArbitrageProofs --------------------------
(***************************************************************************)
(* The properties of Arbitrage for any sets of pairs and orders and any    *)
(* statuses the order manager may report.                                  *)
(***************************************************************************)
EXTENDS Arbitrage, FiniteSetTheorems, TLAPS

\* No status of an order is the mark for "no status".
LEMMA NoOrderFacts ==
  /\ NoOrder \notin OrderStates
  /\ ~LegFilled(NoOrder) /\ ~LegFailed(NoOrder) /\ ~IsTerminal(NoOrder)
  /\ \A s : LegFilled(s) \/ LegFailed(s) => IsTerminal(s) /\ ~(LegFilled(s) /\ LegFailed(s))
  BY DEF NoOrder, OrderStates, LegFilled, LegFailed, IsTerminal

\* The match of update_order_status, read as conditions on the two legs.
LEMMA PairStateFacts ==
  ASSUME NEW m, NEW t, NEW s \in PairStates, s # NoPair
  PROVE  /\ PairState(m, t, s) \in PairStates /\ PairState(m, t, s) # NoPair
         /\ Partial(m, t) => PairState(m, t, s) = "PartialSuccess"
         /\ LegFilled(m) /\ LegFilled(t) => PairState(m, t, s) = "Completed"
         /\ LegFailed(m) /\ LegFailed(t) => PairState(m, t, s) = "Failed"
         /\ PairState(m, t, s) = "PartialSuccess" => Partial(m, t) \/ s = "PartialSuccess"
         /\ PairState(m, t, s) = "Completed" =>
              (LegFilled(m) /\ LegFilled(t)) \/ s = "Completed"
         /\ PairState(m, t, s) = "Failed" =>
              (LegFailed(m) /\ LegFailed(t)) \/ s = "Failed"
  BY DEF PairState, Partial, LegFilled, LegFailed, PairStates, Settled, NoPair

\* A settled pair has a terminal status for both legs.
LEMMA SettledLegs ==
  ASSUME ArbitrageInv, NEW id \in Pairs, state[id] \in Settled
  PROVE  /\ IsTerminal(makerStatus[id]) /\ IsTerminal(takerStatus[id])
         /\ maker[id] # NoLeg /\ taker[id] # NoLeg
         /\ makerStatus[id] = status[maker[id]] /\ takerStatus[id] = status[taker[id]]
<1>1. id \in InPairs
  BY DEF InPairs, Settled, NoPair
<1>2. IsTerminal(makerStatus[id]) /\ IsTerminal(takerStatus[id])
  BY <1>1, NoOrderFacts DEF ArbitrageInv, PartialExact, SettledByLegs, Partial, Settled
<1>3. QED
  BY <1>2, NoOrderFacts DEF ArbitrageInv, LegsInOrder, LegInOrder

-----------------------------------------------------------------------------
(* The inductive invariant                                                 *)

LEMMA ArbitrageInvInit == Init => ArbitrageInv
<1> SUFFICES ASSUME Init PROVE ArbitrageInv
  OBVIOUS
<1>1. InPairs = {}
  BY DEF Init, InPairs
<1>2. TypeOK
  BY DEF Init, TypeOK, PairStates, NoPair, OrderStates, NoOrder
<1>3. LegsInOrder
  BY NoOrderFacts DEF Init, LegsInOrder, LegInOrder
<1>4. QED
  BY <1>1, <1>2, <1>3 DEF ArbitrageInv, PartialExact, LegsAreMapped, SettledByLegs

LEMMA CreatePairPreserves ==
  ASSUME ArbitrageInv, NEW id \in Pairs, CreatePair(id)
  PROVE  ArbitrageInv'
<1> USE DEF ArbitrageInv
<1>1. /\ state' = [state EXCEPT ![id] = "Created"]
      /\ maker' = [j \in Pairs |-> IF j = id THEN NoLeg ELSE maker[j]]
      /\ taker' = [j \in Pairs |-> IF j = id THEN NoLeg ELSE taker[j]]
      /\ makerStatus' = [j \in Pairs |-> IF j = id THEN NoOrder ELSE makerStatus[j]]
      /\ takerStatus' = [j \in Pairs |-> IF j = id THEN NoOrder ELSE takerStatus[j]]
      /\ UNCHANGED <<status, added, pairOf>>
  BY DEF CreatePair, ClearLegs
<1>2. TypeOK'
  BY <1>1 DEF TypeOK, CreatePair, kindStats, PairStates
<1>3. PartialExact'
  BY <1>1, NoOrderFacts DEF TypeOK, PartialExact, InPairs, Partial
<1>4. LegsAreMapped'
  BY <1>1, LegsAssumption DEF TypeOK, LegsAreMapped, InPairs
<1>5. LegsInOrder'
  BY <1>1, NoOrderFacts DEF LegsInOrder, LegInOrder
<1>6. SettledByLegs'
  BY <1>1 DEF TypeOK, SettledByLegs, InPairs
<1>7. QED
  BY <1>2, <1>3, <1>4, <1>5, <1>6

\* The order goes to the first free leg of a pair that is there, and changes
\* nothing of a settled one.
LEMMA AddOrderPreserves ==
  ASSUME ArbitrageInv, NEW id \in Pairs, NEW o \in Legs, AddOrder(id, o)
  PROVE  /\ ArbitrageInv'
         /\ \A j \in Pairs : state[j] \in Settled => state'[j] = state[j]
         /\ \A j \in Pairs : state'[j] # state[j] => state[j] # NoPair /\ state'[j] # NoPair
         /\ \A j \in Pairs : state'[j] \in Settled => state[j] \in Settled
<1> USE DEF ArbitrageInv
<1>0. /\ o \notin added /\ added' = added \cup {o} /\ o # NoLeg
      /\ pairOf' = [pairOf EXCEPT ![o] = id]
      /\ UNCHANGED <<status, makerStatus, takerStatus, stats>>
  BY LegsAssumption DEF AddOrder, MapOrder
<1>1. CASE /\ id \in InPairs /\ maker[id] = NoLeg
           /\ maker' = [maker EXCEPT ![id] = o]
           /\ state' = [state EXCEPT ![id] = "MakerPending"]
           /\ UNCHANGED taker
  <2>1. /\ makerStatus[id] = NoOrder /\ takerStatus[id] = NoOrder /\ taker[id] = NoLeg
        /\ state[id] \notin Settled /\ state[id] # NoPair
    BY <1>1, NoOrderFacts, SettledLegs DEF LegsInOrder, LegInOrder, InPairs
  <2>2. TypeOK'
    BY <1>0, <1>1 DEF TypeOK, PairStates, stats, kindStats
  <2>3. PartialExact'
    BY <1>0, <1>1, <2>1, NoOrderFacts DEF TypeOK, PartialExact, InPairs, Partial
  <2>4. LegsAreMapped'
    BY <1>0, <1>1, <2>1, LegsAssumption DEF TypeOK, LegsAreMapped, InPairs, LegsInOrder, LegInOrder
  <2>5. LegsInOrder'
    BY <1>0, <1>1, <2>1, NoOrderFacts DEF TypeOK, LegsInOrder, LegInOrder
  <2>6. SettledByLegs'
    BY <1>0, <1>1, <2>1 DEF TypeOK, SettledByLegs, InPairs
  <2>7. QED
    BY <1>1, <2>1, <2>2, <2>3, <2>4, <2>5, <2>6 DEF TypeOK, Settled, NoPair
<1>2. CASE /\ id \in InPairs /\ maker[id] # NoLeg /\ taker[id] = NoLeg
           /\ taker' = [taker EXCEPT ![id] = o]
           /\ state' = [state EXCEPT ![id] =
                          IF state[id] = "MakerPending" THEN "BothPending" ELSE "TakerPending"]
           /\ UNCHANGED maker
  <2>1. takerStatus[id] = NoOrder /\ state[id] \notin Settled /\ state[id] # NoPair
    BY <1>2, NoOrderFacts, SettledLegs DEF LegsInOrder, LegInOrder, InPairs
  <2>2. TypeOK'
    BY <1>0, <1>2 DEF TypeOK, PairStates, stats, kindStats
  <2>3. PartialExact'
    BY <1>0, <1>2, <2>1, NoOrderFacts DEF TypeOK, PartialExact, InPairs, Partial
  <2>4. LegsAreMapped'
    BY <1>0, <1>2, <2>1, LegsAssumption DEF TypeOK, LegsAreMapped, InPairs, LegsInOrder, LegInOrder
  <2>5. LegsInOrder'
    BY <1>0, <1>2, <2>1, NoOrderFacts DEF TypeOK, LegsInOrder, LegInOrder
  <2>6. SettledByLegs'
    BY <1>0, <1>2, <2>1 DEF TypeOK, SettledByLegs, InPairs
  <2>7. QED
    BY <1>2, <2>1, <2>2, <2>3, <2>4, <2>5, <2>6 DEF TypeOK, Settled, NoPair
<1>3. CASE UNCHANGED <<maker, taker, state>>
  <2>2. TypeOK'
    BY <1>0, <1>3 DEF TypeOK, stats, kindStats
  <2>3. PartialExact' /\ SettledByLegs'
    BY <1>0, <1>3 DEF PartialExact, SettledByLegs, InPairs
  <2>4. LegsAreMapped'
    BY <1>0, <1>3 DEF TypeOK, LegsAreMapped, InPairs, LegsInOrder, LegInOrder
  <2>5. LegsInOrder'
    BY <1>0, <1>3 DEF LegsInOrder, LegInOrder
  <2>6. QED
    BY <1>3, <2>2, <2>3, <2>4, <2>5
<1>4. QED
  BY <1>1, <1>2, <1>3 DEF AddOrder

-----------------------------------------------------------------------------
(* A status report                                                         *)

\* What a report of order o does to pair j: nothing if the pair is settled.
LEMMA UpdatePreserves ==
  ASSUME ArbitrageInv, NEW id \in Pairs, NEW o \in Legs, NEW s \in Statuses,
         UpdateOrderStatus(id, o, s)
  PROVE  /\ ArbitrageInv'
         /\ \A j \in Pairs : state[j] \in Settled => state'[j] = state[j]
         /\ \A j \in Pairs \ {id} : state'[j] = state[j]
         /\ state[id] = NoPair => state' = state
<1> USE DEF ArbitrageInv
<1> DEFINE m == IF maker[id] = o THEN s ELSE makerStatus[id]
           t == IF maker[id] # o /\ taker[id] = o THEN s ELSE takerStatus[id]
<1>0. /\ o \in added /\ (IsTerminal(status[o]) => s = status[o])
      /\ status' = [status EXCEPT ![o] = s]
      /\ UNCHANGED <<added, maker, taker, pairOf, totalPairs>>
      /\ o # NoLeg /\ s \in OrderStates
  BY LegsAssumption, StatusesAssumption DEF UpdateOrderStatus
<1>1. CASE id \notin InPairs
  <2>1. UNCHANGED <<makerStatus, takerStatus, state, activePairs, kindStats>>
    BY <1>1 DEF UpdateOrderStatus
  <2>2. TypeOK'
    BY <1>0, <2>1 DEF TypeOK, kindStats
  <2>3. PartialExact' /\ SettledByLegs' /\ LegsAreMapped'
    BY <1>0, <2>1 DEF PartialExact, SettledByLegs, LegsAreMapped, InPairs
  <2>4. LegsInOrder'
    BY <1>0, <2>1, NoOrderFacts DEF TypeOK, LegsInOrder, LegInOrder
  <2>5. QED
    BY <2>1, <2>2, <2>3, <2>4
<1>2. CASE id \in InPairs
  <2>1. /\ makerStatus' = [makerStatus EXCEPT ![id] = m]
        /\ takerStatus' = [takerStatus EXCEPT ![id] = t]
        /\ state' = [state EXCEPT ![id] = PairState(m, t, state[id])]
        /\ CountPair(state[id], PairState(m, t, state[id]))
    BY <1>2 DEF UpdateOrderStatus
  <2>2. state[id] \in PairStates /\ state[id] # NoPair
    BY <1>2 DEF TypeOK, InPairs
  <2>3. /\ IsTerminal(makerStatus[id]) => m = makerStatus[id]
        /\ IsTerminal(takerStatus[id]) => t = takerStatus[id]
    BY <1>0 DEF LegsInOrder, LegInOrder
  <2>4. /\ state[id] = "PartialSuccess" => Partial(m, t)
        /\ state[id] = "Completed" => LegFilled(m) /\ LegFilled(t)
        /\ state[id] = "Failed" => LegFailed(m) /\ LegFailed(t)
    BY <1>2, <2>3, NoOrderFacts DEF PartialExact, SettledByLegs, Partial
  <2>5. m \in OrderStates \cup {NoOrder} /\ t \in OrderStates \cup {NoOrder}
    BY <1>0 DEF TypeOK
  <2> HIDE DEF m, t
  <2>6. /\ PairState(m, t, state[id]) \in PairStates \ {NoPair}
        /\ PairState(m, t, state[id]) = "PartialSuccess" <=> Partial(m, t)
        /\ PairState(m, t, state[id]) = "Completed" => LegFilled(m) /\ LegFilled(t)
        /\ PairState(m, t, state[id]) = "Failed" => LegFailed(m) /\ LegFailed(t)
        /\ state[id] \in Settled => PairState(m, t, state[id]) = state[id]
    BY <2>2, <2>4, PairStateFacts DEF Settled
  <2>7. TypeOK'
    <3>1. /\ activePairs' \in Nat /\ completedPairs' \in Nat /\ successfulPairs' \in Nat
          /\ partialSuccessPairs' \in Nat /\ failedPairs' \in Nat
      BY <2>1 DEF TypeOK, CountPair, kindStats, Decrement
    <3>2. QED
      BY <1>0, <2>1, <2>5, <2>6, <3>1 DEF TypeOK
  <2>8. PartialExact'
    BY <2>1, <2>6 DEF TypeOK, PartialExact, InPairs
  <2>9. SettledByLegs'
    BY <2>1, <2>6 DEF TypeOK, SettledByLegs, InPairs
  <2>10. LegsAreMapped'
    BY <1>0, <2>1, <2>2 DEF TypeOK, LegsAreMapped, InPairs
  <2>11. LegsInOrder'
    <3>1. ASSUME NEW j \in Pairs, j # id
          PROVE  LegInOrder(maker[j], makerStatus[j])' /\ LegInOrder(taker[j], takerStatus[j])'
      BY <1>0, <2>1, <3>1, NoOrderFacts DEF TypeOK, LegsInOrder, LegInOrder
    <3>2. LegInOrder(maker[id], makerStatus[id])'
      BY <1>0, <2>1, NoOrderFacts DEF TypeOK, LegsInOrder, LegInOrder, m
    <3>3. LegInOrder(taker[id], takerStatus[id])'
      BY <1>0, <2>1, NoOrderFacts DEF TypeOK, LegsInOrder, LegInOrder, t
    <3>4. QED
      BY <1>0, <3>1, <3>2, <3>3 DEF LegsInOrder
  <2>12. QED
    BY <2>1, <2>2, <2>6, <2>7, <2>8, <2>9, <2>10, <2>11 DEF TypeOK
<1>3. QED
  BY <1>1, <1>2

-----------------------------------------------------------------------------
(* Cancels and the cleanup                                                 *)

LEMMA CancelPairPreserves ==
  ASSUME ArbitrageInv, NEW id \in Pairs, CancelPair(id)
  PROVE  ArbitrageInv'
<1> USE DEF ArbitrageInv
<1>1. /\ id \in InPairs /\ state[id] \notin Settled
      /\ state' = [state EXCEPT ![id] = "Cancelled"]
      /\ activePairs' = Decrement(activePairs)
      /\ UNCHANGED <<status, added, legVars, pairOf, totalPairs, kindStats>>
  BY DEF CancelPair, MayCancel, PairIsTerminal
<1>2. TypeOK'
  BY <1>1 DEF TypeOK, legVars, kindStats, PairStates, Decrement
<1>3. PartialExact'
  BY <1>1 DEF TypeOK, PartialExact, InPairs, legVars, Settled
<1>4. LegsAreMapped' /\ SettledByLegs'
  BY <1>1 DEF TypeOK, LegsAreMapped, SettledByLegs, InPairs, legVars
<1>5. LegsInOrder'
  BY <1>1 DEF LegsInOrder, LegInOrder, legVars
<1>6. QED
  BY <1>2, <1>3, <1>4, <1>5

\* Removing a pair unmaps its own legs only: an order is a leg of one pair.
LEMMA CleanupPairsPreserves ==
  ASSUME ArbitrageInv, NEW old \in SUBSET {id \in Pairs : PairIsTerminal(state[id])},
         CleanupCompletedPairs(old)
  PROVE  ArbitrageInv'
<1> USE DEF ArbitrageInv
<1>1. /\ state' = [id \in Pairs |-> IF id \in old THEN NoPair ELSE state[id]]
      /\ maker' = [id \in Pairs |-> IF id \in old THEN NoLeg ELSE maker[id]]
      /\ taker' = [id \in Pairs |-> IF id \in old THEN NoLeg ELSE taker[id]]
      /\ makerStatus' = [id \in Pairs |-> IF id \in old THEN NoOrder ELSE makerStatus[id]]
      /\ takerStatus' = [id \in Pairs |-> IF id \in old THEN NoOrder ELSE takerStatus[id]]
      /\ pairOf' = [o \in Legs |->
                      IF \E id \in old : o \in {maker[id], taker[id]} THEN NoPair ELSE pairOf[o]]
      /\ UNCHANGED <<status, added, stats>>
  BY DEF CleanupCompletedPairs, ClearLegs
<1>2. old \subseteq InPairs
  BY DEF InPairs, PairIsTerminal, Settled, NoPair
<1>3. TypeOK'
  BY <1>1 DEF TypeOK, stats, kindStats, PairStates
<1>4. PartialExact' /\ SettledByLegs'
  BY <1>1 DEF TypeOK, PartialExact, SettledByLegs, InPairs
<1>5. LegsAreMapped'
  BY <1>1, <1>2 DEF TypeOK, LegsAreMapped, InPairs
<1>6. LegsInOrder'
  BY <1>1, NoOrderFacts DEF LegsInOrder, LegInOrder
<1>7. QED
  BY <1>3, <1>4, <1>5, <1>6

LEMMA ArbitrageInvNext == ArbitrageInv /\ [Next]_vars => ArbitrageInv'
<1> SUFFICES ASSUME ArbitrageInv, [Next]_vars PROVE ArbitrageInv'
  OBVIOUS
<1>1. ASSUME NEW id \in Pairs, CreatePair(id) PROVE ArbitrageInv'
  BY <1>1, CreatePairPreserves
<1>2. ASSUME NEW id \in Pairs, NEW o \in Legs, AddOrder(id, o) PROVE ArbitrageInv'
  BY <1>2, AddOrderPreserves
<1>3. ASSUME NEW id \in Pairs, NEW o \in Legs, NEW s \in Statuses, UpdateOrderStatus(id, o, s)
      PROVE  ArbitrageInv'
  BY <1>3, UpdatePreserves
<1>4. ASSUME NEW id \in Pairs, CancelPair(id) PROVE ArbitrageInv'
  BY <1>4, CancelPairPreserves
<1>5. ASSUME NEW old \in SUBSET {id \in Pairs : PairIsTerminal(state[id])},
             CleanupCompletedPairs(old)
      PROVE  ArbitrageInv'
  BY <1>5, CleanupPairsPreserves
<1>6. CASE UNCHANGED vars
  BY <1>6 DEF ArbitrageInv, vars, legVars, stats, kindStats, TypeOK, PartialExact,
              LegsAreMapped, LegsInOrder, LegInOrder, SettledByLegs, InPairs
<1>7. QED
  BY <1>1, <1>2, <1>3, <1>4, <1>5, <1>6 DEF Next

-----------------------------------------------------------------------------
(* A settled pair is counted once                                          *)

Unsettled == {id \in InPairs : state[id] \notin Settled}

\* How a step of one pair moves the two numbers of CompletedOnce.
LEMMA UnsettledFacts ==
  /\ IsFiniteSet(Unsettled) /\ Cardinality(Unsettled) \in Nat
  /\ \A S : S \subseteq Unsettled => Cardinality(S) <= Cardinality(Unsettled)
  /\ \A id : Cardinality(Unsettled \cup {id}) <= Cardinality(Unsettled) + 1
  /\ \A id \in Unsettled : Cardinality(Unsettled \ {id}) = Cardinality(Unsettled) - 1
<1>1. Unsettled \subseteq Pairs
  BY DEF Unsettled, InPairs
<1>2. IsFiniteSet(Unsettled)
  BY <1>1, PairsAssumption, FS_Subset
<1>3. Cardinality(Unsettled) \in Nat
  BY <1>2, FS_CardinalityType
<1>4. ASSUME NEW S, S \subseteq Unsettled PROVE Cardinality(S) <= Cardinality(Unsettled)
  BY <1>2, <1>4, FS_Subset
<1>5. ASSUME NEW id PROVE Cardinality(Unsettled \cup {id}) <= Cardinality(Unsettled) + 1
  BY <1>2, <1>3, FS_AddElement
<1>6. ASSUME NEW id \in Unsettled
      PROVE  Cardinality(Unsettled \ {id}) = Cardinality(Unsettled) - 1
  BY <1>2, FS_RemoveElement
<1>7. QED
  BY <1>2, <1>3, <1>4, <1>5, <1>6

LEMMA CountsInit == Init => CompletedOnce
<1> SUFFICES ASSUME Init PROVE CompletedOnce
  OBVIOUS
<1>1. {id \in InPairs : state[id] \notin Settled} = {}
  BY DEF Init, InPairs
<1>2. QED
  BY <1>1, FS_EmptySet DEF Init, CompletedOnce

\* A report settles an unsettled pair, and counts it, or counts nothing.
LEMMA UpdateCounts ==
  ASSUME ArbitrageInv, CompletedOnce, NEW id \in Pairs, NEW o \in Legs,
         NEW s \in Statuses, UpdateOrderStatus(id, o, s)
  PROVE  CompletedOnce'
<1>0. /\ completedPairs \in Nat /\ totalPairs \in Nat /\ totalPairs' = totalPairs
      /\ completedPairs + Cardinality(Unsettled) <= totalPairs
  BY DEF ArbitrageInv, TypeOK, CompletedOnce, Unsettled, UpdateOrderStatus
<1>1. /\ ArbitrageInv' /\ (\A j \in Pairs : state[j] \in Settled => state'[j] = state[j])
      /\ (\A j \in Pairs \ {id} : state'[j] = state[j])
      /\ (state[id] = NoPair => state' = state)
  BY UpdatePreserves
<1>2. /\ state \in [Pairs -> PairStates] /\ state' \in [Pairs -> PairStates]
      /\ state[id] # NoPair => state'[id] # NoPair
  <2>1. state \in [Pairs -> PairStates] /\ state' \in [Pairs -> PairStates]
    BY <1>1 DEF ArbitrageInv, TypeOK
  <2>2. ASSUME NEW m, NEW t, state[id] # NoPair PROVE PairState(m, t, state[id]) # NoPair
    BY <2>1, <2>2, PairStateFacts
  <2>3. QED
    BY <2>1, <2>2 DEF UpdateOrderStatus, InPairs
<1>3. \/ completedPairs' = completedPairs
      \/ /\ completedPairs' = completedPairs + 1
         /\ id \in Unsettled /\ state'[id] \in Settled
  <2>1. CASE id \in InPairs
    <3>1. PICK m, t : /\ state' = [state EXCEPT ![id] = PairState(m, t, state[id])]
                      /\ CountPair(state[id], PairState(m, t, state[id]))
      BY <2>1 DEF UpdateOrderStatus
    <3>2. state'[id] = PairState(m, t, state[id])
      BY <1>2, <3>1
    <3>3. CASE state[id] # state'[id] /\ PairIsTerminal(state'[id])
      <4>1. completedPairs' = completedPairs + 1
        BY <3>1, <3>2, <3>3 DEF CountPair
      <4>2. state'[id] # "Cancelled"
        BY <3>2, <3>3 DEF PairState
      <4>3. QED
        BY <1>1, <2>1, <3>3, <4>1, <4>2 DEF PairIsTerminal, Unsettled
    <3>4. CASE ~(state[id] # state'[id] /\ PairIsTerminal(state'[id]))
      BY <3>1, <3>2, <3>4 DEF CountPair, kindStats
    <3>5. QED
      BY <3>3, <3>4
  <2>2. CASE id \notin InPairs
    BY <2>2 DEF UpdateOrderStatus, kindStats
  <2>3. QED
    BY <2>1, <2>2
<1>4. CASE completedPairs' = completedPairs
  <2>1. Unsettled' \subseteq Unsettled
    BY <1>1 DEF Unsettled, InPairs
  <2>2. Cardinality(Unsettled') <= Cardinality(Unsettled)
    BY <2>1, UnsettledFacts
  <2>3. Cardinality(Unsettled') \in Nat
    BY <2>1, UnsettledFacts, FS_Subset, FS_CardinalityType
  <2>4. completedPairs' + Cardinality(Unsettled') <= totalPairs'
    BY <1>0, <1>4, <2>2, <2>3, UnsettledFacts
  <2>5. QED
    BY <2>4 DEF CompletedOnce, Unsettled
<1>5. CASE /\ completedPairs' = completedPairs + 1
           /\ id \in Unsettled /\ state'[id] \in Settled
  <2>1. Unsettled' = Unsettled \ {id}
    BY <1>1, <1>5 DEF Unsettled, InPairs
  <2>2. completedPairs' + Cardinality(Unsettled') <= totalPairs'
    BY <1>0, <1>5, <2>1, UnsettledFacts
  <2>3. QED
    BY <2>2 DEF CompletedOnce, Unsettled
<1>6. QED
  BY <1>3, <1>4, <1>5

\* A step that counts no pair: only a creation adds a pair, and is counted.
LEMMA OthersCount ==
  ASSUME ArbitrageInv, CompletedOnce, completedPairs' = completedPairs,
         \/ totalPairs' = totalPairs /\ Unsettled' \subseteq Unsettled
         \/ \E id \in Pairs : totalPairs' = totalPairs + 1 /\ Unsettled' = Unsettled \cup {id}
  PROVE  CompletedOnce'
<1>1. /\ completedPairs \in Nat /\ totalPairs \in Nat
      /\ completedPairs + Cardinality(Unsettled) <= totalPairs
  BY DEF ArbitrageInv, TypeOK, CompletedOnce, Unsettled
<1>2. /\ Cardinality(Unsettled') \in Nat
      /\ Cardinality(Unsettled') <= Cardinality(Unsettled) + (totalPairs' - totalPairs)
  <2>1. CASE totalPairs' = totalPairs /\ Unsettled' \subseteq Unsettled
    BY <1>1, <2>1, UnsettledFacts, FS_Subset, FS_CardinalityType
  <2>2. CASE \E id \in Pairs : totalPairs' = totalPairs + 1 /\ Unsettled' = Unsettled \cup {id}
    <3>1. PICK id \in Pairs : totalPairs' = totalPairs + 1 /\ Unsettled' = Unsettled \cup {id}
      BY <2>2
    <3>2. Cardinality(Unsettled') \in Nat
      BY <3>1, UnsettledFacts, FS_AddElement, FS_CardinalityType
    <3>3. QED
      BY <1>1, <3>1, <3>2, UnsettledFacts
  <2>3. QED
    BY <2>1, <2>2
<1>3. completedPairs' + Cardinality(Unsettled') <= totalPairs'
  <2>1. totalPairs' \in Nat
    BY <1>1
  <2>2. QED
    BY <1>1, <1>2, <2>1, UnsettledFacts
<1>4. QED
  BY <1>3 DEF CompletedOnce, Unsettled

LEMMA CountsNext == ArbitrageInv /\ CompletedOnce /\ [Next]_vars => CompletedOnce'
<1> SUFFICES ASSUME ArbitrageInv, CompletedOnce, [Next]_vars PROVE CompletedOnce'
  OBVIOUS
<1>0. state \in [Pairs -> PairStates]
  BY DEF ArbitrageInv, TypeOK
<1>1. ASSUME NEW id \in Pairs, CreatePair(id) PROVE CompletedOnce'
  <2>1. Unsettled' = Unsettled \cup {id}
    BY <1>0, <1>1 DEF CreatePair, Unsettled, InPairs, Settled, NoPair
  <2>2. QED
    BY <1>1, <2>1, OthersCount DEF CreatePair, kindStats
<1>2. ASSUME NEW id \in Pairs, NEW o \in Legs, AddOrder(id, o) PROVE CompletedOnce'
  <2>1. Unsettled' \subseteq Unsettled
    BY <1>2, AddOrderPreserves DEF Unsettled, InPairs
  <2>2. QED
    BY <1>2, <2>1, OthersCount DEF AddOrder, stats, kindStats
<1>3. ASSUME NEW id \in Pairs, NEW o \in Legs, NEW s \in Statuses, UpdateOrderStatus(id, o, s)
      PROVE  CompletedOnce'
  BY <1>3, UpdateCounts
<1>4. ASSUME NEW id \in Pairs, CancelPair(id) PROVE CompletedOnce'
  <2>1. Unsettled' \subseteq Unsettled
    BY <1>0, <1>4 DEF CancelPair, MayCancel, PairIsTerminal, Unsettled, InPairs
  <2>2. QED
    BY <1>4, <2>1, OthersCount DEF CancelPair, kindStats
<1>5. ASSUME NEW old \in SUBSET {id \in Pairs : PairIsTerminal(state[id])},
             CleanupCompletedPairs(old)
      PROVE  CompletedOnce'
  <2>1. Unsettled' \subseteq Unsettled
    BY <1>5 DEF CleanupCompletedPairs, Unsettled, InPairs
  <2>2. QED
    BY <1>5, <2>1, OthersCount DEF CleanupCompletedPairs, stats, kindStats
<1>6. CASE UNCHANGED vars
  BY <1>6, OthersCount DEF vars, stats, kindStats, Unsettled, InPairs
<1>7. QED
  BY <1>1, <1>2, <1>3, <1>4, <1>5, <1>6 DEF Next

LEMMA ActiveInit == Init => ActiveNotCompleted
  BY DEF Init, ActiveNotCompleted

\* A pair moved from the active to the completed ones, with room for one more.
LEMMA RoomForOne ==
  ASSUME NEW a \in Nat, NEW c \in Nat, NEW n \in Nat, NEW b \in Nat, NEW d \in Nat,
         a + c <= n, d <= n,
         (b = Decrement(a) /\ d = c + 1) \/ (b = a /\ d = c)
  PROVE  b + d <= n
  BY DEF Decrement

\* A pair that settles moves from one count to the other; if active_pairs has gone
\* down too often before, the room for completed_pairs is that of CompletedOnce.
LEMMA ActiveNext ==
  ArbitrageInv /\ ArbitrageInv' /\ CompletedOnce' /\ ActiveNotCompleted /\ [Next]_vars
    => ActiveNotCompleted'
<1> SUFFICES ASSUME ArbitrageInv, ArbitrageInv', CompletedOnce', ActiveNotCompleted, [Next]_vars
             PROVE  ActiveNotCompleted'
  OBVIOUS
<1>1. /\ totalPairs \in Nat /\ activePairs \in Nat /\ completedPairs \in Nat
      /\ totalPairs' \in Nat /\ activePairs' \in Nat /\ completedPairs' \in Nat
      /\ activePairs + completedPairs <= totalPairs
  BY DEF ArbitrageInv, TypeOK, ActiveNotCompleted
<1>2. completedPairs' <= totalPairs'
  <2>1. Unsettled' \subseteq Pairs
    BY DEF Unsettled, InPairs
  <2>2. Cardinality(Unsettled') \in Nat
    BY <2>1, PairsAssumption, FS_Subset, FS_CardinalityType
  <2>3. completedPairs' + Cardinality(Unsettled') <= totalPairs'
    BY DEF CompletedOnce, Unsettled
  <2>4. QED
    BY <1>1, <2>2, <2>3
<1>3. ASSUME NEW id \in Pairs, NEW o \in Legs, NEW s \in Statuses, UpdateOrderStatus(id, o, s)
      PROVE  ActiveNotCompleted'
  <2>1. /\ totalPairs' = totalPairs
        /\ \/ activePairs' = Decrement(activePairs) /\ completedPairs' = completedPairs + 1
           \/ UNCHANGED <<activePairs, completedPairs>>
    BY <1>3 DEF UpdateOrderStatus, CountPair, kindStats
  <2>2. \/ activePairs' = Decrement(activePairs) /\ completedPairs' = completedPairs + 1
        \/ activePairs' = activePairs /\ completedPairs' = completedPairs
    BY <2>1
  <2>3. activePairs' + completedPairs' <= totalPairs'
    BY <1>1, <1>2, <2>1, <2>2, RoomForOne
  <2>4. QED
    BY <2>3 DEF ActiveNotCompleted
<1>4. CASE \E id \in Pairs : CreatePair(id)
  BY <1>1, <1>4 DEF CreatePair, kindStats, ActiveNotCompleted
<1>5. CASE \E id \in Pairs : CancelPair(id)
  BY <1>1, <1>5 DEF CancelPair, kindStats, Decrement, ActiveNotCompleted
<1>6. CASE UNCHANGED stats
  BY <1>1, <1>6 DEF stats, kindStats, ActiveNotCompleted
<1>7. QED
  BY <1>3, <1>4, <1>5, <1>6 DEF Next, AddOrder, CleanupCompletedPairs, vars

-----------------------------------------------------------------------------
(* The theorems                                                            *)

\* The strengthened invariant holds in every reachable state, whatever the order
\* of the calls of the arbitrage manager.
THEOREM ArbitrageInvAlways == Spec => []ArbitrageInv
  BY ArbitrageInvInit, ArbitrageInvNext, PTL DEF Spec

\* Pairs, legs, the order map and the counters keep their types, for any number of
\* pairs and orders.
THEOREM TypeOKAlways == Spec => []TypeOK
<1>1. ArbitrageInv => TypeOK
  BY DEF ArbitrageInv
<1>2. QED
  BY <1>1, ArbitrageInvAlways, PTL

\* A pair is offered for a hedge only if its orders are one traded and the other dead,
\* and whenever its legs were reported so, unless the dead one expired: then it is
\* not settled at all.  For any pairs, any orders and any order of the reports.
THEOREM HedgeOfferedUnlessExpiredAlways == Spec => []HedgeOfferedUnlessExpired
<1>1. ArbitrageInv => HedgeOfferedUnlessExpired
  <2> SUFFICES ASSUME ArbitrageInv, NEW id \in InPairs
               PROVE  /\ state[id] = "PartialSuccess" =>
                           OneSided(status[maker[id]], status[taker[id]])
                      /\ OneSided(makerStatus[id], takerStatus[id]) =>
                           IF "Expired" \in {makerStatus[id], takerStatus[id]}
                           THEN state[id] \notin Settled
                           ELSE state[id] = "PartialSuccess"
    BY DEF HedgeOfferedUnlessExpired
  <2>1. state[id] = "PartialSuccess" <=> Partial(makerStatus[id], takerStatus[id])
    BY DEF ArbitrageInv, PartialExact
  <2>2. ASSUME state[id] = "PartialSuccess"
        PROVE  OneSided(status[maker[id]], status[taker[id]])
    <3>1. makerStatus[id] = status[maker[id]] /\ takerStatus[id] = status[taker[id]]
      BY <2>2, SettledLegs DEF Settled, InPairs
    <3>2. QED
      BY <2>1, <2>2, <3>1 DEF Partial, OneSided, LegFilled, LegFailed, Dead, IsTerminal
  <2>3. ASSUME OneSided(makerStatus[id], takerStatus[id]),
               "Expired" \in {makerStatus[id], takerStatus[id]}
        PROVE  state[id] \notin Settled
    <3>1. ~Partial(makerStatus[id], takerStatus[id])
      BY <2>3 DEF Partial, LegFilled, LegFailed
    <3>2. state[id] \notin {"Completed", "Failed"}
      BY <2>3 DEF ArbitrageInv, SettledByLegs, LegFilled, LegFailed, OneSided, Dead
    <3>3. QED
      BY <2>1, <3>1, <3>2 DEF Settled
  <2>4. ASSUME OneSided(makerStatus[id], takerStatus[id]),
               "Expired" \notin {makerStatus[id], takerStatus[id]}
        PROVE  state[id] = "PartialSuccess"
    BY <2>1, <2>4 DEF OneSided, Dead, IsTerminal, Partial, LegFilled, LegFailed
  <2>5. QED
    BY <2>2, <2>3, <2>4
<1>2. QED
  BY <1>1, ArbitrageInvAlways, PTL

\* The order map agrees with the legs of every pair.
THEOREM LegsAreMappedAlways == Spec => []LegsAreMapped
<1>1. ArbitrageInv => LegsAreMapped
  BY DEF ArbitrageInv
<1>2. QED
  BY <1>1, ArbitrageInvAlways, PTL

\* No pair is counted as completed twice: completed_pairs and the pairs that are
\* not settled add up to no more than the pairs created, and so do completed_pairs
\* and active_pairs.
THEOREM SettledCountedOnceAlways == Spec => []SettledCountedOnce
<1>1. Init => CompletedOnce /\ ActiveNotCompleted
  BY CountsInit, ActiveInit
<1>2. /\ ArbitrageInv /\ CompletedOnce /\ ActiveNotCompleted
      /\ ArbitrageInv' /\ [Next]_vars
      => (CompletedOnce /\ ActiveNotCompleted)'
  BY CountsNext, ActiveNext
<1>3. CompletedOnce /\ ActiveNotCompleted => SettledCountedOnce
  BY DEF SettledCountedOnce
<1>4. QED
  BY <1>1, <1>2, <1>3, ArbitrageInvAlways, PTL DEF Spec

\* No call takes a settled pair to another state, other than its removal or the
\* creation of a new pair under its id.
THEOREM SettledIsFinalAlways == Spec => SettledIsFinal
<1>1. ArbitrageInv /\ [Next]_vars =>
        [\A id \in Pairs : state[id] \in Settled => state'[id] \in {state[id], NoPair, "Created"}]_vars
  <2> SUFFICES ASSUME ArbitrageInv, Next, NEW id \in Pairs, state[id] \in Settled
               PROVE  state'[id] \in {state[id], NoPair, "Created"}
    OBVIOUS
  <2>0. state \in [Pairs -> PairStates]
    BY DEF ArbitrageInv, TypeOK
  <2>1. ASSUME NEW j \in Pairs, CreatePair(j) PROVE state'[id] \in {state[id], "Created"}
    BY <2>0, <2>1 DEF CreatePair
  <2>2. ASSUME NEW j \in Pairs, NEW o \in Legs, AddOrder(j, o) PROVE state'[id] = state[id]
    BY <2>2, AddOrderPreserves
  <2>3. ASSUME NEW j \in Pairs, NEW o \in Legs, NEW s \in Statuses, UpdateOrderStatus(j, o, s)
        PROVE  state'[id] = state[id]
    BY <2>3, UpdatePreserves
  <2>4. ASSUME NEW j \in Pairs, CancelPair(j) PROVE state'[id] = state[id]
    BY <2>0, <2>4 DEF CancelPair, MayCancel, PairIsTerminal
  <2>5. ASSUME NEW old \in SUBSET {j \in Pairs : PairIsTerminal(state[j])},
               CleanupCompletedPairs(old)
        PROVE  state'[id] \in {state[id], NoPair}
    BY <2>5 DEF CleanupCompletedPairs
  <2>6. QED
    BY <2>1, <2>2, <2>3, <2>4, <2>5 DEF Next
<1>2. QED
  BY <1>1, ArbitrageInvAlways, PTL DEF Spec, SettledIsFinal
=============================================================================
