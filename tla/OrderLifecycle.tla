--------------------------- MODULE OrderLifecycle ---------------------------
(***************************************************************************)
(* What the order manager promises about each order, whatever reports and  *)
(* calls it is given: an order is pending, then in the market, then done,  *)
(* in that direction only; quantity is booked on it only while it is in    *)
(* the market or as the last step out of it; and its record is dropped     *)
(* only once it is done or fully executed.                                 *)
(***************************************************************************)
EXTENDS Naturals

CONSTANT Orders

VARIABLES
  phase,    \* "None", "Pending", "Market" or "Done"
  size,     \* the quantity ordered
  booked,   \* the quantity executed according to the record
  kept      \* the orders that have a record

lifecycle == <<phase, size, booked, kept>>

Init ==
  /\ phase = [o \in Orders |-> "None"]
  /\ size = [o \in Orders |-> 0]
  /\ booked = [o \in Orders |-> 0]
  /\ kept = {}

\* Only o's entry of f changes, and it becomes a natural at least its old value.
Raise(f, g, o) == g[o] \in Nat /\ g[o] >= f[o] /\ g = [f EXCEPT ![o] = g[o]]

Open(o) ==
  /\ phase[o] = "None"
  /\ phase' = [phase EXCEPT ![o] = "Pending"]
  /\ Raise(size, size', o)
  /\ kept' = kept \cup {o}
  /\ UNCHANGED booked

EnterMarket(o) ==
  /\ phase[o] = "Pending"
  /\ phase' = [phase EXCEPT ![o] = "Market"]
  /\ UNCHANGED <<size, booked, kept>>

Execute(o) ==
  /\ phase[o] = "Market" /\ o \in kept
  /\ Raise(booked, booked', o)
  /\ UNCHANGED <<phase, size, kept>>

\* The last step of an order may book a quantity: the final fill.
Finish(o) ==
  /\ phase[o] = "Market" /\ o \in kept
  /\ phase' = [phase EXCEPT ![o] = "Done"]
  /\ Raise(booked, booked', o)
  /\ UNCHANGED <<size, kept>>

GiveUp(o) ==
  /\ phase[o] = "Pending"
  /\ phase' = [phase EXCEPT ![o] = "Done"]
  /\ UNCHANGED <<size, booked, kept>>

\* Several records may be dropped at once.
Forget(dropped) ==
  /\ \A o \in dropped : phase[o] = "Done" \/ booked[o] >= size[o]
  /\ kept' = kept \ dropped
  /\ booked' = [o \in Orders |-> IF o \in dropped THEN 0 ELSE booked[o]]
  /\ UNCHANGED <<phase, size>>

Next ==
  \/ \E o \in Orders :
       Open(o) \/ EnterMarket(o) \/ GiveUp(o) \/ Execute(o) \/ Finish(o)
  \/ \E dropped \in SUBSET kept : Forget(dropped)

Spec == Init /\ [][Next]_lifecycle
=============================================================================
