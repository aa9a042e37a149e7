----------------------------- MODULE OrderState -----------------------------
(***************************************************************************)
(* The order state machine of the pre-post-processor                       *)
(* (pre-post-processor/src/order/order_state.rs), as constant operators:   *)
(* the states, the predicates on them and the transition table.            *)
(***************************************************************************)

OrderStates ==
  { "Created", "Validated", "Submitting", "Submitted", "Acknowledged",
    "PartiallyFilled", "Filled", "Cancelled", "Rejected", "Expired", "Failed" }

\* The absence of an entry in one of the maps keyed by order id.
NoOrder == "NoOrder"

IsTerminal(s) == s \in {"Filled", "Cancelled", "Rejected", "Expired", "Failed"}

IsActive(s) == s \in {"Submitting", "Submitted", "Acknowledged", "PartiallyFilled"}

CanCancel(s) ==
  s \in {"Created", "Validated", "Submitting", "Submitted", "Acknowledged",
         "PartiallyFilled"}

\* Order::is_completed: unlike IsTerminal it leaves out Rejected and Failed.
IsCompleted(s) == s \in {"Filled", "Cancelled", "Expired"}

\* Order::can_retry reads the same two states.
CanRetryFrom(s) == s \in {"Rejected", "Failed"}

-----------------------------------------------------------------------------
(* The transition table, one predicate per phase of an order's life:       *)
(* event e takes state s to state t.                                       *)

SubmitTransition(s, e, t) ==
  \/ e = "Validate"      /\ s = "Created"    /\ t = "Validated"
  \/ e = "Submit"        /\ s = "Validated"  /\ t = "Submitting"
  \/ e = "SubmitSuccess" /\ s = "Submitting" /\ t = "Submitted"
  \/ e = "SubmitFailed"  /\ s = "Submitting" /\ t = "Failed"
  \/ e = "Acknowledge"   /\ s = "Submitted"  /\ t = "Acknowledged"
  \/ e = "Reject"        /\ s = "Submitted"  /\ t = "Rejected"

\* Mutant: a Fill is also accepted by an order that is already filled.
FillTransitionRepeatable(s, e, t) ==
  \/ e = "PartialFill" /\ s \in {"Acknowledged", "PartiallyFilled"} /\ t = "PartiallyFilled"
  \/ e = "Fill"        /\ s \in {"Acknowledged", "PartiallyFilled", "Filled"} /\ t = "Filled"

\* Mutant: fills are accepted after a cancel request.
FillTransitionAfterCancel(s, e, t) ==
  /\ s \in {"Acknowledged", "PartiallyFilled", "Cancelled"}
  /\ \/ e = "PartialFill" /\ t = "PartiallyFilled"
     \/ e = "Fill"        /\ t = "Filled"

FillTransition(s, e, t) ==
  /\ s \in {"Acknowledged", "PartiallyFilled"}
  /\ \/ e = "PartialFill" /\ t = "PartiallyFilled"
     \/ e = "Fill"        /\ t = "Filled"

\* CancelConfirmed is accepted only by an order whose cancel was requested,
\* and again by one already confirmed.  Only handle_order_expired raises Expire,
\* and nothing calls it; nothing raises SystemError.
EndTransition(s, e, t) ==
  \/ e = "Cancel"          /\ CanCancel(s)    /\ t = "Cancelled"
  \/ e = "CancelConfirmed" /\ s = "Cancelled" /\ t = "Cancelled"
  \/ e = "Expire"          /\ IsActive(s)     /\ t = "Expired"
  \/ e = "SystemError"     /\ ~IsTerminal(s)  /\ t = "Failed"

\* get_next_state: with no t the event is refused with an error.
Transition(s, e, t) ==
  \/ SubmitTransition(s, e, t)
  \/ FillTransition(s, e, t)
  \/ EndTransition(s, e, t)
=============================================================================
