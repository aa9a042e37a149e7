----------------------------- MODULE MCArbitrage -----------------------------
(***************************************************************************)
(* A small instance of Arbitrage: two pairs, three orders (so one pair can *)
(* be offered a third order), and the statuses the match of                *)
(* update_order_status tells apart.                                        *)
(***************************************************************************)
EXTENDS Arbitrage, TLC

MCStatuses == {"Acknowledged", "Filled", "Cancelled", "Expired"}
ArbitrageSymmetry == Permutations(Pairs) \cup Permutations(Legs)
=============================================================================
