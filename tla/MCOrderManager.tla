--------------------------- MODULE MCOrderManager ---------------------------
(***************************************************************************)
(* A small instance of OrderManager: two orders made from two signals, one *)
(* of quantity 2 that belongs to an arbitrage and one of quantity 1, and   *)
(* reports that execute 1 or 2 at a time.                                  *)
(***************************************************************************)
EXTENDS OrderManager, TLC

CONSTANTS arb, plain

MCSignals == {arb, plain}
MCArbSignals == {arb}
MCQuantity == (arb :> 2) @@ (plain :> 1)
MCFillQuantities == {0, 1, 2}
=============================================================================
