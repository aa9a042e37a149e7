------------------------------ MODULE MCWsPool ------------------------------
(***************************************************************************)
(* A small instance of WsPool: two connections, one of each kind of timer  *)
(* between the configurations, and a configuration that names an exchange  *)
(* that is not supported.                                                  *)
(***************************************************************************)
EXTENDS WsPool, TLC

CONSTANTS c1, c2

MCConfigurations ==
  { (c1 :> "binance") @@ (c2 :> "okex"),
    (c1 :> "bybit") @@ (c2 :> "okex"),
    (c1 :> "bybit") @@ (c2 :> "other") }
=============================================================================
