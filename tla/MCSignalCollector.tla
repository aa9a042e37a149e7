-------------------------- MODULE MCSignalCollector --------------------------
(***************************************************************************)
(* A small instance of SignalCollector: two subscribers that send a high   *)
(* spread, a low one and a strong funding rate.                            *)
(***************************************************************************)
EXTENDS SignalCollector, TLC

CONSTANTS high, low, rise

MCKind ==
  (high :> "AdaptiveSpreadDeviation") @@ (low :> "AdaptiveSpreadDeviation")
    @@ (rise :> "FundingRateDirection")

MCDirection == (high :> "Neutral") @@ (low :> "Neutral") @@ (rise :> "Positive")
=============================================================================
