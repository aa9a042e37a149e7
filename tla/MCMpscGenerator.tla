--------------------------- MODULE MCMpscGenerator ---------------------------
(***************************************************************************)
(* A small instance of MpscGenerator: four sources, two of them of market  *)
(* data, on a channel of two places.                                       *)
(***************************************************************************)
EXTENDS MpscGenerator

CONSTANTS market1, market2, funding, book

MCMarketSources == {market1, market2}
MCFundingSources == {funding}
MCOrderBookSources == {book}
=============================================================================
