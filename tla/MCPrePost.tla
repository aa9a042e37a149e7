------------------------------ MODULE MCPrePost ------------------------------
(***************************************************************************)
(* A small instance of PrePost: three order signals of one symbol, one of  *)
(* them too large; three risk inits, of which one fails at its second      *)
(* symbol; and reports of one order, unknown while it does not exist yet.  *)
(* Placed reports with a filled quantity are the only ones the order       *)
(* manager accepts of a validated order.                                   *)
(***************************************************************************)
EXTENDS PrePost

CONSTANTS small, second, large, full, partial, broken, name, other, ticker

MCSignals == {small, second, large, full, partial, broken}
MCSymbolOf == [s \in Signals |-> name]
MCQuantityOf == [s \in Signals |-> IF s = large THEN 3 ELSE 1]
MCInitSignals == {full, partial, broken}

State(symbol, position, trades, restriction, config) ==
  [symbol |-> symbol, position |-> position, trades |-> trades,
   restriction |-> restriction, config |-> config]
Position(symbol, quantity, side) ==
  [symbol |-> symbol, quantity |-> quantity, side |-> side]

\* full covers one symbol and adds to both, partial adds to both and restores a
\* history that ends lower, broken restricts one symbol and fails at the other.
MCRequestOf ==
  [s \in InitSignals |->
    CASE s = full ->
           [globalConfig |-> TRUE, rules |-> {"position", "time"},
            symbolStates |-> <<State(name, 1, 2, "None", TRUE)>>,
            positions |-> <<Position(name, 1, "SELL"), Position(other, 1, "BUY")>>,
            history |-> {[pnl |-> <<2, -3>>, exposure |-> <<2, 1>>]}]
      [] s = partial ->
           [globalConfig |-> FALSE, rules |-> {"position"},
            symbolStates |-> <<>>,
            positions |-> <<Position(name, 2, "BUY"), Position(other, 1, "other"),
                            Position(other, 2, "SELL")>>,
            history |-> {[pnl |-> <<4, -1>>, exposure |-> <<>>]}]
      [] s = broken ->
           [globalConfig |-> TRUE, rules |-> {"pnl"},
            symbolStates |-> <<State(name, 3, 1, "Until", FALSE),
                              State(other, 1, 0, "InvalidTime", TRUE)>>,
            positions |-> <<Position(name, 1, "BUY")>>,
            history |-> {}]]

Report(o, side, filled, status) ==
  [order |-> o, ticker |-> ticker, side |-> side, filled |-> filled, status |-> status]

MCReports ==
  {Report(small, "Buy", 1, "Placed"), Report(small, "Sell", 1, "Placed")}
MCFillReports == {Report(small, "Buy", 1, "Filled")}
=============================================================================
