--------------------------- MODULE MCTradingCycle ---------------------------
(***************************************************************************)
(* Small instances of TradingCycle: two answers of one market, a second    *)
(* market, and an account that can grow, lose value, or be nearly all      *)
(* invested.                                                               *)
(***************************************************************************)
EXTENDS TradingCycle

Buy(market, answer, confidence, marketProb, edge) ==
    [market |-> market, answer |-> answer, outcome |-> "YES",
     confidence |-> confidence, marketProb |-> marketProb, edge |-> edge]

Sell(market, answer, confidence, marketProb, edge) ==
    [Buy(market, answer, confidence, marketProb, edge) EXCEPT !.outcome = "NO"]

First == Buy("m1", "a1", 90, 50, 40)
Second == Sell("m1", "a2", 80, 50, 30)
Other == Buy("m2", "none", 90, 50, 40)
Faint == Buy("m2", "none", 52, 50, 2)

OneMarket == {First, Second}
OneMarketBatches == {<< >>, <<First, Second>>, <<First>>}

AllSignals == {First, Second, Other, Faint}
AllBatches == {<< >>, <<First, Second, Other>>, <<Other, Faint>>}

Account(balance, investment) == [balance |-> balance, investment |-> investment]

(* Fresh, with positions, and after a loss over the drawdown limit. *)
SteadyAccounts == {Account(10, 0), Account(6, 4), Account(7, 0)}

(* Just under the limit of total exposure. *)
NearLimitAccounts == {Account(16, 4), Account(11, 9)}

(* A small account and one that can go over the limit of total exposure. *)
LedgerAccounts == {Account(10, 0), Account(16, 4)}

=============================================================================
