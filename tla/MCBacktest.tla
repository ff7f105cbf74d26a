----------------------------- MODULE MCBacktest -----------------------------
(***************************************************************************)
(* Two markets, one of them too illiquid in one of the scans, and signals  *)
(* whose positions together exceed a market's share.                       *)
(***************************************************************************)
EXTENDS Backtest

Found(market, liquid) == [market |-> market, liquid |-> liquid]

MCMarkets == {"m1", "m2"}
MCScans == {<<Found("m1", TRUE), Found("m2", TRUE)>>,
            <<Found("m2", FALSE), Found("m1", TRUE)>>}

Yes(market) == [market |-> market, outcome |-> "YES", confidence |-> 90,
                marketProb |-> 50, edge |-> 40]
No(market) == [Yes(market) EXCEPT !.outcome = "NO"]

MCSignals == {Yes("m1"), No("m1"), Yes("m2")}
MCBatches == {<< >>, <<Yes("m1"), No("m1")>>, <<Yes("m1"), Yes("m2")>>}

=============================================================================
