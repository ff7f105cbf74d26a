---------------------------- MODULE MCSignalScan ----------------------------
(***************************************************************************)
(* Two multiple-choice markets, and binary markets on both sides of every  *)
(* threshold, with the configuration of config.toml, every strategy        *)
(* switched on.  Probabilities are in permille.                            *)
(***************************************************************************)
EXTENDS SignalScan

Shipped ==
    [arbitrage |-> [enabled |-> TRUE, minLiquidity |-> 50, minProbSumDeviation |-> 100,
                    maxMarketsPerCycle |-> 20, maxCloseDays |-> 90],
     mispricing |-> [enabled |-> TRUE, extremeThresholdHigh |-> 950,
                     extremeThresholdLow |-> 50, minMarketAgeDays |-> 7, minVolume |-> 100],
     timedecay |-> [enabled |-> TRUE, minTimeElapsed |-> 500, minEdge |-> 50,
                    minVolume |-> 50],
     marketmaking |-> [enabled |-> TRUE, baseSpread |-> 40, minLiquidity |-> 500,
                       minVolume24h |-> 50]]

BinaryMarket(i, prob, age, left, liquidity) ==
    [id |-> i, outcomeType |-> "BINARY", probability |-> prob, answers |-> << >>,
     liquidity |-> liquidity, volume |-> 200, volume24 |-> 60, dated |-> TRUE,
     age |-> age, left |-> left, resolved |-> FALSE]

Probs == <<10, 45, 203, 331, 499, 500, 955, 985>>
Lefts == <<-3, 20, 40>>

MCBinaryMarkets ==
    [i \in 1 .. 96 |->
        BinaryMarket(i, Probs[1 + (i % 8)], IF i > 48 THEN 5 ELSE 70,
                     Lefts[1 + ((i \div 8) % 3)],
                     IF (i \div 24) % 2 = 0 THEN 100 ELSE 1500)]

Open(a, b, c) == [a |-> [probability |-> a, resolution |-> ""],
                  b |-> [probability |-> b, resolution |-> ""],
                  c |-> [probability |-> c, resolution |-> ""]]

(* Fair, over 1, under 1, at the deviation asked for, with pinned prices. *)
Prices == {Open(450, 450, 100), Open(600, 350, 250), Open(303, 305, 107),
           Open(500, 500, 100), Open(998, 1, 1)}

AnswersOfFirst ==
    Prices \cup {[as EXCEPT !.c.resolution = "NO"] : as \in Prices}
           \cup {[as EXCEPT !.a.resolution = "CANCEL"] : as \in Prices}

(* The answers of the second market lack c. *)
AnswersOfSecond ==
    {[x \in {"a", "b"} |-> as[x]] : as \in {Open(600, 400, 0), Open(700, 450, 0)}}

MCAnswers == AnswersOfFirst \cup AnswersOfSecond

Choice(id, answers, liquidity) ==
    [id |-> id, outcomeType |-> "MULTIPLE_CHOICE", probability |-> 0, answers |-> answers,
     liquidity |-> liquidity, volume |-> 0, volume24 |-> 0, dated |-> FALSE, age |-> 9,
     left |-> 30, resolved |-> FALSE]

MCWorlds ==
    {<<Choice(101, as, 50), Choice(102, bs, 1200)>> :
        as \in AnswersOfFirst, bs \in AnswersOfSecond}

=============================================================================
