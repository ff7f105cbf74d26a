----------------------------- MODULE Strategies -----------------------------
(***************************************************************************)
(* The four strategies (internal/strategy) as operators from the scanned   *)
(* markets to signals, and the limit the executor sends for a signal.      *)
(*                                                                         *)
(* Probabilities are whole multiples of 1/One.  What the code computes     *)
(* from them in float64 is exact here: a limit is a fraction, and an edge  *)
(* or a confidence is compared as a fraction before it is cut to a whole   *)
(* number for the signal.  Times are days from now.  The signals of a pass *)
(* are a set: their order is of no matter before SizeSignals.              *)
(***************************************************************************)
EXTENDS RiskSizing, Sequences, FiniteSetsExt

CONSTANT Config   \* the [strategy] section

ConfigType ==
    [arbitrage : [enabled : BOOLEAN, minLiquidity : Nat, minProbSumDeviation : Nat,
                  maxMarketsPerCycle : Nat, maxCloseDays : Nat],
     mispricing : [enabled : BOOLEAN, extremeThresholdHigh : Nat,
                   extremeThresholdLow : Nat, minMarketAgeDays : Nat, minVolume : Nat],
     timedecay : [enabled : BOOLEAN, minTimeElapsed : Nat, minEdge : Nat,
                  minVolume : Nat],
     marketmaking : [enabled : BOOLEAN, baseSpread : Nat, minLiquidity : Nat,
                     minVolume24h : Nat]]

ASSUME StrategyAssumption == Config \in ConfigType /\ One > 0

AnswerData == [probability : 0 .. One, resolution : {"", "YES", "NO", "CANCEL"}]

(* "dated": the question names a date; "age" and "left": the days since the *)
(* market was created and until it closes.                                  *)
IsMarketData(m) ==
    /\ m = [id |-> m.id, outcomeType |-> m.outcomeType, probability |-> m.probability,
            answers |-> m.answers, liquidity |-> m.liquidity, volume |-> m.volume,
            volume24 |-> m.volume24, dated |-> m.dated, age |-> m.age,
            left |-> m.left, resolved |-> m.resolved]
    /\ m.outcomeType \in {"BINARY", "MULTIPLE_CHOICE"}
    /\ m.probability \in 0 .. One
    /\ m.answers \in [DOMAIN m.answers -> AnswerData]
    /\ IsFiniteSet(DOMAIN m.answers)
    /\ m.liquidity \in Nat /\ m.volume \in Nat /\ m.volume24 \in Nat
    /\ m.dated \in BOOLEAN /\ m.resolved \in BOOLEAN
    /\ m.age \in Int /\ m.left \in Int

Percent(n) == (n * One) \div 100

(* A signal without a limit is a market order. *)
NoLimit == << >>

Binary(m) == m.outcomeType = "BINARY" /\ ~ m.resolved

BinarySignal(strategy, m, outcome, confidence, edge, limit) ==
    [strategy |-> strategy, market |-> m.id, answer |-> "", outcome |-> outcome,
     confidence |-> confidence, marketProb |-> m.probability, edge |-> edge,
     limit |-> limit]

-----------------------------------------------------------------------------
(***************************************************************************)
(* Arbitrage: the answers of a market whose prices do not sum to 1.        *)
(***************************************************************************)

(* A price not pinned to 0 or 1: between 0.001 and 0.999. *)
Unpinned(prob) == 1000 * prob > One /\ 1000 * prob < 999 * One

(* What the scan counts: it looks at the prices alone. *)
UnpinnedAnswers(m) == {a \in DOMAIN m.answers : Unpinned(m.answers[a].probability)}

(* Faulty: a price under 0.1 counts as pinned. *)
LikelyAnswers(m) ==
    {a \in DOMAIN m.answers : /\ m.answers[a].resolution = ""
                              /\ 10 * m.answers[a].probability \in One + 1 .. 9 * One}

ActiveAnswers(m) ==
    {a \in DOMAIN m.answers : /\ m.answers[a].resolution = ""
                              /\ Unpinned(m.answers[a].probability)}

ProbSum(m) == MapThenSumSet(LAMBDA a : m.answers[a].probability, ActiveAnswers(m))

Overpriced(total) == total - One > Config.arbitrage.minProbSumDeviation

Underpriced(total) ==
    /\ ~ Overpriced(total)
    /\ total - One \notin 1 - Config.arbitrage.minProbSumDeviation
                              .. Config.arbitrage.minProbSumDeviation - 1

(* The edge prob - prob / total, or its negation, in parts of One * total. *)
Gap(prob, total) ==
    IF Overpriced(total) THEN prob * (total - One) ELSE prob * (One - total)

(* Faulty: the order asks for the fair value itself. *)
FairLimit(prob, total) == <<prob * One, total>>

(* Midpoint between market and fair. *)
MidLimit(prob, total) == <<prob * (total + One), 2 * total>>

AnswerSignal(m, answer, prob, total) ==
    [strategy |-> "arbitrage", market |-> m.id, answer |-> answer,
     outcome |-> IF Overpriced(total) THEN "NO" ELSE "YES",
     confidence |-> (One * (IF Overpriced(total) THEN total - prob ELSE prob)) \div total,
     marketProb |-> prob, edge |-> Gap(prob, total) \div total,
     limit |-> MidLimit(prob, total)]

(* An answer needs an edge of 0.03 of its own. *)
ArbitrageSignals(m) ==
    LET total == ProbSum(m)
        prob(a) == m.answers[a].probability
    IN  IF Cardinality(ActiveAnswers(m)) >= 2 /\ (Overpriced(total) \/ Underpriced(total))
        THEN {AnswerSignal(m, a, prob(a), total) :
                 a \in {b \in ActiveAnswers(m) :
                           100 * Gap(prob(b), total) >= 3 * One * total}}
        ELSE {}

ArbitrageEligible(m) ==
    /\ m.outcomeType = "MULTIPLE_CHOICE" /\ ~ m.resolved
    /\ m.liquidity >= Config.arbitrage.minLiquidity
    /\ Cardinality(DOMAIN m.answers) >= 2
    /\ Config.arbitrage.maxCloseDays > 0 => m.left <= Config.arbitrage.maxCloseDays

(* Only the first max_markets_per_cycle of the eligible ones are evaluated. *)
Arbitrage(markets) ==
    UNION {ArbitrageSignals(markets[i]) :
              i \in {j \in DOMAIN markets :
                        /\ ArbitrageEligible(markets[j])
                        /\ Cardinality({k \in 1 .. j : ArbitrageEligible(markets[k])})
                              <= Config.arbitrage.maxMarketsPerCycle}}

-----------------------------------------------------------------------------
(***************************************************************************)
(* Time decay: a dated question under 0.5 loses half its price until it    *)
(* closes.  With e of d days elapsed the estimate is prob * (2d - e) / 2d. *)
(***************************************************************************)

Duration(m) == m.age + m.left

(* Faulty: the elapsed fraction may be over 1. *)
ElapsedUncapped(m) == m.age

Elapsed(m) == Lesser(m.age, Duration(m))

(* Faulty: the side of the price is not looked at. *)
DecaysAnywhere(m) == m.dated /\ m.volume > Config.timedecay.minVolume

Decays(m) ==
    m.dated /\ m.volume > Config.timedecay.minVolume /\ 2 * m.probability < One

TimeDecaySignals(m) ==
    LET d == Duration(m)
        e == Elapsed(m)
    IN  IF /\ Binary(m) /\ Decays(m) /\ d > 0
           /\ One * m.age > Config.timedecay.minTimeElapsed * d
           /\ m.probability * e > Config.timedecay.minEdge * 2 * d
        THEN {BinarySignal("timedecay", m, "NO",
                           (2 * One * d - m.probability * (2 * d - e)) \div (2 * d),
                           (m.probability * e) \div (2 * d),
                           <<m.probability * (4 * d - e), 4 * d>>)}
        ELSE {}

-----------------------------------------------------------------------------
(***************************************************************************)
(* Mispricing: bet with an extreme price, at a confidence of 0.97.         *)
(***************************************************************************)

High(m) == m.probability > Config.mispricing.extremeThresholdHigh
Low(m) == m.probability < Config.mispricing.extremeThresholdLow

MispricingSignals(m) ==
    LET outcome == IF High(m) THEN "YES" ELSE "NO"
        edge == IF High(m) THEN Percent(97) - m.probability
                           ELSE m.probability - (One - Percent(97))
    IN  IF /\ Binary(m) /\ (High(m) \/ Low(m))
           /\ m.age >= Config.mispricing.minMarketAgeDays
           /\ m.volume >= Config.mispricing.minVolume
           /\ m.left >= 14
           /\ edge > 0
        THEN {BinarySignal("mispricing", m, outcome, Percent(97), edge, NoLimit)}
        ELSE {}

-----------------------------------------------------------------------------
(***************************************************************************)
(* Market making: one order on each side of the price.                     *)
(***************************************************************************)

Spread(m) ==
    CASE m.liquidity > 2000 -> Percent(2)
      [] m.liquidity \in 1001 .. 2000 -> Percent(3)
      [] OTHER -> Config.marketmaking.baseSpread

Quoted(m) ==
    /\ Binary(m)
    /\ m.liquidity >= Config.marketmaking.minLiquidity
    /\ m.volume24 >= Config.marketmaking.minVolume24h
    /\ 5 * m.probability \in One .. 4 * One
    /\ m.left >= 30

MarketMakingSignals(m) ==
    LET quote(outcome, confidence, twice) ==
            BinarySignal("marketmaking", m, outcome, confidence, Spread(m) \div 2,
                         <<twice, 2>>)
    IN  IF Quoted(m)
        THEN {quote("YES", m.probability, 2 * m.probability - Spread(m)),
              quote("NO", One - m.probability, 2 * m.probability + Spread(m))}
        ELSE {}

-----------------------------------------------------------------------------
(* What the enabled strategies make of a binary market. *)
BinarySignals(m) ==
    UNION {IF Config.mispricing.enabled THEN MispricingSignals(m) ELSE {},
           IF Config.timedecay.enabled THEN TimeDecaySignals(m) ELSE {},
           IF Config.marketmaking.enabled THEN MarketMakingSignals(m) ELSE {}}

(* What all of them make of the scanned markets. *)
StrategySignals(markets) ==
    (IF Config.arbitrage.enabled THEN Arbitrage(markets) ELSE {})
        \cup UNION {BinarySignals(markets[i]) : i \in DOMAIN markets}

(* The executor rounds a limit to whole percents, and sends it if it is     *)
(* between 1 and 99; otherwise, as without a limit, a market order.         *)
Rounded(limit) ==
    (200 * limit[1] + One * limit[2]) \div (2 * One * limit[2])

SentAsLimit(sig) == sig.limit # NoLimit /\ Rounded(sig.limit) \in 1 .. 99

=============================================================================
