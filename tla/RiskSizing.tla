----------------------------- MODULE RiskSizing -----------------------------
(***************************************************************************)
(* The arithmetic of internal/risk/manager.go: whether the manager may     *)
(* trade, how large a signal's position is, and how much of a market's     *)
(* exposure cap is left.                                                   *)
(*                                                                         *)
(* Mana is a natural number.  The [risk] section of the configuration is   *)
(* in whole percents, so a fraction of a total is pct * total in           *)
(* hundredths of mana; math.Floor is \div 100.  Probabilities and edges    *)
(* are whole numbers of which One is certainty: 100 for percents, 1000 for *)
(* permille.  The code computes the same expressions in float64.           *)
(***************************************************************************)
EXTENDS Integers

CONSTANTS
    One,                   \* the probability 1
    KellyFraction,         \* kelly_fraction, in percent
    MaxPositionPct,        \* max_position_pct
    MaxMarketExposurePct,  \* max_market_exposure_pct; 0 switches the cap off
    MaxTotalExposure,      \* max_total_exposure, in percent
    MaxDrawdownPct,        \* max_drawdown_pct
    MinBetAmount,          \* min_bet_amount, in mana
    MinEdge                \* min_edge, as a probability

ASSUME RiskConfigAssumption ==
    /\ One \in Nat
    /\ KellyFraction \in Nat
    /\ MaxPositionPct \in Nat
    /\ MaxMarketExposurePct \in Nat
    /\ MaxTotalExposure \in Nat
    /\ MaxDrawdownPct \in Nat
    /\ MinBetAmount \in Nat
    /\ MinEdge \in Nat

Lesser(a, b) == IF a <= b THEN a ELSE b
Greater(a, b) == IF a >= b THEN a ELSE b

(***************************************************************************)
(* CanTrade, after its update of the peak: there is value, the drawdown    *)
(* from the peak is under the limit, and so is the exposure.               *)
(***************************************************************************)
InDrawdown(total, peak) ==
    peak > 0 /\ 100 * (peak - total) >= MaxDrawdownPct * peak

AtExposureLimit(total, exposure) == 100 * exposure >= MaxTotalExposure * total

CanTrade(total, peak, exposure) ==
    /\ total > 0
    /\ ~ InDrawdown(total, Greater(peak, total))
    /\ ~ AtExposureLimit(total, exposure)

(***************************************************************************)
(* sizePosition.  The Kelly fraction (b * p - (1 - p)) / b at net odds     *)
(* b = 1 / price - 1 is (p - price) / (1 - price).                         *)
(***************************************************************************)
Price(sig) ==
    IF sig.outcome = "YES" THEN sig.marketProb ELSE One - sig.marketProb

HasEdge(sig) ==
    /\ sig.edge >= MinEdge
    /\ Price(sig) \in 1 .. One - 1
    /\ sig.confidence > Price(sig)

KellyAmount(sig, balance) ==
    (KellyFraction * (sig.confidence - Price(sig)) * balance)
        \div (100 * (One - Price(sig)))

MaxPosition(total) == (MaxPositionPct * total) \div 100

RemainingExposure(total, exposure) ==
    (MaxTotalExposure * total - 100 * exposure) \div 100

(* Faulty: the cap per position is left out. *)
PositionWithoutMax(sig, pf, exposure) ==
    Lesser(Lesser(KellyAmount(sig, pf.balance),
                  RemainingExposure(pf.total, exposure)),
           pf.balance)

CappedPosition(sig, pf, exposure) ==
    Lesser(Lesser(Lesser(KellyAmount(sig, pf.balance), MaxPosition(pf.total)),
                  RemainingExposure(pf.total, exposure)),
           pf.balance)

SizePosition(sig, pf, exposure) ==
    IF HasEdge(sig) /\ CappedPosition(sig, pf, exposure) >= MinBetAmount
    THEN CappedPosition(sig, pf, exposure)
    ELSE 0

(***************************************************************************)
(* The per-market cap of SizeSignals, in hundredths of mana.               *)
(***************************************************************************)
MarketCapOn == MaxMarketExposurePct > 0

RemainingMarketCap(total, existing) ==
    MaxMarketExposurePct * total - 100 * existing

MarketCapReached(total, existing) ==
    MarketCapOn /\ RemainingMarketCap(total, existing) <= 0

(* Faulty: a market below its cap takes any amount. *)
UncappedAmount(sig, pf, exposure, existing) == SizePosition(sig, pf, exposure)

(* The amount SizeSignals approves when the market's cap is not reached. *)
ApprovedAmount(sig, pf, exposure, existing) ==
    IF MarketCapOn
    THEN Lesser(SizePosition(sig, pf, exposure),
                RemainingMarketCap(pf.total, existing) \div 100)
    ELSE SizePosition(sig, pf, exposure)

=============================================================================
