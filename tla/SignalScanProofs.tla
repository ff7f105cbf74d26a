-------------------------- MODULE SignalScanProofs --------------------------
(***************************************************************************)
(* What the strategies and the scan promise for every configuration, every *)
(* market and every order of requests and changes.                         *)
(***************************************************************************)
EXTENDS SignalScan, SharedLemmas

-----------------------------------------------------------------------------
(***************************************************************************)
(* Limits.                                                                 *)
(***************************************************************************)
LEMMA OneNat == One \in Nat /\ One > 0 /\ MinEdge \in Nat
<1>1. One \in Nat /\ MinEdge \in Nat
  BY RiskConfigAssumption
<1>2. One > 0
  BY StrategyAssumption
<1>. QED  BY <1>1, <1>2

(* What integer division is. *)
LEMMA DivBounds ==
    ASSUME NEW n \in Int, NEW d \in Nat, d > 0
    PROVE  /\ n \div d \in Int
           /\ d * (n \div d) <= n
           /\ n < d * (n \div d) + d
OBVIOUS

(* A positive factor does not change an order. *)
LEMMA Cancel ==
    ASSUME NEW k \in Nat, k > 0, NEW a \in Int, NEW b \in Int
    PROVE  (k * a < k * b <=> a < b) /\ (k * a <= k * b <=> a <= b)
OBVIOUS

(* The rounded limit is within half a percent of the limit n / d. *)
LEMMA RoundedBounds ==
    ASSUME NEW n \in Int, NEW d \in Nat, d > 0, NEW q, q = Rounded(<<n, d>>)
    PROVE  /\ q \in Int
           /\ 2 * One * d * q <= 200 * n + One * d
           /\ 200 * n + One * d < 2 * One * d * q + 2 * One * d
<1>1. q = (200 * n + One * d) \div (2 * One * d)
  BY DEF Rounded
<1>2. One * d \in Nat /\ One * d > 0
  BY OneNat
<1>3. 2 * One * d \in Nat /\ 2 * One * d > 0 /\ 200 * n + One * d \in Int
  BY <1>2, OneNat
<1>. QED  BY <1>1, <1>3, DivBounds

(* A limit beyond a price is a percent the executor sends. *)
LEMMA PercentRange ==
    ASSUME NEW p \in 0 .. One, NEW q \in Int
    PROVE  (One * q > 100 * p => q >= 1) /\ (One * q < 100 * p => q <= 99)
<1>1. ASSUME One * q > 100 * p  PROVE q >= 1
  BY <1>1, OneNat
<1>2. ASSUME One * q < 100 * p  PROVE q <= 99
  <2>1. One * q < One * 100
    BY <1>2, OneNat
  <2>. QED  BY <2>1, OneNat, Cancel
<1>. QED  BY <1>1, <1>2

(* Arithmetic of a limit halfway between a price p and the fair p / total,  *)
(* which are at least 0.03 apart.                                           *)
LEMMA MidpointKeepsEdge ==
    ASSUME NEW p \in 0 .. One, NEW total \in Nat, total > 0, p <= total,
           NEW q, q = Rounded(MidLimit(p, total))
    PROVE  /\ q \in Int
           /\ 100 * (p * (One - total)) >= 3 * One * total =>
                 /\ One * q > 100 * p
                 /\ total * (One * q) <= total * 100 * One
                 /\ total * (One * q) <= 100 * (p * One)
                 /\ q <= 99
           /\ 100 * (p * (total - One)) >= 3 * One * total =>
                 /\ One * q < 100 * p
                 /\ total * (One * q) >= 100 * (p * One)
<1>. One \in Nat /\ One > 0
  BY OneNat
<1>. DEFINE n == p * (total + One)
            d == 2 * total
<1>1. n \in Int /\ d \in Nat /\ d > 0
  OBVIOUS
<1>2. q = Rounded(<<n, d>>)
  BY DEF MidLimit
<1>3. /\ q \in Int
      /\ 2 * One * d * q <= 200 * n + One * d
      /\ 200 * n + One * d < 2 * One * d * q + 2 * One * d
  BY <1>1, <1>2, RoundedBounds
<1>4. /\ 4 * (total * (One * q)) <= 200 * (p * total) + 200 * (p * One) + 2 * (One * total)
      /\ 200 * (p * total) + 200 * (p * One) < 4 * (total * (One * q)) + 2 * (One * total)
  BY <1>3
<1>5. p * total <= One * total /\ p * One <= total * One
  BY Cancel
<1>6. ASSUME 100 * (p * (One - total)) >= 3 * One * total
      PROVE  /\ One * q > 100 * p
             /\ total * (One * q) <= total * 100 * One
             /\ total * (One * q) <= 100 * (p * One)
             /\ q <= 99
  <2>1. 100 * (p * One) >= 100 * (p * total) + 3 * (One * total)
    BY <1>6
  <2>2. total * (One * q) > total * (100 * p)
    BY <1>3, <1>4, <2>1
  <2>3. (One * total) * q < (One * total) * 100
    BY <1>3, <1>4, <1>5, <2>1
  <2>4. total * (One * q) <= 100 * (p * One)
    BY <1>3, <1>4, <2>1
  <2>5. One * q > 100 * p
    BY <1>3, <2>2, Cancel
  <2>6. q < 100
    BY <1>3, <2>3, Cancel
  <2>. QED  BY <1>3, <2>3, <2>4, <2>5, <2>6
<1>7. ASSUME 100 * (p * (total - One)) >= 3 * One * total
      PROVE  One * q < 100 * p /\ total * (One * q) >= 100 * (p * One)
  <2>1. 100 * (p * total) >= 100 * (p * One) + 3 * (One * total)
    BY <1>7
  <2>2. total * (One * q) < total * (100 * p)
    BY <1>3, <1>4, <2>1
  <2>3. total * (One * q) >= 100 * (p * One)
    BY <1>3, <1>4, <2>1
  <2>. QED  BY <1>3, <2>2, <2>3, Cancel
<1>. QED  BY <1>3, <1>6, <1>7

(* An arbitrage order is a limit order at a whole percent that lies beyond  *)
(* the price, so that it can fill, and not beyond the fair price: the 0.03  *)
(* a signal needs outweigh the rounding (evaluateMarket, executeSingle).    *)
(* "total" stands for the sum of the active answers.                        *)
THEOREM ArbitrageLimitsKeepEdge ==
    ASSUME NEW m, NEW a, NEW p \in 0 .. One, NEW total \in Nat, total > 0, p <= total,
           100 * Gap(p, total) >= 3 * One * total
    PROVE  /\ SentAsLimit(AnswerSignal(m, a, p, total))
           /\ KeepsEdge(AnswerSignal(m, a, p, total))
<1>. One \in Nat /\ One > 0
  BY OneNat
<1>. DEFINE sig == AnswerSignal(m, a, p, total)
            q == Rounded(MidLimit(p, total))
            c == sig.confidence
<1>1. /\ sig.limit = MidLimit(p, total) /\ sig.marketProb = p
      /\ sig.outcome = IF Overpriced(total) THEN "NO" ELSE "YES"
      /\ c = (One * (IF Overpriced(total) THEN total - p ELSE p)) \div total
  BY DEF AnswerSignal
<1>2. sig.limit # NoLimit
  BY <1>1 DEF MidLimit, NoLimit
<1>3. q \in Int /\ Rounded(sig.limit) = q
  BY <1>1, MidpointKeepsEdge
<1>4. CASE Overpriced(total)
  <2>1. 100 * (p * (total - One)) >= 3 * One * total
    BY <1>4 DEF Gap
  <2>2. One * q < 100 * p /\ total * (One * q) >= 100 * (p * One)
    BY <2>1, MidpointKeepsEdge
  <2>3. c \in Int /\ One * (total - p) < total * c + total
    BY <1>1, <1>4, DivBounds
  <2>4. 100 * One - One * q <= 100 * (c + 1)
    <3>. HIDE DEF q, c
    <3>1. total * (100 * One - One * q) <= total * (100 * (c + 1))
      BY <1>3, <2>2, <2>3
    <3>. QED  BY <1>3, <2>3, <3>1, Cancel
  <2>5. p > 0
    BY <2>1, Cancel
  <2>6. q >= 1 /\ q <= 99
    <3>. HIDE DEF q
    <3>1. p * One > 0
      BY <2>5
    <3>2. (total * One) * q > 0
      BY <1>3, <2>2, <3>1
    <3>. QED  BY <1>3, <2>2, <3>2, PercentRange
  <2>7. sig.outcome = "NO" /\ q \in 1 .. 99
    BY <1>1, <1>3, <1>4, <2>6
  <2>. HIDE DEF sig, q, c
  <2>8. SentAsLimit(sig)
    BY <1>2, <1>3, <2>7 DEF SentAsLimit
  <2>9. KeepsEdge(sig)
    BY <1>1, <1>3, <2>2, <2>4, <2>7 DEF KeepsEdge, c
  <2>. QED  BY <2>8, <2>9 DEF sig
<1>5. CASE ~ Overpriced(total)
  <2>1. 100 * (p * (One - total)) >= 3 * One * total
    BY <1>5 DEF Gap
  <2>2. One * q > 100 * p /\ total * (One * q) <= 100 * (p * One) /\ q <= 99
    BY <2>1, MidpointKeepsEdge
  <2>3. c \in Int /\ One * p < total * c + total
    BY <1>1, <1>5, DivBounds
  <2>4. One * q <= 100 * (c + 1)
    <3>. HIDE DEF q, c
    <3>1. total * (One * q) <= total * (100 * (c + 1))
      BY <1>3, <2>2, <2>3
    <3>. QED  BY <1>3, <2>3, <3>1, Cancel
  <2>5. q >= 1
    BY <1>3, <2>2, PercentRange
  <2>6. sig.outcome = "YES" /\ q \in 1 .. 99
    BY <1>1, <1>3, <1>5, <2>2, <2>5
  <2>. HIDE DEF sig, q, c
  <2>7. SentAsLimit(sig)
    BY <1>2, <1>3, <2>6 DEF SentAsLimit
  <2>8. KeepsEdge(sig)
    BY <1>1, <1>3, <2>2, <2>4, <2>6 DEF KeepsEdge, c
  <2>. QED  BY <2>7, <2>8 DEF sig
<1>. QED  BY <1>4, <1>5

(* With more than a percent of edge asked for, by the risk manager or by    *)
(* the strategy, so is a time-decay order: its limit lies halfway between   *)
(* the price and the estimate (evaluateMarket, executeSingle).              *)
THEOREM TimeDecayLimitsKeepEdge ==
    ASSUME NEW m, IsMarketData(m), NEW sig \in TimeDecaySignals(m), HasEdge(sig),
           100 * MinEdge > One \/ 100 * Config.timedecay.minEdge >= One
    PROVE  SentAsLimit(sig) /\ KeepsEdge(sig)
<1>. One \in Nat /\ One > 0 /\ MinEdge \in Nat
  BY OneNat
<1>. DEFINE p == m.probability
            d == Duration(m)
            e == Elapsed(m)
            c == (2 * One * d - p * (2 * d - e)) \div (2 * d)
            q == Rounded(sig.limit)
<1>1. p \in 0 .. One /\ m.age \in Int /\ m.left \in Int
  BY DEF IsMarketData
<1>2. /\ d > 0
      /\ One * m.age > Config.timedecay.minTimeElapsed * d
      /\ p * e > Config.timedecay.minEdge * 2 * d
      /\ sig = BinarySignal("timedecay", m, "NO", c, (p * e) \div (2 * d),
                            <<p * (4 * d - e), 4 * d>>)
  BY DEF TimeDecaySignals
<1>3. d \in Nat /\ e \in Int /\ e <= d
  BY <1>1, <1>2 DEF Duration, Elapsed, Lesser
<1>4. /\ sig.limit = <<p * (4 * d - e), 4 * d>> /\ sig.limit # NoLimit
      /\ sig.marketProb = p /\ sig.outcome = "NO" /\ sig.confidence = c
      /\ sig.edge = (p * e) \div (2 * d)
  BY <1>2 DEF BinarySignal, NoLimit
<1>. HIDE DEF p, d, e
<1>5. 100 * (p * e) > 2 * (d * One)
  <2>0. p * e \in Int /\ 2 * d \in Nat /\ 2 * d > 0
    BY <1>1, <1>2, <1>3
  <2>1. CASE 100 * MinEdge > One
    <3>1. (p * e) \div (2 * d) >= MinEdge
      BY <1>4 DEF HasEdge
    <3>2. (p * e) \div (2 * d) \in Int /\ (2 * d) * ((p * e) \div (2 * d)) <= p * e
      BY <2>0, DivBounds
    <3>3. (2 * d) * MinEdge <= (2 * d) * ((p * e) \div (2 * d))
      BY <2>0, <3>1, <3>2, Cancel
    <3>4. (2 * d) * One < (2 * d) * (100 * MinEdge)
      BY <2>0, <2>1, Cancel
    <3>. QED  BY <1>3, <2>0, <3>2, <3>3, <3>4
  <2>2. CASE 100 * Config.timedecay.minEdge >= One
    <3>. DEFINE k == Config.timedecay.minEdge
    <3>1. k \in Nat
      BY StrategyAssumption DEF ConfigType
    <3>2. p * e > k * 2 * d /\ 100 * k >= One
      BY <1>2, <2>2
    <3>. HIDE DEF k
    <3>3. (2 * d) * One <= (2 * d) * (100 * k)
      BY <2>0, <3>1, <3>2, Cancel
    <3>. QED  BY <1>3, <2>0, <3>1, <3>2, <3>3
  <2>. QED  BY <2>1, <2>2
<1>6. p * e <= p * d
  BY <1>1, <1>3, Cancel
<1>7. /\ q \in Int
      /\ 8 * (d * (One * q)) <= 800 * (p * d) - 200 * (p * e) + 4 * (d * One)
      /\ 800 * (p * d) - 200 * (p * e) < 8 * (d * (One * q)) + 4 * (d * One)
  <2>. DEFINE n == p * (4 * d - e)
              f == 4 * d
  <2>1. n \in Int /\ f \in Nat /\ f > 0
    BY <1>1, <1>2, <1>3
  <2>2. /\ q \in Int
        /\ 2 * One * f * q <= 200 * n + One * f
        /\ 200 * n + One * f < 2 * One * f * q + 2 * One * f
    BY <2>1, <1>4, RoundedBounds
  <2>. QED  BY <1>1, <1>3, <2>2
<1>8. /\ c \in Int
      /\ 2 * (One * d) - 2 * (p * d) + p * e < 2 * (d * c) + 2 * d
  <2>. DEFINE n == 2 * One * d - p * (2 * d - e)
              f == 2 * d
  <2>1. n \in Int /\ f \in Nat /\ f > 0
    BY <1>1, <1>2, <1>3
  <2>2. c \in Int /\ n < f * c + f
    BY <2>1, DivBounds
  <2>. QED  BY <1>1, <1>3, <2>2
<1>. HIDE DEF q, c
<1>9. One * q < 100 * p
  <2>1. d * (One * q) < d * (100 * p)
    BY <1>1, <1>3, <1>5, <1>7
  <2>. QED  BY <1>1, <1>2, <1>3, <1>7, <2>1, Cancel
<1>10. 100 * One - One * q <= 100 * (c + 1)
  <2>1. d * (100 * One - One * q) <= d * (100 * (c + 1))
    BY <1>1, <1>3, <1>5, <1>7, <1>8
  <2>. QED  BY <1>2, <1>3, <1>7, <1>8, <2>1, Cancel
<1>11. q >= 1
  <2>1. (d * One) * 0 < (d * One) * q
    BY <1>1, <1>3, <1>5, <1>6, <1>7
  <2>2. d * One \in Nat /\ d * One > 0
    BY <1>2, <1>3
  <2>. QED  BY <1>7, <2>1, <2>2, Cancel
<1>12. q <= 99
  BY <1>1, <1>7, <1>9, PercentRange
<1>. QED  BY <1>4, <1>7, <1>9, <1>10, <1>11, <1>12 DEF SentAsLimit, KeepsEdge, q

(* Whatever the configuration, the risk manager can size no quote of the    *)
(* market maker: its confidence is the price itself, and a position needs   *)
(* one above it (sizePosition).                                             *)
THEOREM QuotesNeverSized ==
    ASSUME NEW m, IsMarketData(m), NEW sig \in MarketMakingSignals(m)
    PROVE  ~ HasEdge(sig)
<1>1. m.probability \in Int /\ One \in Int
  BY OneNat DEF IsMarketData
<1>2. PICK limit, edge :
         \/ sig = BinarySignal("marketmaking", m, "YES", m.probability, edge, limit)
         \/ sig = BinarySignal("marketmaking", m, "NO", One - m.probability, edge, limit)
  BY DEF MarketMakingSignals
<1>3. CASE sig = BinarySignal("marketmaking", m, "YES", m.probability, edge, limit)
  <2>1. sig.confidence = m.probability /\ Price(sig) = m.probability
    BY <1>3 DEF BinarySignal, Price
  <2>. QED  BY <1>1, <2>1 DEF HasEdge
<1>4. CASE sig = BinarySignal("marketmaking", m, "NO", One - m.probability, edge, limit)
  <2>1. sig.confidence = One - m.probability /\ Price(sig) = One - m.probability
    BY <1>4 DEF BinarySignal, Price
  <2>. QED  BY <1>1, <2>1 DEF HasEdge
<1>. QED  BY <1>2, <1>3, <1>4

-----------------------------------------------------------------------------
(***************************************************************************)
(* Sums of prices.                                                         *)
(***************************************************************************)

(* What an answer adds to a sum of prices, and the sum over some of them. *)
Weight(as, a) == as[a].probability

Total(as, S) == MapThenSumSet(LAMBDA a : as[a].probability, S)

(* The sum takes the elements one by one, in the order CHOOSE has them.  g   *)
(* holds the sums over the sets of D.                                       *)
Chosen(s) == CHOOSE a \in s : TRUE

SumsOver(g, as, D) ==
    g = [s \in D |-> IF s = {} THEN 0 ELSE Weight(as, Chosen(s)) + g[s \ {Chosen(s)}]]

Upto(U, n) == {s \in Parts(U) : Cardinality(s) <= n}

(* One element less to go. *)
LEMMA ChosenFacts ==
    ASSUME NEW U, IsFiniteSet(U), NEW s \in Parts(U), s # {}
    PROVE  /\ Chosen(s) \in s
           /\ Cardinality(s) \in Nat /\ Cardinality(s) > 0
           /\ Cardinality(s \ {Chosen(s)}) = Cardinality(s) - 1
<1>1. Chosen(s) \in s
  BY DEF Chosen
<1>2. IsFiniteSet(s)
  BY PartsFacts
<1>3. Cardinality(s) \in Nat /\ Cardinality(s) # 0
  BY <1>2, FS_CardinalityType, FS_EmptySet
<1>4. Cardinality(s \ {Chosen(s)}) = Cardinality(s) - 1
  BY <1>1, <1>2, FS_RemoveElement
<1>. QED  BY <1>1, <1>3, <1>4

(* Sums over small sets give the sums over sets of one element more. *)
LEMMA SumsExtend ==
    ASSUME NEW U, IsFiniteSet(U), NEW as, NEW n \in Nat,
           NEW g, SumsOver(g, as, Upto(U, n))
    PROVE  \E h : SumsOver(h, as, Upto(U, n + 1))
<1>. DEFINE value(f, s) == IF s = {} THEN 0 ELSE Weight(as, Chosen(s)) + f[s \ {Chosen(s)}]
            h == [s \in Upto(U, n + 1) |-> IF Cardinality(s) <= n THEN g[s] ELSE value(g, s)]
<1>0. \A s \in Upto(U, n) : g[s] = value(g, s)
  BY DEF SumsOver
<1>1. ASSUME NEW s \in Upto(U, n + 1), s # {}
      PROVE  /\ s \ {Chosen(s)} \in Upto(U, n)
             /\ s \ {Chosen(s)} \in Upto(U, n + 1)
             /\ h[s \ {Chosen(s)}] = g[s \ {Chosen(s)}]
  <2>. DEFINE less == s \ {Chosen(s)}
  <2>1. /\ s \in Parts(U) /\ Cardinality(s) <= n + 1 /\ Cardinality(s) \in Nat
        /\ Cardinality(less) = Cardinality(s) - 1 /\ less \in Parts(U)
    BY <1>1, ChosenFacts, PartsFacts DEF Upto
  <2>. HIDE DEF less
  <2>2. Cardinality(less) <= n /\ Cardinality(less) <= n + 1
    BY <2>1
  <2>3. less \in Upto(U, n) /\ less \in Upto(U, n + 1)
    BY <2>1, <2>2 DEF Upto
  <2>4. h[less] = g[less]
    BY <2>2, <2>3
  <2>. QED  BY <2>3, <2>4 DEF less
<1>2. ASSUME NEW s \in Upto(U, n + 1)
      PROVE  h[s] = value(h, s)
  <2>1. CASE s = {}
    <3>1. Cardinality(s) <= n
      BY <2>1, FS_EmptySet
    <3>2. s \in Upto(U, n)
      BY <3>1 DEF Upto
    <3>. QED  BY <1>0, <2>1, <3>1, <3>2
  <2>2. CASE s # {} /\ Cardinality(s) <= n
    <3>1. s \in Upto(U, n)
      BY <2>2 DEF Upto
    <3>2. h[s] = g[s] /\ g[s] = value(g, s)
      BY <1>0, <2>2, <3>1
    <3>. QED  BY <1>1, <2>2, <3>2
  <2>3. CASE s # {} /\ ~ (Cardinality(s) <= n)
    <3>1. h[s] = value(g, s)
      BY <2>3
    <3>. QED  BY <1>1, <2>3, <3>1
  <2>. QED  BY <2>1, <2>2, <2>3
<1>3. h = [s \in Upto(U, n + 1) |-> value(h, s)]
  BY <1>2, Zenon
<1>4. SumsOver(h, as, Upto(U, n + 1))
  BY <1>3 DEF SumsOver
<1>. QED  BY <1>4

(* So there are sums over all subsets of a finite set. *)
LEMMA SumsExist ==
    ASSUME NEW U, IsFiniteSet(U), NEW as
    PROVE  \E g : SumsOver(g, as, Parts(U))
<1>. DEFINE T == {n \in Nat : \E g : SumsOver(g, as, Upto(U, n))}
<1>1. 0 \in T
  <2>. DEFINE g == [s \in Upto(U, 0) |-> 0]
  <2>1. ASSUME NEW s \in Upto(U, 0)  PROVE s = {}
    <3>1. s \in Parts(U) /\ Cardinality(s) <= 0
      BY DEF Upto
    <3>2. Cardinality(s) \in Nat /\ (Cardinality(s) = 0 => s = {})
      BY <3>1, PartsFacts, FS_CardinalityType, FS_EmptySet
    <3>. QED  BY <3>1, <3>2
  <2>2. g = [s \in Upto(U, 0) |-> IF s = {} THEN 0
                                  ELSE Weight(as, Chosen(s)) + g[s \ {Chosen(s)}]]
    BY <2>1
  <2>3. SumsOver(g, as, Upto(U, 0))
    BY <2>2 DEF SumsOver
  <2>. QED  BY <2>3
<1>2. ASSUME NEW n \in T  PROVE n + 1 \in T
  <2>1. n \in Nat /\ n + 1 \in Nat
    OBVIOUS
  <2>2. \E h : SumsOver(h, as, Upto(U, n + 1))
    BY <2>1, SumsExtend
  <2>. QED  BY <2>1, <2>2
<1>3. T = Nat
  <2>. HIDE DEF T
  <2>1. T \in SUBSET Nat
    BY DEF T
  <2>. QED  BY <1>1, <1>2, <2>1, NaturalsReached
<1>4. Cardinality(U) \in Nat
  BY FS_CardinalityType
<1>5. Parts(U) = Upto(U, Cardinality(U))
  <2>1. \A s \in Parts(U) : Cardinality(s) <= Cardinality(U)
    BY FS_Subset DEF Parts
  <2>. QED  BY <2>1 DEF Upto
<1>6. Cardinality(U) \in T
  BY <1>3, <1>4
<1>. QED  BY <1>5, <1>6

(* What the sums say of a set, in words the provers do not look into. *)
At(g, s) == g[s]

Splits(g, as, s) == At(g, s) = Weight(as, Chosen(s)) + At(g, s \ {Chosen(s)})

SplitsOff(as, s, x) == Total(as, s) = Weight(as, x) + Total(as, s \ {x})

(* A total is what the sums over the subsets say of the whole set.          *)
LEMMA TotalIsSum ==
    ASSUME NEW S, IsFiniteSet(S), NEW as
    PROVE  \E g : SumsOver(g, as, Parts(S)) /\ Total(as, S) = At(g, S)
<1>. DEFINE sums == CHOOSE g : SumsOver(g, as, Parts(S))
<1>1. SumsOver(sums, as, Parts(S))
  BY SumsExist
<1>2. Total(as, S) = sums[S]
  BY Zenon DEF Total, MapThenSumSet, MapThenFoldSet, SumsOver, Weight, Chosen, Parts
<1>. HIDE DEF sums
<1>. QED  BY <1>1, <1>2 DEF At

(* How the sums on the subsets of U are related.                            *)
LEMMA SumsUnfold ==
    ASSUME NEW U, NEW as, NEW g, SumsOver(g, as, Parts(U)), NEW s \in Parts(U)
    PROVE  /\ s = {} => At(g, s) = 0
           /\ s # {} => Splits(g, as, s)
BY DEF SumsOver, At, Splits

Agree(g, h, s) == At(g, s) = At(h, s)

(* Sums over different collections of sets agree where they overlap.        *)
LEMMA SumsAgree ==
    ASSUME NEW U, IsFiniteSet(U), NEW V \in Parts(U), NEW as,
           NEW g, SumsOver(g, as, Parts(U)), NEW h, SumsOver(h, as, Parts(V))
    PROVE  Agree(g, h, V)
<1>. DEFINE T == {s \in Parts(V) : At(g, s) = At(h, s)}
<1>0. IsFiniteSet(V)
  BY PartsFacts
<1>1. ASSUME NEW s \in Parts(V), \A x \in s : s \ {x} \in T  PROVE s \in T
  <2>1. s \in Parts(U)
    BY PartsFacts
  <2>2. CASE s = {}
    <3>1. At(g, s) = 0 /\ At(h, s) = 0
      BY <2>1, <2>2, SumsUnfold
    <3>. QED  BY <3>1
  <2>3. CASE s # {}
    <3>1. Chosen(s) \in s
      BY <2>3 DEF Chosen
    <3>2. Splits(g, as, s)
      BY <2>1, <2>3, SumsUnfold
    <3>4. Splits(h, as, s)
      BY <2>3, SumsUnfold
    <3>3. At(g, s \ {Chosen(s)}) = At(h, s \ {Chosen(s)})
      BY <1>1, <3>1
    <3>. QED  BY <3>2, <3>3, <3>4 DEF Splits
  <2>. QED  BY <2>2, <2>3
<1>2. T \in SUBSET Parts(V)
  OBVIOUS
<1>3. T = Parts(V)
  <2>. HIDE DEF T
  <2>. QED  BY <1>0, <1>1, <1>2, SubsetsReached
<1>4. V \in Parts(V)
  BY <1>0, PartsFacts
<1>. QED  BY <1>3, <1>4 DEF Agree

(* A total is the weight of one element and the total of the others.        *)
LEMMA TotalUnfold ==
    ASSUME NEW S, IsFiniteSet(S), NEW as
    PROVE  /\ S = {} => Total(as, S) = 0
           /\ S # {} => /\ Chosen(S) \in S
                        /\ SplitsOff(as, S, Chosen(S))
<1>1. PICK g : SumsOver(g, as, Parts(S)) /\ Total(as, S) = At(g, S)
  BY TotalIsSum
<1>2. S \in Parts(S)
  BY PartsFacts
<1>3. CASE S = {}
  BY <1>1, <1>2, <1>3, SumsUnfold
<1>4. CASE S # {}
  <2>. DEFINE rest == S \ {Chosen(S)}
  <2>1. Chosen(S) \in S
    BY <1>4 DEF Chosen
  <2>2. rest \in Parts(S) /\ IsFiniteSet(rest)
    BY <1>2, PartsFacts
  <2>3. Splits(g, as, S)
    BY <1>1, <1>2, <1>4, SumsUnfold
  <2>. HIDE DEF rest
  <2>4. PICK h : SumsOver(h, as, Parts(rest)) /\ Total(as, rest) = At(h, rest)
    BY <2>2, TotalIsSum
  <2>5. Agree(g, h, rest)
    BY <1>1, <2>2, <2>4, SumsAgree
  <2>6. Total(as, S) = Weight(as, Chosen(S)) + Total(as, rest)
    BY <1>1, <2>3, <2>4, <2>5 DEF Splits, Agree, rest
  <2>. QED  BY <1>4, <2>1, <2>6 DEF rest, SplitsOff
<1>. QED  BY <1>3, <1>4

(* Arithmetic, apart from the terms it is about. *)
LEMMA SumOfNats ==
    ASSUME NEW w \in Nat, NEW u \in Nat, NEW t, t = w + u
    PROVE  t \in Nat /\ w <= t /\ u <= t
OBVIOUS

(* Two summands may be taken off in either order. *)
LEMMA SumsCommute ==
    ASSUME NEW w \in Nat, NEW v \in Nat, NEW u \in Nat,
           NEW t, NEW tv, NEW tw, t = v + tv, tv = w + u, tw = v + u
    PROVE  t = w + tw
OBVIOUS

Weighed(as, S) == \A a \in S : Weight(as, a) \in Nat

(* A total of naturals is a natural. *)
LEMMA TotalsType ==
    ASSUME NEW U, IsFiniteSet(U), NEW as, Weighed(as, U)
    PROVE  \A s \in Parts(U) : Total(as, s) \in Nat
<1>. DEFINE T == {s \in Parts(U) : Total(as, s) \in Nat}
<1>1. ASSUME NEW s \in Parts(U), \A x \in s : s \ {x} \in T  PROVE s \in T
  <2>1. IsFiniteSet(s) /\ \A x \in s : x \in U
    BY PartsFacts
  <2>2. CASE s = {}
    <3>1. Total(as, s) = 0
      BY <2>1, <2>2, TotalUnfold
    <3>. QED  BY <3>1
  <2>3. CASE s # {}
    <3>1. Chosen(s) \in s /\ SplitsOff(as, s, Chosen(s))
      BY <2>1, <2>3, TotalUnfold
    <3>2. Weight(as, Chosen(s)) \in Nat
      BY <2>1, <3>1 DEF Weighed
    <3>3. Total(as, s \ {Chosen(s)}) \in Nat
      BY <1>1, <3>1
    <3>. DEFINE x == Chosen(s)
                rest == s \ {x}
    <3>4. Total(as, s) = Weight(as, x) + Total(as, rest)
      BY <3>1 DEF SplitsOff
    <3>. HIDE DEF x, rest, T
    <3>5. Weight(as, x) \in Nat /\ Total(as, rest) \in Nat
      BY <3>2, <3>3 DEF x, rest
    <3>6. Total(as, s) \in Nat
      BY <3>4, <3>5, SumOfNats
    <3>. QED  BY <3>6 DEF T
  <2>. QED  BY <2>2, <2>3
<1>2. T \in SUBSET Parts(U)
  OBVIOUS
<1>3. T = Parts(U)
  <2>. HIDE DEF T
  <2>. QED  BY <1>1, <1>2, SubsetsReached
<1>. QED  BY <1>3

(* The order in which the elements are chosen does not matter.              *)
LEMMA TotalsRemove ==
    ASSUME NEW U, IsFiniteSet(U), NEW as, Weighed(as, U)
    PROVE  \A s \in Parts(U) : \A x \in s : SplitsOff(as, s, x)
<1>. DEFINE T == {s \in Parts(U) : \A x \in s : SplitsOff(as, s, x)}
<1>1. ASSUME NEW s \in Parts(U), \A x \in s : s \ {x} \in T  PROVE s \in T
  <2>1. ASSUME NEW x \in s  PROVE SplitsOff(as, s, x)
    <3>. DEFINE c == Chosen(s)
    <3>0. IsFiniteSet(s)
      BY PartsFacts
    <3>1. c \in s /\ SplitsOff(as, s, c)
      BY <3>0, TotalUnfold
    <3>. HIDE DEF c
    <3>2. CASE x = c
      BY <3>1, <3>2
    <3>3. CASE x # c
      <4>1. /\ x \in s \ {c} /\ c \in s \ {x}
            /\ (s \ {c}) \ {x} = (s \ {x}) \ {c}
        BY <3>1, <3>3
      <4>2. SplitsOff(as, s \ {c}, x)
        BY <1>1, <3>1, <4>1
      <4>3. SplitsOff(as, s \ {x}, c)
        BY <1>1, <4>1
      <4>4. Weight(as, x) \in Nat /\ Weight(as, c) \in Nat
        BY <3>1, PartsFacts DEF Weighed
      <4>5. s \ {x} \in Parts(U)
        BY PartsFacts
      <4>6. (s \ {x}) \ {c} \in Parts(U)
        BY <4>5, PartsFacts
      <4>7. Total(as, (s \ {x}) \ {c}) \in Nat
        BY <4>6, TotalsType
      <4>. DEFINE sx == s \ {x}
                  sc == s \ {c}
                  sxc == sx \ {c}
      <4>8. Total(as, s) = Weight(as, c) + Total(as, sc)
        BY <3>1 DEF SplitsOff
      <4>9. Total(as, sc) = Weight(as, x) + Total(as, sxc)
        BY <4>1, <4>2 DEF SplitsOff
      <4>10. Total(as, sx) = Weight(as, c) + Total(as, sxc)
        BY <4>3 DEF SplitsOff
      <4>11. Total(as, sxc) \in Nat
        BY <4>7
      <4>. HIDE DEF T, sx, sc, sxc
      <4>. DEFINE wx == Weight(as, x)
                  wc == Weight(as, c)
                  ts == Total(as, s)
                  tx == Total(as, sx)
                  tc == Total(as, sc)
                  tt == Total(as, sxc)
      <4>13. /\ wx \in Nat /\ wc \in Nat /\ tt \in Nat
             /\ ts = wc + tc /\ tc = wx + tt /\ tx = wc + tt
        BY <4>4, <4>8, <4>9, <4>10, <4>11
      <4>. HIDE DEF wx, wc, ts, tx, tc, tt
      <4>14. ts = wx + tx
        BY <4>13
      <4>12. Total(as, s) = Weight(as, x) + Total(as, sx)
        BY <4>14 DEF ts, wx, tx
      <4>. QED  BY <4>12 DEF SplitsOff, sx
    <3>. QED  BY <3>2, <3>3
  <2>. QED  BY <2>1
<1>2. T \in SUBSET Parts(U)
  OBVIOUS
<1>3. T = Parts(U)
  <2>. HIDE DEF T
  <2>. QED  BY <1>1, <1>2, SubsetsReached
<1>. QED  BY <1>3

(* Together: any element can be split off a total. *)
LEMMA TotalRemove ==
    ASSUME NEW S, IsFiniteSet(S), NEW as, Weighed(as, S), NEW x \in S
    PROVE  /\ Total(as, S) \in Nat /\ Total(as, S \ {x}) \in Nat
           /\ SplitsOff(as, S, x)
<1>1. S \in Parts(S)
  BY PartsFacts
<1>2. S \ {x} \in Parts(S)
  BY <1>1, PartsFacts
<1>3. Total(as, S) \in Nat
  BY <1>1, TotalsType
<1>4. Total(as, S \ {x}) \in Nat
  BY <1>2, TotalsType
<1>5. SplitsOff(as, S, x)
  BY <1>1, TotalsRemove
<1>. QED  BY <1>3, <1>4, <1>5

(* The sum of two members is part of the total. *)
LEMMA TotalOfTwo ==
    ASSUME NEW S, IsFiniteSet(S), NEW as, Weighed(as, S), NEW x \in S, NEW y \in S, x # y
    PROVE  Weight(as, x) + Weight(as, y) <= Total(as, S)
<1>. DEFINE R == S \ {x}
            wx == Weight(as, x)
            wy == Weight(as, y)
            ts == Total(as, S)
            tr == Total(as, R)
            tt == Total(as, R \ {y})
<1>1. y \in R /\ IsFiniteSet(R) /\ Weighed(as, R)
  BY FS_Subset DEF Weighed
<1>2. wx \in Nat /\ wy \in Nat
  BY DEF Weighed
<1>3. SplitsOff(as, S, x)
  BY TotalRemove
<1>. HIDE DEF R
<1>4. tt \in Nat /\ SplitsOff(as, R, y)
  BY <1>1, TotalRemove
<1>5. ts = wx + tr /\ tr = wy + tt
  BY <1>3, <1>4 DEF SplitsOff, R
<1>. HIDE DEF wx, wy, ts, tr, tt
<1>6. wx + wy <= ts
  BY <1>2, <1>4, <1>5
<1>. QED  BY <1>6 DEF wx, wy, ts

(* And one member is no more than the total. *)
LEMMA TotalOfOne ==
    ASSUME NEW S, IsFiniteSet(S), NEW as, Weighed(as, S), NEW x \in S
    PROVE  Total(as, S) \in Nat /\ Weight(as, x) <= Total(as, S)
<1>. DEFINE wx == Weight(as, x)
            ts == Total(as, S)
            tr == Total(as, S \ {x})
<1>1. wx \in Nat
  BY DEF Weighed
<1>2. ts \in Nat /\ tr \in Nat /\ SplitsOff(as, S, x)
  BY TotalRemove
<1>3. ts = wx + tr
  BY <1>2 DEF SplitsOff
<1>. HIDE DEF wx, ts, tr
<1>4. ts \in Nat /\ wx <= ts
  BY <1>1, <1>2, <1>3
<1>. QED  BY <1>4 DEF wx, ts

(* The same weights have the same total. *)
SameTotal(as, bs, S) == Total(as, S) = Total(bs, S)

(* A sum depends on its summands alone. *)
LEMMA TotalsSame ==
    ASSUME NEW S, IsFiniteSet(S), NEW as, NEW bs,
           \A a \in S : Weight(as, a) = Weight(bs, a)
    PROVE  SameTotal(as, bs, S)
<1>. DEFINE T == {s \in Parts(S) : SameTotal(as, bs, s)}
<1>1. ASSUME NEW s \in Parts(S), \A x \in s : s \ {x} \in T  PROVE s \in T
  <2>1. IsFiniteSet(s) /\ \A x \in s : x \in S
    BY PartsFacts
  <2>2. CASE s = {}
    <3>1. Total(as, s) = 0 /\ Total(bs, s) = 0
      BY <2>1, <2>2, TotalUnfold
    <3>. QED  BY <3>1 DEF SameTotal
  <2>3. CASE s # {}
    <3>. DEFINE x == Chosen(s)
                rest == s \ {x}
    <3>1. x \in s /\ SplitsOff(as, s, x) /\ SplitsOff(bs, s, x)
      BY <2>1, <2>3, TotalUnfold
    <3>2. Weight(as, x) = Weight(bs, x)
      BY <2>1, <3>1
    <3>3. SameTotal(as, bs, rest)
      BY <1>1, <3>1
    <3>4. /\ Total(as, s) = Weight(as, x) + Total(as, rest)
          /\ Total(bs, s) = Weight(bs, x) + Total(bs, rest)
      BY <3>1 DEF SplitsOff
    <3>. HIDE DEF x, rest, T
    <3>5. Total(as, s) = Total(bs, s)
      BY <3>2, <3>3, <3>4 DEF SameTotal
    <3>. QED  BY <3>5 DEF SameTotal, T
  <2>. QED  BY <2>2, <2>3
<1>2. T \in SUBSET Parts(S)
  OBVIOUS
<1>3. T = Parts(S)
  <2>. HIDE DEF T
  <2>. QED  BY <1>1, <1>2, SubsetsReached
<1>4. S \in Parts(S)
  BY PartsFacts
<1>. QED  BY <1>3, <1>4

(* What is lost with small weights: at most One / 1000 for each of them.    *)
Loss(t, u, k) == u <= t /\ 1000 * (t - u) <= k * One

SmallLoss(as, S, d) == Loss(Total(as, S), Total(as, S \ d), Cardinality(d))

(* One small summand more that is left out. *)
LEMMA LossArithmetic ==
    ASSUME NEW t \in Nat, NEW u \in Nat, NEW v \in Nat, NEW w \in Nat,
           NEW k \in Nat, NEW n, n = k - 1, k > 0,
           v = w + u, Loss(t, v, n), 1000 * w <= One
    PROVE  Loss(t, u, k)
<1>. One \in Nat
  BY OneNat
<1>0. v <= t /\ 1000 * (t - v) <= n * One
  BY DEF Loss
<1>1. k * One = n * One + One
  OBVIOUS
<1>2. 1000 * (t - u) = 1000 * (t - v) + 1000 * w
  OBVIOUS
<1>3. n * One \in Int /\ k * One \in Int
  OBVIOUS
<1>4. u <= t /\ 1000 * (t - u) <= k * One
  BY <1>0, <1>1, <1>2, <1>3
<1>. QED  BY <1>4 DEF Loss

(* Leaving out k summands of a thousandth at most loses k thousandths. *)
LEMMA TotalWithoutSmall ==
    ASSUME NEW S, IsFiniteSet(S), NEW as, Weighed(as, S), NEW D \in Parts(S),
           \A a \in D : 1000 * Weight(as, a) <= One
    PROVE  SmallLoss(as, S, D)
<1>0. IsFiniteSet(D)
  BY PartsFacts
<1>. DEFINE T == {d \in Parts(D) : SmallLoss(as, S, d)}
<1>1. ASSUME NEW d \in Parts(D), \A x \in d : d \ {x} \in T  PROVE d \in T
  <2>1. /\ IsFiniteSet(d) /\ \A x \in d : x \in D /\ x \in S
        /\ \A e : S \ e \in Parts(S)
    BY <1>0, PartsFacts, FS_Subset DEF Parts
  <2>2. Total(as, S) \in Nat /\ \A e : Total(as, S \ e) \in Nat
    <3>1. S \in Parts(S)
      BY PartsFacts
    <3>. QED  BY <2>1, <3>1, TotalsType
  <2>3. CASE d = {}
    <3>1. S \ d = S /\ Cardinality(d) = 0
      BY <2>3, FS_EmptySet
    <3>2. SmallLoss(as, S, d)
      <4>. DEFINE t == Total(as, S)
      <4>1. t \in Nat
        BY <2>2
      <4>. HIDE DEF t
      <4>2. Loss(t, t, 0)
        BY <4>1, OneNat DEF Loss
      <4>. QED  BY <3>1, <4>2 DEF SmallLoss, t
    <3>. QED  BY <3>2
  <2>4. CASE d # {}
    <3>1. PICK x \in d : TRUE
      BY <2>4
    <3>. DEFINE e == d \ {x}
                R == S \ e
    <3>2. SmallLoss(as, S, e)
      BY <1>1, <3>1
    <3>3. x \in R /\ R \ {x} = S \ d
      BY <2>1, <3>1
    <3>4. IsFiniteSet(R) /\ Weighed(as, R)
      BY FS_Subset DEF Weighed
    <3>5. Cardinality(e) = Cardinality(d) - 1 /\ Cardinality(d) \in Nat
          /\ Cardinality(d) # 0
      BY <2>1, <2>4, <3>1, FS_RemoveElement, FS_CardinalityType, FS_EmptySet
    <3>6. 1000 * Weight(as, x) <= One /\ Weight(as, x) \in Nat
      BY <2>1, <3>1 DEF Weighed
    <3>. DEFINE t == Total(as, S)
                v == Total(as, R)
                u == Total(as, S \ d)
                w == Weight(as, x)
                k == Cardinality(d)
                n == Cardinality(e)
    <3>7. t \in Nat /\ v \in Nat /\ u \in Nat
      BY <2>2
    <3>. HIDE DEF R
    <3>8. SplitsOff(as, R, x)
      BY <3>3, <3>4, TotalRemove
    <3>9. v = w + u
      BY <3>3, <3>8 DEF SplitsOff
    <3>10. Loss(t, v, n)
      BY <3>2 DEF SmallLoss, R
    <3>11. k \in Nat /\ k > 0 /\ n = k - 1
      BY <3>5
    <3>. HIDE DEF t, v, u, w, k, n, e
    <3>12. Loss(t, u, k)
      BY <3>6, <3>7, <3>9, <3>10, <3>11, LossArithmetic DEF w
    <3>13. SmallLoss(as, S, d)
      BY <3>12 DEF SmallLoss, u, t, k
    <3>. QED  BY <3>13
  <2>. QED  BY <2>3, <2>4
<1>2. T \in SUBSET Parts(D)
  OBVIOUS
<1>3. T = Parts(D)
  <2>. HIDE DEF T
  <2>. QED  BY <1>0, <1>1, <1>2, SubsetsReached
<1>4. D \in Parts(D)
  BY <1>0, PartsFacts
<1>. QED  BY <1>3, <1>4

-----------------------------------------------------------------------------
(***************************************************************************)
(* Where a signal comes from.                                              *)
(***************************************************************************)
SignalOf(s, m) ==
    \/ s \in ArbitrageSignals(m) /\ ArbitrageEligible(m)
    \/ s \in MispricingSignals(m)
    \/ s \in TimeDecaySignals(m)
    \/ s \in MarketMakingSignals(m)

(* A signal comes from one strategy and one market. *)
LEMMA SignalSource ==
    ASSUME NEW markets, NEW s \in StrategySignals(markets)
    PROVE  \E i \in DOMAIN markets : SignalOf(s, markets[i])
<1>1. CASE s \in Arbitrage(markets)
  BY <1>1 DEF Arbitrage, SignalOf
<1>2. CASE \E i \in DOMAIN markets : s \in BinarySignals(markets[i])
  BY <1>2 DEF BinarySignals, SignalOf
<1>. QED  BY <1>1, <1>2 DEF StrategySignals

(* Arbitrage takes one side for all active answers of a market. *)
LEMMA ArbitrageSignalFacts ==
    ASSUME NEW m, NEW s \in ArbitrageSignals(m)
    PROVE  /\ s.market = m.id
           /\ s.answer \in ActiveAnswers(m) /\ Cardinality(ActiveAnswers(m)) >= 2
           /\ s.outcome = IF Overpriced(ProbSum(m)) THEN "NO" ELSE "YES"
<1>1. PICK a \in ActiveAnswers(m) :
         s = AnswerSignal(m, a, m.answers[a].probability, ProbSum(m))
  BY DEF ArbitrageSignals
<1>2. Cardinality(ActiveAnswers(m)) >= 2
  BY DEF ArbitrageSignals
<1>. QED  BY <1>1, <1>2 DEF AnswerSignal

(* The other strategies look at binary markets only. *)
LEMMA BinarySignalFacts ==
    ASSUME NEW m, NEW s,
           s \in MispricingSignals(m) \cup TimeDecaySignals(m) \cup MarketMakingSignals(m)
    PROVE  s.market = m.id /\ m.outcomeType = "BINARY"
<1>1. PICK strategy, outcome, confidence, edge, limit :
         s = BinarySignal(strategy, m, outcome, confidence, edge, limit)
  BY DEF MispricingSignals, TimeDecaySignals, MarketMakingSignals
<1>2. Binary(m)
  BY DEF MispricingSignals, TimeDecaySignals, MarketMakingSignals, Quoted
<1>. QED  BY <1>1, <1>2 DEF BinarySignal, Binary

-----------------------------------------------------------------------------
(***************************************************************************)
(* Limits and types of the signals of a scan.                              *)
(***************************************************************************)
LEMMA AnswerFacts ==
    ASSUME NEW as, as \in [DOMAIN as -> AnswerData], IsFiniteSet(DOMAIN as),
           NEW S \in SUBSET DOMAIN as
    PROVE  /\ IsFiniteSet(S) /\ Weighed(as, S)
           /\ \A a \in S : /\ Weight(as, a) = as[a].probability
                           /\ as[a].probability \in 0 .. One
<1>1. IsFiniteSet(S)
  BY FS_Subset
<1>2. ASSUME NEW a \in S
      PROVE  as[a].probability \in 0 .. One
  BY DEF AnswerData
<1>3. 0 .. One \subseteq Nat
  BY OneNat
<1>. QED  BY <1>1, <1>2, <1>3 DEF Weighed, Weight

(* The sum is at least the price of each active answer, and positive.       *)
LEMMA ProbSumFacts ==
    ASSUME NEW m, m.answers \in [DOMAIN m.answers -> AnswerData],
           IsFiniteSet(DOMAIN m.answers), NEW a \in ActiveAnswers(m)
    PROVE  /\ m.answers[a].probability \in 0 .. One
           /\ ProbSum(m) \in Nat /\ ProbSum(m) > 0
           /\ m.answers[a].probability <= ProbSum(m)
<1>. DEFINE as == m.answers
            S == ActiveAnswers(m)
            p == as[a].probability
            total == Total(as, S)
<1>1. S \in SUBSET DOMAIN as /\ a \in S
  BY DEF ActiveAnswers
<1>2. IsFiniteSet(S) /\ Weighed(as, S) /\ Weight(as, a) = p /\ p \in 0 .. One
  <2>. HIDE DEF as, S
  <2>1. as \in [DOMAIN as -> AnswerData] /\ IsFiniteSet(DOMAIN as)
    BY DEF as
  <2>. QED  BY <1>1, <2>1, AnswerFacts DEF p
<1>3. ProbSum(m) = total
  BY DEF ProbSum, Total
<1>4. 1000 * p > One
  BY DEF ActiveAnswers, Unpinned
<1>5. total \in Nat /\ p <= total
  <2>. HIDE DEF as, S
  <2>. QED  BY <1>1, <1>2, TotalOfOne
<1>. HIDE DEF total
<1>6. p > 0
  BY <1>2, <1>4, OneNat
<1>. QED  BY <1>2, <1>3, <1>5, <1>6, OneNat

(* A signal is on a market whose answers are as those of a market may be. *)
AnswersOK(m) ==
    /\ m.answers \in [DOMAIN m.answers -> AnswerData]
    /\ IsFiniteSet(DOMAIN m.answers)

(* An arbitrage signal is the one of a price and a sum. *)
LEMMA ArbitrageSignalShape ==
    ASSUME NEW m, AnswersOK(m), NEW s \in ArbitrageSignals(m)
    PROVE  \E p \in 0 .. One, total \in Nat :
              /\ total > 0 /\ p <= total
              /\ 100 * Gap(p, total) >= 3 * One * total
              /\ s = AnswerSignal(m, s.answer, p, total)
<1>1. PICK a \in ActiveAnswers(m) :
         /\ s = AnswerSignal(m, a, m.answers[a].probability, ProbSum(m))
         /\ 100 * Gap(m.answers[a].probability, ProbSum(m)) >= 3 * One * ProbSum(m)
  BY DEF ArbitrageSignals
<1>2. s.answer = a
  BY <1>1 DEF AnswerSignal
<1>3. /\ m.answers[a].probability \in 0 .. One
      /\ ProbSum(m) \in Nat /\ ProbSum(m) > 0
      /\ m.answers[a].probability <= ProbSum(m)
  BY ProbSumFacts DEF AnswersOK
<1>. QED  BY <1>1, <1>2, <1>3

(* A quotient of a number between 0 and n * d by d is between 0 and n.      *)
LEMMA QuotientRange ==
    ASSUME NEW d \in Nat, d > 0, NEW n \in Nat, NEW x \in Int, 0 <= x, x <= d * n
    PROVE  x \div d \in 0 .. n
<1>. DEFINE q == x \div d
<1>1. q \in Int /\ d * q <= x /\ x < d * q + d
  BY DivBounds
<1>. HIDE DEF q
<1>2. d * q <= d * n /\ d * 0 < d * (q + 1)
  BY <1>1
<1>3. q <= n /\ 0 < q + 1
  BY <1>1, <1>2, Cancel
<1>. QED  BY <1>1, <1>3 DEF q

(* A quotient of natural numbers is not negative. *)
LEMMA QuotientNonnegative ==
    ASSUME NEW d \in Nat, d > 0, NEW x \in Int, 0 <= x
    PROVE  x \div d >= 0
<1>. DEFINE q == x \div d
<1>1. q \in Int /\ x < d * q + d
  BY DivBounds
<1>. HIDE DEF q
<1>2. d * 0 < d * (q + 1)
  BY <1>1
<1>3. 0 < q + 1
  BY <1>1, <1>2, Cancel
<1>. QED  BY <1>1, <1>3 DEF q

InRange(s) == {s.confidence, s.marketProb} \subseteq 0 .. One /\ s.edge >= 0

(* Confidence, price and edge of each strategy are in their ranges. *)
LEMMA ArbitrageInRange ==
    ASSUME NEW m, AnswersOK(m), NEW s \in ArbitrageSignals(m)
    PROVE  InRange(s)
<1>. One \in Nat /\ One > 0
  BY OneNat
<1>1. PICK p \in 0 .. One, total \in Nat :
         /\ total > 0 /\ p <= total
         /\ 100 * Gap(p, total) >= 3 * One * total
         /\ s = AnswerSignal(m, s.answer, p, total)
  BY ArbitrageSignalShape
<1>. DEFINE share == IF Overpriced(total) THEN total - p ELSE p
<1>2. /\ s.marketProb = p /\ s.edge = Gap(p, total) \div total
      /\ s.confidence = (One * share) \div total
  BY <1>1 DEF AnswerSignal
<1>3. share \in Nat /\ share <= total
  BY <1>1
<1>. HIDE DEF share
<1>4. One * share \in Int /\ 0 <= One * share /\ One * share <= total * One
  BY <1>3
<1>5. s.confidence \in 0 .. One
  BY <1>1, <1>2, <1>4, QuotientRange
<1>6. Gap(p, total) \in Int
  BY DEF Gap
<1>7. Gap(p, total) >= 0
  <2>. DEFINE g == Gap(p, total)
  <2>1. 3 * One * total >= 0
    BY <1>1
  <2>2. g \in Int /\ 100 * g >= 3 * One * total
    BY <1>1, <1>6
  <2>. HIDE DEF g
  <2>3. g >= 0
    BY <2>1, <2>2
  <2>. QED  BY <2>3 DEF g
<1>8. s.edge >= 0
  BY <1>1, <1>2, <1>6, <1>7, QuotientNonnegative
<1>. QED  BY <1>2, <1>5, <1>8 DEF InRange

(* The fields of a signal on a binary market. *)
LEMMA SignalFields ==
    ASSUME NEW st, NEW m, NEW o, NEW c, NEW e, NEW l, NEW s,
           s = BinarySignal(st, m, o, c, e, l)
    PROVE  /\ s.confidence = c /\ s.marketProb = m.probability
           /\ s.edge = e /\ s.limit = l
BY DEF BinarySignal

(* A mispricing signal is in range, and has no limit. *)
LEMMA MispricingInRange ==
    ASSUME NEW m, IsMarketData(m), NEW s \in MispricingSignals(m)
    PROVE  InRange(s) /\ s.limit = NoLimit
<1>. One \in Nat /\ One > 0
  BY OneNat
<1>1. m.probability \in 0 .. One
  BY DEF IsMarketData
<1>2. PICK outcome, edge :
         /\ s = BinarySignal("mispricing", m, outcome, Percent(97), edge, NoLimit)
         /\ edge > 0
         /\ \/ edge = Percent(97) - m.probability
            \/ edge = m.probability - (One - Percent(97))
  BY DEF MispricingSignals
<1>3. 0 <= 97 * One /\ 97 * One <= 100 * One /\ 97 * One \in Int
  OBVIOUS
<1>4. Percent(97) \in 0 .. One
  BY <1>3, QuotientRange DEF Percent
<1>5. edge \in Int
  BY <1>1, <1>2, <1>4
<1>6. /\ s.confidence = Percent(97) /\ s.marketProb = m.probability
      /\ s.edge = edge /\ s.limit = NoLimit
  BY <1>2 DEF BinarySignal
<1>. QED  BY <1>1, <1>2, <1>4, <1>5, <1>6 DEF InRange

(* A time-decay signal is in range. *)
LEMMA TimeDecayInRange ==
    ASSUME NEW m, IsMarketData(m), NEW s \in TimeDecaySignals(m)
    PROVE  InRange(s)
<1>. One \in Nat /\ One > 0
  BY OneNat
<1>. DEFINE p == m.probability
            d == Duration(m)
            e == Elapsed(m)
<1>1. p \in 0 .. One /\ m.age \in Int /\ m.left \in Int
  BY DEF IsMarketData
<1>0. /\ d > 0
      /\ One * m.age > Config.timedecay.minTimeElapsed * d
      /\ s = BinarySignal("timedecay", m, "NO",
                          (2 * One * d - p * (2 * d - e)) \div (2 * d),
                          (p * e) \div (2 * d), <<p * (4 * d - e), 4 * d>>)
  BY DEF TimeDecaySignals
<1>2. /\ d > 0 /\ d \in Int
      /\ One * m.age > Config.timedecay.minTimeElapsed * d
      /\ s.confidence = (2 * One * d - p * (2 * d - e)) \div (2 * d)
      /\ s.marketProb = p /\ s.edge = (p * e) \div (2 * d)
  <2>. DEFINE c == (2 * One * d - p * (2 * d - e)) \div (2 * d)
              g == (p * e) \div (2 * d)
              l == <<p * (4 * d - e), 4 * d>>
  <2>1. s = BinarySignal("timedecay", m, "NO", c, g, l)
    BY <1>0
  <2>2. d \in Int
    BY <1>1 DEF Duration
  <2>. HIDE DEF c, g, l
  <2>3. s.confidence = c /\ s.marketProb = p /\ s.edge = g
    BY <2>1, SignalFields
  <2>. QED  BY <1>0, <2>2, <2>3 DEF c, g
<1>3. m.age > 0
  <2>1. Config.timedecay.minTimeElapsed \in Nat
    BY StrategyAssumption DEF ConfigType
  <2>. DEFINE t == Config.timedecay.minTimeElapsed
  <2>2. t * d >= 0
    <3>1. t \in Nat
      BY <2>1
    <3>. HIDE DEF t, d
    <3>. QED  BY <1>2, <3>1
  <2>3. One * m.age > One * 0
    <3>1. t * d \in Int /\ One * m.age > t * d
      BY <1>2, <2>1
    <3>. HIDE DEF t, d
    <3>. QED  BY <1>1, <2>2, <3>1
  <2>. QED  BY <1>1, <2>3, Cancel
<1>4. d \in Nat /\ e \in Nat /\ e <= d
  BY <1>1, <1>2, <1>3 DEF Elapsed, Lesser
<1>. HIDE DEF p, d, e
<1>5. /\ p * (2 * d - e) \in Int /\ 0 <= p * (2 * d - e)
      /\ p * (2 * d - e) <= One * (2 * d - e)
      /\ One * (2 * d - e) <= 2 * One * d
      /\ p * e \in Int /\ 0 <= p * e
  <2>1. 2 * d - e \in Nat
    BY <1>4
  <2>2. One * (2 * d - e) = 2 * One * d - One * e /\ One * e >= 0
    BY <1>4
  <2>. QED  BY <1>1, <1>4, <2>1, <2>2
<1>. DEFINE x == 2 * One * d - p * (2 * d - e)
<1>6. x \in Int /\ 0 <= x /\ x <= (2 * d) * One
  <2>1. 2 * One * d \in Int
    BY <1>4
  <2>. QED  BY <1>4, <1>5, <2>1
<1>7. 2 * d \in Nat /\ 2 * d > 0
  BY <1>2, <1>4
<1>. HIDE DEF x
<1>8. x \div (2 * d) \in 0 .. One
  BY <1>6, <1>7, QuotientRange
<1>9. (p * e) \div (2 * d) >= 0
  BY <1>5, <1>7, QuotientNonnegative
<1>. QED  BY <1>1, <1>2, <1>8, <1>9 DEF InRange, x

(* A quote is in range. *)
LEMMA MarketMakingInRange ==
    ASSUME NEW m, IsMarketData(m), NEW s \in MarketMakingSignals(m)
    PROVE  InRange(s)
<1>. One \in Nat /\ One > 0
  BY OneNat
<1>1. m.probability \in 0 .. One
  BY DEF IsMarketData
<1>0. PICK limit :
         \/ s = BinarySignal("marketmaking", m, "YES", m.probability,
                             Spread(m) \div 2, limit)
         \/ s = BinarySignal("marketmaking", m, "NO", One - m.probability,
                             Spread(m) \div 2, limit)
  BY DEF MarketMakingSignals
<1>2. /\ s.marketProb = m.probability /\ s.edge = Spread(m) \div 2
      /\ s.confidence = m.probability \/ s.confidence = One - m.probability
  <2>. DEFINE g == Spread(m) \div 2
              c == One - m.probability
  <2>1. \/ s = BinarySignal("marketmaking", m, "YES", m.probability, g, limit)
        \/ s = BinarySignal("marketmaking", m, "NO", c, g, limit)
    BY <1>0
  <2>. HIDE DEF g, c
  <2>2. s.marketProb = m.probability /\ s.edge = g
    BY <2>1, SignalFields
  <2>3. s.confidence = m.probability \/ s.confidence = c
    BY <2>1, SignalFields
  <2>. QED  BY <2>2, <2>3 DEF g, c
<1>3. Spread(m) \in Int /\ Spread(m) >= 0
  <2>1. ASSUME NEW n \in Nat  PROVE Percent(n) \in Int /\ Percent(n) >= 0
    <3>1. n * One \in Int /\ 0 <= n * One
      OBVIOUS
    <3>. QED  BY <3>1, QuotientNonnegative, DivBounds DEF Percent
  <2>2. Config.marketmaking.baseSpread \in Nat
    BY StrategyAssumption DEF ConfigType
  <2>. QED  BY <2>1, <2>2 DEF Spread
<1>4. Spread(m) \div 2 >= 0
  BY <1>3, QuotientNonnegative
<1>. QED  BY <1>1, <1>2, <1>4 DEF InRange

-----------------------------------------------------------------------------
(***************************************************************************)
(* What the scan knows of a market is the market, but for its answers.     *)
(***************************************************************************)
Fields == {"id", "outcomeType", "probability", "answers", "liquidity", "volume",
           "volume24", "dated", "age", "left", "resolved"}

Shaped(m) == m = [f \in Fields |-> m[f]]

(* n is m with other answers, of which m knows the names. *)
Likeness(n, m) ==
    /\ Shaped(n)
    /\ \A f \in Fields \ {"answers"} : n[f] = m[f]
    /\ n.answers \in [DOMAIN n.answers -> AnswerData]
    /\ DOMAIN n.answers \subseteq DOMAIN m.answers

(* A market is a record with the fields of a market. *)
LEMMA MarketDataShaped ==
    ASSUME NEW m, IsMarketData(m)
    PROVE  Shaped(m)
<1>1. m = [id |-> m.id, outcomeType |-> m.outcomeType, probability |-> m.probability,
            answers |-> m.answers, liquidity |-> m.liquidity, volume |-> m.volume,
            volume24 |-> m.volume24, dated |-> m.dated, age |-> m.age,
            left |-> m.left, resolved |-> m.resolved]
  BY DEF IsMarketData
<1>. QED  BY <1>1 DEF Shaped, Fields

(* Other answers leave a market like it was in the rest. *)
LEMMA WithAnswers ==
    ASSUME NEW n, NEW m, Likeness(n, m),
           NEW as, as \in [DOMAIN as -> AnswerData], DOMAIN as \subseteq DOMAIN m.answers
    PROVE  /\ Likeness([n EXCEPT !.answers = as], m)
           /\ [n EXCEPT !.answers = as].answers = as
<1>. DEFINE r == [n EXCEPT !.answers = as]
<1>1. n = [f \in Fields |-> n[f]] /\ "answers" \in Fields
  BY DEF Likeness, Shaped, Fields
<1>2. r = [f \in Fields |-> IF f = "answers" THEN as ELSE n[f]]
  BY <1>1
<1>. HIDE DEF r
<1>3. r.answers = as /\ \A f \in Fields \ {"answers"} : r[f] = n[f]
  BY <1>1, <1>2
<1>4. Shaped(r)
  BY <1>2 DEF Shaped
<1>. QED  BY <1>3, <1>4 DEF Likeness, r

(* A market with other answers is a market. *)
LEMMA DataWithAnswers ==
    ASSUME NEW m, IsMarketData(m),
           NEW as, as \in [DOMAIN as -> AnswerData], IsFiniteSet(DOMAIN as),
           DOMAIN m.answers \subseteq DOMAIN as
    PROVE  /\ IsMarketData([m EXCEPT !.answers = as])
           /\ Likeness(m, [m EXCEPT !.answers = as])
           /\ [m EXCEPT !.answers = as].answers = as
<1>. DEFINE n == [m EXCEPT !.answers = as]
<1>1. Shaped(m) /\ "answers" \in Fields
  BY MarketDataShaped DEF Fields
<1>2. n = [f \in Fields |-> IF f = "answers" THEN as ELSE m[f]]
  BY <1>1 DEF Shaped
<1>. HIDE DEF n
<1>3. /\ n = [f \in Fields |-> n[f]] /\ n.answers = as
      /\ \A f \in Fields \ {"answers"} : m[f] = n[f]
  BY <1>1, <1>2
<1>6. Likeness(m, n)
  BY <1>1, <1>3 DEF Likeness, IsMarketData
<1>4. n = [id |-> n.id, outcomeType |-> n.outcomeType, probability |-> n.probability,
            answers |-> n.answers, liquidity |-> n.liquidity, volume |-> n.volume,
            volume24 |-> n.volume24, dated |-> n.dated, age |-> n.age,
            left |-> n.left, resolved |-> n.resolved]
  BY <1>3 DEF Fields
<1>5. /\ n.outcomeType = m.outcomeType /\ n.probability = m.probability
      /\ n.liquidity = m.liquidity /\ n.volume = m.volume /\ n.volume24 = m.volume24
      /\ n.dated = m.dated /\ n.age = m.age /\ n.left = m.left
      /\ n.resolved = m.resolved
  BY <1>3 DEF Fields
<1>. QED  BY <1>3, <1>4, <1>5, <1>6 DEF IsMarketData, n

-----------------------------------------------------------------------------
(***************************************************************************)
(* The invariant of the scan.                                              *)
(***************************************************************************)
WorldOK ==
    /\ \E n \in Nat : DOMAIN world = 1 .. n
    /\ world = [i \in DOMAIN world |-> world[i]]
    /\ \A i \in DOMAIN world :
          /\ IsMarketData(world[i])
          /\ world[i].outcomeType = "MULTIPLE_CHOICE"
          /\ \A j \in DOMAIN world : world[i].id = world[j].id => i = j
          /\ \A j \in DOMAIN BinaryMarkets : world[i].id # BinaryMarkets[j].id

MultiOK ==
    /\ multi = << >> \/ DOMAIN multi = DOMAIN world
    /\ multi = [i \in DOMAIN multi |-> multi[i]]
    /\ \A i \in DOMAIN multi : Likeness(multi[i], world[i])

(* Of a candidate whose request is over the scan knows what had resolved.   *)
Told ==
    pc \in {"fetch", "done"} => \A i \in DOMAIN multi \ unfetched :
        Candidate(multi[i]) => \A a \in DOMAIN multi[i].answers :
            Resolved(world[i].answers[a]) =>
                \/ Resolved(multi[i].answers[a])
                \/ i \in partial \/ <<i, a>> \in late

SignalsOK ==
    /\ binary \in {BinaryMarkets, << >>}
    /\ pc # "done" => signals = {}
    /\ pc = "done" => /\ signals = StrategySignals(binary \o multi)
                      /\ unfetched = {}

ScanInv == WorldOK /\ MultiOK /\ Told /\ SignalsOK

(* The scan knows nothing yet. *)
LEMMA ScanInit == Init => ScanInv
<1>. SUFFICES ASSUME Init  PROVE ScanInv
  OBVIOUS
<1>1. PICK w \in Worlds : world = w
  BY DEF Init
<1>2. w \in Seq({w[i] : i \in DOMAIN w}) /\ \A i \in DOMAIN w : IsMarketData(w[i])
  BY ScanAssumption
<1>3. DOMAIN w = 1 .. Len(w) /\ Len(w) \in Nat /\ w = [i \in DOMAIN w |-> w[i]]
  BY <1>2
<1>4. WorldOK
  BY <1>1, <1>2, <1>3, SearchAssumption DEF WorldOK
<1>5. MultiOK /\ Told /\ SignalsOK
  BY DEF Init, MultiOK, Told, SignalsOK
<1>. QED  BY <1>4, <1>5 DEF ScanInv

(* A change on Manifold changes the answers of one market, and takes back   *)
(* no answer and no resolution.                                             *)
LEMMA WorldStep ==
    ASSUME WorldOK, NEW i \in DOMAIN world, Change(i)
    PROVE  /\ WorldOK'
           /\ DOMAIN world' = DOMAIN world
           /\ \A j \in DOMAIN world : Likeness(world[j], world'[j])
           /\ world'[i].answers \in Answers
           /\ \A j \in DOMAIN world \ {i} : world'[j] = world[j]
           /\ \A j \in DOMAIN world : \A a \in DOMAIN world[j].answers :
                 Resolved(world[j].answers[a]) => Resolved(world'[j].answers[a])
<1>1. PICK as \in Answers :
         /\ DOMAIN world[i].answers \subseteq DOMAIN as
         /\ \A a \in DOMAIN world[i].answers : Resolved(world[i].answers[a]) =>
               as[a].resolution = world[i].answers[a].resolution
         /\ world' = [world EXCEPT ![i].answers = as]
  BY DEF Change
<1>. DEFINE r == [world[i] EXCEPT !.answers = as]
<1>2. as \in [DOMAIN as -> AnswerData] /\ IsFiniteSet(DOMAIN as)
  BY <1>1, ScanAssumption
<1>3. IsMarketData(world[i])
  BY DEF WorldOK
<1>4. IsMarketData(r) /\ Likeness(world[i], r) /\ r.answers = as
  BY <1>1, <1>2, <1>3, DataWithAnswers
<1>5. world' = [j \in DOMAIN world |-> IF j = i THEN r ELSE world[j]]
  BY <1>1 DEF WorldOK
<1>. HIDE DEF r
<1>6. /\ DOMAIN world' = DOMAIN world /\ world'[i] = r
      /\ \A j \in DOMAIN world \ {i} : world'[j] = world[j]
      /\ world' = [j \in DOMAIN world' |-> world'[j]]
  BY <1>5
<1>7. r.id = world[i].id /\ r.outcomeType = world[i].outcomeType
  BY <1>4 DEF Likeness, Fields
<1>8. \A j \in DOMAIN world : /\ world'[j].id = world[j].id
                              /\ world'[j].outcomeType = world[j].outcomeType
                              /\ IsMarketData(world'[j])
  BY <1>4, <1>6, <1>7 DEF WorldOK
<1>9. WorldOK'
  BY <1>6, <1>8 DEF WorldOK
<1>10. \A j \in DOMAIN world : Likeness(world[j], world[j])
  BY MarketDataShaped DEF WorldOK, Likeness, IsMarketData
<1>11. \A a \in DOMAIN world[i].answers :
         Resolved(world[i].answers[a]) => Resolved(world'[i].answers[a])
  BY <1>1, <1>4, <1>6 DEF Resolved
<1>. QED  BY <1>4, <1>6, <1>9, <1>10, <1>11

(* The search finds the market but for its answers. *)
LEMMA FoundLikeness ==
    ASSUME NEW m, IsMarketData(m), NEW listed \in BOOLEAN
    PROVE  Likeness(Found(m, listed), m)
<1>1. Likeness(m, m)
  BY MarketDataShaped DEF Likeness, IsMarketData
<1>. DEFINE as == [a \in (IF listed THEN DOMAIN m.answers ELSE {}) |->
                     [probability |-> 0, resolution |-> ""]]
<1>2. DOMAIN as \subseteq DOMAIN m.answers
  OBVIOUS
<1>3. [probability |-> 0, resolution |-> ""] \in AnswerData
  BY OneNat DEF AnswerData
<1>4. as \in [DOMAIN as -> AnswerData]
  BY <1>3
<1>5. Found(m, listed) = [m EXCEPT !.answers = as]
  BY DEF Found
<1>. HIDE DEF as
<1>. QED  BY <1>1, <1>2, <1>4, <1>5, WithAnswers

(* What a reply with these prices makes of the answers of a market. *)
Updated(r, n, m, prices, reported) ==
    /\ reported = {} => r.answers = n.answers
    /\ \A a \in DOMAIN r.answers :
          Resolved(r.answers[a]) => a \in DOMAIN n.answers /\ Resolved(n.answers[a])
    /\ /\ reported = DOMAIN m.answers /\ reported # {}
       /\ DOMAIN n.answers \in {{}, DOMAIN m.answers}
       => /\ DOMAIN r.answers = DOMAIN m.answers
          /\ \A a \in DOMAIN m.answers :
                r.answers[a].probability = prices[a].probability

(* Reading prices changes answers only, and only those reported. *)
LEMMA PricesLikeness ==
    ASSUME NEW n, NEW m, Likeness(n, m), NEW reported \in SUBSET DOMAIN m.answers,
           NEW prices \in [DOMAIN m.answers -> AnswerData]
    PROVE  /\ Likeness(WithPrices(n, prices, reported), m)
           /\ Updated(WithPrices(n, prices, reported), n, m, prices, reported)
<1>. DEFINE known == [a \in DOMAIN n.answers |->
                        IF a \in reported
                        THEN [n.answers[a] EXCEPT !.probability = prices[a].probability]
                        ELSE n.answers[a]]
            new == [a \in reported |-> [probability |-> prices[a].probability,
                                        resolution |-> ""]]
            as == IF reported = {} THEN n.answers
                  ELSE IF DOMAIN n.answers # {} THEN known ELSE new
<1>1. \A a \in reported : prices[a].probability \in 0 .. One
  BY DEF AnswerData
<1>2. known \in [DOMAIN n.answers -> AnswerData]
  <2>1. ASSUME NEW a \in DOMAIN n.answers, a \in reported
        PROVE  [n.answers[a] EXCEPT !.probability = prices[a].probability] \in AnswerData
    BY <1>1, <2>1 DEF Likeness, AnswerData
  <2>. QED  BY <2>1 DEF Likeness
<1>3. new \in [reported -> AnswerData]
  BY <1>1 DEF AnswerData
<1>4. as \in [DOMAIN as -> AnswerData] /\ DOMAIN as \subseteq DOMAIN m.answers
  <2>. HIDE DEF known, new
  <2>. QED  BY <1>2, <1>3 DEF Likeness
<1>5. WithPrices(n, prices, reported) = [n EXCEPT !.answers = as]
  BY DEF WithPrices
<1>7. \A a \in DOMAIN as : Resolved(as[a]) =>
                               a \in DOMAIN n.answers /\ Resolved(n.answers[a])
  <2>1. ASSUME NEW a \in DOMAIN n.answers
        PROVE  known[a].resolution = n.answers[a].resolution
    BY DEF Likeness, AnswerData
  <2>. QED  BY <2>1 DEF Resolved
<1>8. ASSUME reported = DOMAIN m.answers, reported # {},
             DOMAIN n.answers \in {{}, DOMAIN m.answers}
      PROVE  /\ DOMAIN as = DOMAIN m.answers
             /\ \A a \in DOMAIN m.answers : as[a].probability = prices[a].probability
  <2>1. CASE DOMAIN n.answers = {}
    BY <1>8, <2>1
  <2>2. CASE DOMAIN n.answers # {}
    <3>1. as = known /\ DOMAIN n.answers = DOMAIN m.answers
      BY <1>8, <2>2
    <3>2. ASSUME NEW a \in DOMAIN m.answers
          PROVE  known[a].probability = prices[a].probability
      BY <1>1, <1>8, <3>1 DEF Likeness, AnswerData
    <3>. QED  BY <3>1, <3>2
  <2>. QED  BY <2>1, <2>2
<1>9. reported = {} => as = n.answers
  OBVIOUS
<1>. HIDE DEF as
<1>6. Likeness([n EXCEPT !.answers = as], m) /\ [n EXCEPT !.answers = as].answers = as
  BY <1>4, WithAnswers
<1>10. Updated([n EXCEPT !.answers = as], n, m, prices, reported)
  BY <1>6, <1>7, <1>8, <1>9 DEF Updated
<1>. QED  BY <1>5, <1>6, <1>10

(* A request is answered: one market's answers get their resolutions.       *)
LEMMA FetchFacts ==
    ASSUME WorldOK, MultiOK, NEW i \in DOMAIN multi, Fetch(i)
    PROVE  /\ DOMAIN multi' = DOMAIN multi
           /\ multi' = [j \in DOMAIN multi' |-> multi'[j]]
           /\ \A j \in DOMAIN multi \ {i} : multi'[j] = multi[j]
           /\ Likeness(multi'[i], world[i])
           /\ \/ i \in partial'
              \/ \A a \in DOMAIN multi'[i].answers :
                    multi'[i].answers[a].resolution = world[i].answers[a].resolution
           /\ DOMAIN multi'[i].answers = DOMAIN multi[i].answers
           /\ \A a \in DOMAIN multi[i].answers :
                 /\ multi'[i].answers[a].probability = multi[i].answers[a].probability
                 /\ \/ multi'[i].answers[a].resolution = multi[i].answers[a].resolution
                    \/ multi'[i].answers[a].resolution = world[i].answers[a].resolution
<1>0. PICK told \in SUBSET DOMAIN world[i].answers :
         /\ multi' = [multi EXCEPT ![i].answers =
                         [a \in DOMAIN @ |->
                             IF a \in told
                             THEN [@[a] EXCEPT
                                      !.resolution = world[i].answers[a].resolution]
                             ELSE @[a]]]
         /\ partial' = IF told = DOMAIN world[i].answers THEN partial
                                                        ELSE partial \cup {i}
  BY DEF Fetch
<1>. DEFINE as == [a \in DOMAIN multi[i].answers |->
                     IF a \in told
                     THEN [multi[i].answers[a] EXCEPT
                              !.resolution = world[i].answers[a].resolution]
                     ELSE multi[i].answers[a]]
            r == [multi[i] EXCEPT !.answers = as]
<1>1. multi' = [multi EXCEPT ![i].answers = as]
  BY <1>0
<1>2. multi' = [j \in DOMAIN multi |-> IF j = i THEN r ELSE multi[j]]
  BY <1>1 DEF MultiOK
<1>3. /\ Likeness(multi[i], world[i]) /\ i \in DOMAIN world
      /\ world[i].answers \in [DOMAIN world[i].answers -> AnswerData]
  BY DEF MultiOK, WorldOK, IsMarketData
<1>4. DOMAIN as \subseteq DOMAIN world[i].answers
  BY <1>3 DEF Likeness
<1>7. ASSUME NEW a \in DOMAIN as
      PROVE  /\ as[a] \in AnswerData
             /\ a \in told => as[a].resolution = world[i].answers[a].resolution
             /\ as[a].probability = multi[i].answers[a].probability
             /\ \/ as[a].resolution = multi[i].answers[a].resolution
                \/ as[a].resolution = world[i].answers[a].resolution
  <2>1. multi[i].answers[a] \in AnswerData /\ world[i].answers[a] \in AnswerData
    BY <1>3, <1>4 DEF Likeness
  <2>2. as[a] = IF a \in told
                THEN [multi[i].answers[a] EXCEPT
                         !.resolution = world[i].answers[a].resolution]
                ELSE multi[i].answers[a]
    OBVIOUS
  <2>. HIDE DEF as
  <2>. QED  BY <2>1, <2>2 DEF AnswerData
<1>8. as \in [DOMAIN as -> AnswerData] /\ DOMAIN as = DOMAIN multi[i].answers
  BY <1>7
<1>. HIDE DEF as
<1>5. Likeness(r, world[i]) /\ r.answers = as
  BY <1>3, <1>4, <1>8, WithAnswers
<1>. HIDE DEF r
<1>6. /\ DOMAIN multi' = DOMAIN multi /\ multi'[i] = r
      /\ \A j \in DOMAIN multi \ {i} : multi'[j] = multi[j]
      /\ multi' = [j \in DOMAIN multi' |-> multi'[j]]
  BY <1>2
<1>9. i \in partial' \/ DOMAIN as \subseteq told
  BY <1>0, <1>4
<1>. QED  BY <1>5, <1>6, <1>7, <1>8, <1>9

(* Steps elsewhere leave the scanned markets alone. *)
LEMMA MultiKept ==
    ASSUME MultiOK, UNCHANGED <<multi, world>>
    PROVE  MultiOK'
BY DEF MultiOK

(* The search keeps the markets like those on Manifold. *)
LEMMA SearchStep ==
    ASSUME WorldOK, MultiOK, SearchMultipleChoice
    PROVE  MultiOK'
<1>1. CASE UNCHANGED multi
  BY <1>1, MultiKept DEF SearchMultipleChoice
<1>2. CASE \E listed \in BOOLEAN :
             multi' = [i \in DOMAIN world |-> Found(world[i], listed)]
  <2>1. PICK listed \in BOOLEAN :
           multi' = [i \in DOMAIN world |-> Found(world[i], listed)]
    BY <1>2
  <2>2. \A i \in DOMAIN world : Likeness(Found(world[i], listed), world[i])
    BY FoundLikeness DEF WorldOK
  <2>. QED  BY <2>1, <2>2 DEF SearchMultipleChoice, MultiOK
<1>. QED  BY <1>1, <1>2 DEF SearchMultipleChoice

(* A batch of prices keeps them so. *)
LEMMA PricesStep ==
    ASSUME WorldOK, MultiOK, ReadPrices
    PROVE  MultiOK'
<1>1. PICK reported :
         /\ \A i \in Batch : reported[i] \subseteq DOMAIN world[i].answers
         /\ multi' = [i \in DOMAIN multi |->
                         IF i \in Batch
                         THEN WithPrices(multi[i], world[i].answers, reported[i])
                         ELSE multi[i]]
  BY DEF ReadPrices
<1>2. ASSUME NEW i \in DOMAIN multi, i \in Batch
      PROVE  Likeness(WithPrices(multi[i], world[i].answers, reported[i]), world[i])
  <2>1. /\ Likeness(multi[i], world[i]) /\ i \in DOMAIN world
        /\ world[i].answers \in [DOMAIN world[i].answers -> AnswerData]
    BY DEF MultiOK, WorldOK, IsMarketData
  <2>2. reported[i] \in SUBSET DOMAIN world[i].answers
    BY <1>1, <1>2
  <2>. QED  BY <2>1, <2>2, PricesLikeness
<1>3. /\ DOMAIN multi' = DOMAIN multi
      /\ multi' = [i \in DOMAIN multi' |-> multi'[i]]
      /\ \A i \in DOMAIN multi : Likeness(multi'[i], world[i])
  BY <1>1, <1>2 DEF MultiOK
<1>4. world' = world
  BY DEF ReadPrices
<1>. QED  BY <1>3, <1>4 DEF MultiOK

(* Resolved answers stay so, and one that resolves when its market's        *)
(* request is over is counted as late.                                      *)
LEMMA ChangeStep ==
    ASSUME ScanInv, NEW i \in DOMAIN world, Change(i)
    PROVE  MultiOK' /\ Told'
<1>. USE DEF ScanInv
<1>1. /\ UNCHANGED <<pc, multi, unfetched, partial>> /\ pc # "done"
      /\ DOMAIN world' = DOMAIN world
      /\ \A j \in DOMAIN world : Likeness(world[j], world'[j])
      /\ \A j \in DOMAIN world \ {i} : world'[j] = world[j]
  BY WorldStep DEF Change, scanned
<1>2. \A j \in DOMAIN multi : Likeness(multi[j], world'[j])
  BY <1>1 DEF MultiOK, Likeness
<1>3. MultiOK'
  BY <1>1, <1>2 DEF MultiOK
<1>4. late \subseteq late'
  BY DEF Change
<1>5. ASSUME pc = "fetch", NEW j \in DOMAIN multi \ unfetched,
             Candidate(multi[j]), NEW a \in DOMAIN multi[j].answers,
             Resolved(world'[j].answers[a])
      PROVE  \/ Resolved(multi[j].answers[a])
             \/ j \in partial \/ <<j, a>> \in late'
  <2>1. CASE Resolved(world[j].answers[a])
    BY <1>4, <1>5, <2>1 DEF Told
  <2>2. CASE ~ Resolved(world[j].answers[a])
    <3>1. j \in DOMAIN world /\ a \in DOMAIN world[j].answers
      BY <1>5 DEF MultiOK, Likeness
    <3>2. i = j
      BY <1>1, <1>5, <2>2, <3>1
    <3>3. PICK as : /\ world' = [world EXCEPT ![i].answers = as]
                    /\ late' = late \cup {<<i, b>> : b \in
                                  {c \in DOMAIN world[i].answers :
                                      Resolved(as[c]) /\ ~ Resolved(world[i].answers[c])}}
      BY <1>5, <3>2 DEF Change
    <3>4. world'[i].answers = as
      <4>1. Shaped(world[i]) /\ "answers" \in Fields
        BY MarketDataShaped DEF WorldOK, Fields
      <4>2. world'[i] = [world[i] EXCEPT !.answers = as]
        BY <3>3 DEF WorldOK
      <4>. QED  BY <4>1, <4>2 DEF Shaped
    <3>. QED  BY <1>5, <2>2, <3>1, <3>2, <3>3, <3>4
  <2>. QED  BY <2>1, <2>2
<1>6. /\ (pc' = "fetch" <=> pc = "fetch") /\ pc' # "done" /\ multi' = multi
      /\ unfetched' = unfetched /\ partial' = partial
  BY <1>1
<1>7. Told'
  BY ONLY <1>5, <1>6 DEF Told, Candidate, UnpinnedAnswers, Resolved
<1>. QED  BY <1>3, <1>7

(* A request for resolutions keeps them so, and tells what had resolved or  *)
(* is partial.                                                              *)
LEMMA FetchStep ==
    ASSUME ScanInv, NEW i \in DOMAIN multi, Fetch(i)
    PROVE  MultiOK' /\ Told'
<1>1. /\ DOMAIN multi' = DOMAIN multi
      /\ multi' = [j \in DOMAIN multi' |-> multi'[j]]
      /\ \A j \in DOMAIN multi \ {i} : multi'[j] = multi[j]
      /\ Likeness(multi'[i], world[i])
      /\ \/ i \in partial'
         \/ \A a \in DOMAIN multi'[i].answers :
               multi'[i].answers[a].resolution = world[i].answers[a].resolution
  BY FetchFacts DEF ScanInv
<1>2. /\ pc = "fetch" /\ pc' = "fetch" /\ unfetched' = unfetched \ {i}
      /\ world' = world /\ partial \subseteq partial' /\ late' = late
  BY DEF Fetch
<1>3. MultiOK'
  BY <1>1, <1>2 DEF ScanInv, MultiOK
<1>4. ASSUME NEW j \in DOMAIN multi' \ unfetched', Candidate(multi'[j]),
             NEW a \in DOMAIN multi'[j].answers, Resolved(world[j].answers[a])
      PROVE  \/ Resolved(multi'[j].answers[a])
             \/ j \in partial' \/ <<j, a>> \in late
  <2>1. CASE j = i
    BY <1>1, <1>4, <2>1 DEF Resolved
  <2>2. CASE j # i
    BY <1>1, <1>2, <1>4, <2>2 DEF ScanInv, Told
  <2>. QED  BY <2>1, <2>2
<1>5. Told'
  BY <1>2, <1>4 DEF Told
<1>. QED  BY <1>3, <1>5

(* The requests are over once none is left; then the strategies are run.    *)
LEMMA ScanStep == ScanInv /\ [Next]_vars => ScanInv'
<1>. SUFFICES ASSUME ScanInv, [Next]_vars  PROVE ScanInv'
  OBVIOUS
<1>. USE DEF ScanInv
<1>1. CASE ScanBinary
  <2>1. WorldOK' /\ MultiOK'
    BY <1>1 DEF ScanBinary, WorldOK, MultiOK
  <2>2. Told' /\ SignalsOK'
    BY <1>1 DEF ScanBinary, Told, SignalsOK
  <2>. QED  BY <2>1, <2>2
<1>2. CASE SearchMultipleChoice
  <2>1. MultiOK'
    BY <1>2, SearchStep
  <2>2. WorldOK' /\ Told' /\ SignalsOK'
    BY <1>2 DEF SearchMultipleChoice, WorldOK, Told, SignalsOK
  <2>. QED  BY <2>1, <2>2
<1>3. CASE ReadPrices
  <2>1. MultiOK'
    BY <1>3, PricesStep
  <2>2. WorldOK' /\ Told' /\ SignalsOK'
    BY <1>3 DEF ReadPrices, WorldOK, Told, SignalsOK
  <2>. QED  BY <2>1, <2>2
<1>4. CASE PricesFail
  BY <1>4 DEF PricesFail, WorldOK, MultiOK, Told, SignalsOK
<1>5. CASE StartFetch
  <2>1. WorldOK' /\ MultiOK' /\ SignalsOK'
    BY <1>5 DEF StartFetch, WorldOK, MultiOK, SignalsOK
  <2>2. /\ \A j \in DOMAIN multi \ unfetched' : ~ Candidate(multi[j])
        /\ multi' = multi
    BY <1>5 DEF StartFetch
  <2>3. Told'
    BY <2>2 DEF Told
  <2>. QED  BY <2>1, <2>3
<1>6. ASSUME NEW i \in DOMAIN multi, Fetch(i)
      PROVE  ScanInv'
  <2>1. MultiOK' /\ Told'
    BY <1>6, FetchStep
  <2>2. WorldOK' /\ SignalsOK'
    BY <1>6 DEF Fetch, WorldOK, SignalsOK
  <2>. QED  BY <2>1, <2>2
<1>7. CASE Evaluate
  <2>1. WorldOK' /\ MultiOK' /\ Told'
    BY <1>7 DEF Evaluate, scanned, WorldOK, MultiOK, Told
  <2>2. SignalsOK'
    BY <1>7 DEF Evaluate, scanned, SignalsOK
  <2>. QED  BY <2>1, <2>2
<1>8. ASSUME NEW i \in DOMAIN world, Change(i)
      PROVE  ScanInv'
  <2>1. WorldOK' /\ MultiOK' /\ Told'
    BY <1>8, ChangeStep, WorldStep
  <2>2. SignalsOK'
    BY <1>8 DEF Change, scanned, SignalsOK
  <2>. QED  BY <2>1, <2>2
<1>9. CASE UNCHANGED vars
  BY <1>9 DEF vars, scanned, WorldOK, MultiOK, Told, SignalsOK
<1>. QED
  BY <1>1, <1>2, <1>3, <1>4, <1>5, <1>6, <1>7, <1>8, <1>9 DEF Next

(* What the scan knows is the markets but for their answers, what it was    *)
(* told of them included, and the signals are what the strategies make of   *)
(* it (ScanBinary, ScanMultipleChoice, tradingCycle).                       *)
THEOREM ScanInvariant == Spec => []ScanInv
BY ScanInit, ScanStep, PTL DEF Spec

-----------------------------------------------------------------------------
(***************************************************************************)
(* What follows from the invariant.                                        *)
(***************************************************************************)

(* A scanned market is one the binary search gave, or what is known of one  *)
(* in the world; its id tells which.                                        *)
FromBinary(m) == \E j \in DOMAIN BinaryMarkets : m = BinaryMarkets[j]
FromWorld(m) == \E j \in DOMAIN multi : m = multi[j]

(* What the strategies see is from one of the two searches. *)
LEMMA ScannedFrom ==
    ASSUME ScanInv, NEW i \in DOMAIN (binary \o multi)
    PROVE  FromBinary((binary \o multi)[i]) \/ FromWorld((binary \o multi)[i])
<1>. DEFINE S == {BinaryMarkets[j] : j \in DOMAIN BinaryMarkets}
                   \cup {multi[j] : j \in DOMAIN multi}
<1>1. binary \in Seq(S)
  <2>1. BinaryMarkets \in Seq({BinaryMarkets[j] : j \in DOMAIN BinaryMarkets})
    BY ScanAssumption
  <2>2. BinaryMarkets \in Seq(S) /\ << >> \in Seq(S)
    BY <2>1
  <2>3. binary = BinaryMarkets \/ binary = << >>
    BY DEF ScanInv, SignalsOK
  <2>. HIDE DEF S
  <2>. QED  BY <2>2, <2>3
<1>2. multi \in Seq(S)
  <2>1. CASE multi = << >>
    BY <2>1
  <2>2. CASE DOMAIN multi = DOMAIN world
    <3>1. PICK n \in Nat : DOMAIN multi = 1 .. n
      BY <2>2 DEF ScanInv, WorldOK
    <3>2. multi \in [1 .. n -> S]
      BY <3>1 DEF ScanInv, MultiOK
    <3>. QED  BY <3>1, <3>2
  <2>. QED  BY <2>1, <2>2 DEF ScanInv, MultiOK
<1>. HIDE DEF S
<1>3. binary \o multi \in Seq(S)
  BY <1>1, <1>2
<1>4. (binary \o multi)[i] \in S
  BY <1>3
<1>. QED  BY <1>4 DEF S, FromBinary, FromWorld

(* A scanned multiple-choice market is the one on Manifold in all but its   *)
(* answers.                                                                 *)
LEMMA WorldFacts ==
    ASSUME ScanInv, NEW j \in DOMAIN multi
    PROVE  /\ j \in DOMAIN world /\ Likeness(multi[j], world[j])
           /\ multi[j].id = world[j].id
           /\ multi[j].outcomeType = "MULTIPLE_CHOICE"
BY DEF ScanInv, WorldOK, MultiOK, Likeness, Fields

(* Ids tell the scanned markets apart. *)
LEMMA SameMarket ==
    ASSUME ScanInv, NEW m, NEW n, m.id = n.id,
           FromBinary(m) \/ FromWorld(m), FromBinary(n) \/ FromWorld(n)
    PROVE  m = n
<1>1. CASE FromBinary(m) /\ FromBinary(n)
  BY <1>1, SearchAssumption DEF FromBinary
<1>2. CASE FromWorld(m) /\ FromWorld(n)
  BY <1>2, WorldFacts DEF FromWorld, ScanInv, WorldOK
<1>3. CASE FromBinary(m) /\ FromWorld(n)
  BY <1>3, WorldFacts DEF FromBinary, FromWorld, ScanInv, WorldOK
<1>4. CASE FromWorld(m) /\ FromBinary(n)
  BY <1>4, WorldFacts DEF FromBinary, FromWorld, ScanInv, WorldOK
<1>. QED  BY <1>1, <1>2, <1>3, <1>4

(* The scan knows of a market what its answers may be, and of a binary one  *)
(* everything.                                                              *)
LEMMA ScannedData ==
    ASSUME ScanInv, NEW i \in DOMAIN (binary \o multi)
    PROVE  LET m == (binary \o multi)[i]
           IN  AnswersOK(m) /\ (m.outcomeType = "BINARY" => IsMarketData(m))
<1>. DEFINE m == (binary \o multi)[i]
<1>1. CASE FromBinary(m)
  <2>1. IsMarketData(m)
    BY <1>1, ScanAssumption DEF FromBinary
  <2>. HIDE DEF m
  <2>2. AnswersOK(m)
    BY <2>1 DEF IsMarketData, AnswersOK
  <2>. QED  BY <2>1, <2>2 DEF m
<1>2. CASE FromWorld(m)
  <2>1. PICK j \in DOMAIN multi : m = multi[j]
    BY <1>2 DEF FromWorld
  <2>2. /\ j \in DOMAIN world /\ Likeness(multi[j], world[j])
        /\ multi[j].outcomeType = "MULTIPLE_CHOICE"
    BY WorldFacts
  <2>3. IsFiniteSet(DOMAIN world[j].answers)
    BY <2>2 DEF ScanInv, WorldOK, IsMarketData
  <2>4. AnswersOK(multi[j])
    BY <2>2, <2>3, FS_Subset DEF Likeness, AnswersOK
  <2>. HIDE DEF m
  <2>5. AnswersOK(m) /\ (m.outcomeType = "BINARY" => IsMarketData(m))
    BY <2>1, <2>2, <2>4
  <2>. QED  BY <2>5 DEF m
<1>. QED  BY <1>1, <1>2, ScannedFrom

(* Every signal is on a market that was scanned. *)
LEMMA SignalsOfScanned ==
    ASSUME ScanInv, NEW s \in signals
    PROVE  \E m : /\ SignalOf(s, m) /\ AnswersOK(m)
                  /\ m.outcomeType = "BINARY" => IsMarketData(m)
<1>. DEFINE markets == binary \o multi
<1>1. signals = StrategySignals(markets)
  BY DEF ScanInv, SignalsOK
<1>2. PICK i \in DOMAIN markets : SignalOf(s, markets[i])
  BY <1>1, SignalSource
<1>3. /\ AnswersOK(markets[i])
      /\ markets[i].outcomeType = "BINARY" => IsMarketData(markets[i])
  BY ScannedData
<1>. HIDE DEF markets
<1>. QED  BY <1>2, <1>3

(* Every limit the executor may send for a signal with an edge lies beyond  *)
(* the price and within the estimate, if the risk manager or the time-decay *)
(* strategy asks for enough edge (Evaluate of the strategies,               *)
(* executeSingle).                                                          *)
THEOREM LimitsAlwaysKeepEdge ==
    ASSUME 100 * MinEdge > One \/ 100 * Config.timedecay.minEdge >= One
    PROVE  Spec => []LimitsKeepEdge
<1>1. ASSUME ScanInv  PROVE LimitsKeepEdge
  <2>. SUFFICES ASSUME NEW s \in signals, s.limit # NoLimit, HasEdge(s)
                PROVE  SentAsLimit(s) /\ KeepsEdge(s)
    BY DEF LimitsKeepEdge
  <2>1. PICK m : /\ SignalOf(s, m) /\ AnswersOK(m)
                 /\ m.outcomeType = "BINARY" => IsMarketData(m)
    BY <1>1, SignalsOfScanned
  <2>2. CASE s \in ArbitrageSignals(m)
    <3>1. PICK p \in 0 .. One, total \in Nat :
             /\ total > 0 /\ p <= total
             /\ 100 * Gap(p, total) >= 3 * One * total
             /\ s = AnswerSignal(m, s.answer, p, total)
      BY <2>1, <2>2, ArbitrageSignalShape
    <3>. QED  BY <3>1, ArbitrageLimitsKeepEdge
  <2>3. CASE s \in MispricingSignals(m)
    BY <2>1, <2>3, BinarySignalFacts, MispricingInRange
  <2>4. CASE s \in TimeDecaySignals(m)
    BY <2>1, <2>4, BinarySignalFacts, TimeDecayLimitsKeepEdge
  <2>5. CASE s \in MarketMakingSignals(m)
    BY <2>1, <2>5, BinarySignalFacts, QuotesNeverSized
  <2>. QED  BY <2>1, <2>2, <2>3, <2>4, <2>5 DEF SignalOf
<1>. QED  BY <1>1, ScanInvariant, PTL

(* The counters of the scan. *)
ScanCounters ==
    /\ pc \in {"binary", "search", "prices", "fetch", "done"}
    /\ priced \in Nat
    /\ unfetched \cup partial \cup moved \subseteq DOMAIN world
    /\ changes \in 0 .. MaxChanges

(* The counters begin at zero. *)
LEMMA CountersInit == Init => ScanCounters
BY ScanAssumption DEF Init, ScanCounters

(* No step takes them out of their ranges. *)
LEMMA CountersStep == ScanInv /\ ScanCounters /\ [Next]_vars => ScanCounters'
<1>. SUFFICES ASSUME ScanInv, ScanCounters, [Next]_vars  PROVE ScanCounters'
  OBVIOUS
<1>. USE DEF ScanCounters
<1>0. DOMAIN multi \subseteq DOMAIN world /\ \E n \in Nat : DOMAIN multi = 1 .. n
  BY DEF ScanInv, MultiOK, WorldOK
<1>1. CASE ScanBinary
  BY <1>1 DEF ScanBinary
<1>2. CASE SearchMultipleChoice
  BY <1>2 DEF SearchMultipleChoice
<1>3. CASE ReadPrices
  <2>1. Batch \subseteq DOMAIN multi
    <3>1. Len(multi) \in Nat /\ DOMAIN multi = 1 .. Len(multi)
      BY <1>0
    <3>. QED  BY <3>1, ScanAssumption DEF Batch, Lesser
  <2>2. partial' \subseteq partial \cup Batch
    BY <1>3 DEF ReadPrices
  <2>. QED  BY <1>0, <1>3, <2>1, <2>2, ScanAssumption DEF ReadPrices
<1>4. CASE PricesFail
  BY <1>4, ScanAssumption DEF PricesFail
<1>5. CASE StartFetch
  BY <1>0, <1>5 DEF StartFetch
<1>6. ASSUME NEW i \in DOMAIN multi, Fetch(i)  PROVE ScanCounters'
  BY <1>0, <1>6 DEF Fetch
<1>7. CASE Evaluate
  BY <1>7 DEF Evaluate, scanned
<1>8. ASSUME NEW i \in DOMAIN world, Change(i)  PROVE ScanCounters'
  <2>1. DOMAIN world' = DOMAIN world
    BY <1>8, WorldStep DEF ScanInv
  <2>2. changes' \in 0 .. MaxChanges
    BY <1>8, ScanAssumption DEF Change
  <2>. QED  BY <1>8, <2>1, <2>2 DEF Change, scanned
<1>9. CASE UNCHANGED vars
  BY <1>9 DEF vars, scanned
<1>. QED
  BY <1>1, <1>2, <1>3, <1>4, <1>5, <1>6, <1>7, <1>8, <1>9 DEF Next

(* What the scan knows of a market is the market but for its answers, and   *)
(* no signal has a confidence or a price outside 0 .. 1, or a negative      *)
(* edge, whatever is configured and scanned (the strategies' Evaluate).     *)
THEOREM ScanTypeCorrect == Spec => []TypeOK
<1>1. ASSUME ScanInv, ScanCounters  PROVE TypeOK
  <2>1. ASSUME NEW i \in DOMAIN multi
        PROVE  /\ IsMarketData(multi[i])
               /\ multi[i] = [world[i] EXCEPT !.answers = multi[i].answers]
               /\ DOMAIN multi[i].answers \subseteq DOMAIN world[i].answers
    <3>. DEFINE n == multi[i]
                m == world[i]
    <3>1. Likeness(n, m) /\ IsMarketData(m)
      BY <1>1 DEF ScanInv, MultiOK, WorldOK
    <3>. HIDE DEF n, m
    <3>2. /\ n = [f \in Fields |-> n[f]] /\ m = [f \in Fields |-> m[f]]
          /\ \A f \in Fields \ {"answers"} : n[f] = m[f]
      BY <3>1, MarketDataShaped DEF Likeness, Shaped
    <3>3. n = [m EXCEPT !.answers = n.answers]
      <4>. DEFINE r == [m EXCEPT !.answers = n.answers]
      <4>1. r = [f \in Fields |-> IF f = "answers" THEN n.answers ELSE m[f]]
        BY <3>2
      <4>2. \A f \in Fields : n[f] = IF f = "answers" THEN n.answers ELSE m[f]
        BY <3>2
      <4>3. [f \in Fields |-> n[f]]
              = [f \in Fields |-> IF f = "answers" THEN n.answers ELSE m[f]]
        BY <4>2, Zenon
      <4>. QED  BY <3>2, <4>1, <4>3
    <3>4. n = [id |-> n.id, outcomeType |-> n.outcomeType, probability |-> n.probability,
            answers |-> n.answers, liquidity |-> n.liquidity, volume |-> n.volume,
            volume24 |-> n.volume24, dated |-> n.dated, age |-> n.age,
            left |-> n.left, resolved |-> n.resolved]
      BY <3>2 DEF Fields
    <3>5. /\ n.outcomeType = m.outcomeType /\ n.probability = m.probability
          /\ n.liquidity = m.liquidity /\ n.volume = m.volume /\ n.volume24 = m.volume24
          /\ n.dated = m.dated /\ n.age = m.age /\ n.left = m.left
          /\ n.resolved = m.resolved
      BY <3>2 DEF Fields
    <3>6. AnswersOK(n) /\ DOMAIN n.answers \subseteq DOMAIN m.answers
      BY <3>1, FS_Subset DEF Likeness, IsMarketData, AnswersOK
    <3>7. IsMarketData(n)
      BY <3>1, <3>4, <3>5, <3>6 DEF IsMarketData, AnswersOK
    <3>. QED  BY <3>3, <3>6, <3>7 DEF n, m
  <2>2. ASSUME NEW s \in signals
        PROVE  {s.confidence, s.marketProb} \subseteq 0 .. One /\ s.edge >= 0
    <3>1. PICK m : /\ SignalOf(s, m) /\ AnswersOK(m)
                   /\ m.outcomeType = "BINARY" => IsMarketData(m)
      BY <1>1, SignalsOfScanned
    <3>2. InRange(s)
      BY <3>1, BinarySignalFacts, ArbitrageInRange, MispricingInRange,
         TimeDecayInRange, MarketMakingInRange DEF SignalOf
    <3>. QED  BY <3>2 DEF InRange
  <2>. QED  BY <1>1, <2>1, <2>2 DEF TypeOK, ScanInv, ScanCounters, MultiOK, SignalsOK
<1>2. Init /\ [][Next]_vars /\ []ScanInv => []ScanCounters
  BY CountersInit, CountersStep, PTL
<1>. QED  BY <1>1, <1>2, ScanInvariant, PTL DEF Spec

(* The strategies that may bet on one binary market agree on the side if    *)
(* only prices over 0.5 count as extremely high.                            *)
LEMMA SameSide ==
    ASSUME NEW m, IsMarketData(m),
           2 * Config.mispricing.extremeThresholdHigh >= One,
           NEW s, NEW t, HasEdge(s), HasEdge(t),
           s \in MispricingSignals(m) \cup TimeDecaySignals(m) \cup MarketMakingSignals(m),
           t \in MispricingSignals(m) \cup TimeDecaySignals(m) \cup MarketMakingSignals(m)
    PROVE  s.outcome = t.outcome
<1>. DEFINE side == IF High(m) THEN "YES" ELSE "NO"
<1>1. ASSUME NEW u \in MispricingSignals(m)  PROVE u.outcome = side
  <2>1. PICK c, e, l : u = BinarySignal("mispricing", m, side, c, e, l)
    BY <1>1 DEF MispricingSignals
  <2>. HIDE DEF side
  <2>. QED  BY <2>1 DEF BinarySignal
<1>2. ASSUME NEW u \in TimeDecaySignals(m)  PROVE u.outcome = side
  <2>1. PICK c, e, l : u = BinarySignal("timedecay", m, "NO", c, e, l)
    BY <1>2 DEF TimeDecaySignals
  <2>2. 2 * m.probability < One
    BY <1>2 DEF TimeDecaySignals, Decays
  <2>3. u.outcome = "NO"
    BY <2>1 DEF BinarySignal
  <2>4. m.probability \in Int /\ Config.mispricing.extremeThresholdHigh \in Int
    BY StrategyAssumption DEF IsMarketData, ConfigType
  <2>5. ~ High(m)
    BY <2>2, <2>4, OneNat DEF High
  <2>. QED  BY <2>3, <2>5
<1>. QED  BY <1>1, <1>2, QuotesNeverSized

(* No two signals the risk manager may approve bet on YES and on NO in the  *)
(* same market, if only prices over 0.5 count as extremely high             *)
(* (StrategySignals, sizePosition).                                         *)
THEOREM NeverOpposed ==
    ASSUME 2 * Config.mispricing.extremeThresholdHigh >= One
    PROVE  Spec => []NoOpposingBets
<1>1. ASSUME ScanInv  PROVE NoOpposingBets
  <2>. SUFFICES ASSUME NEW s \in signals, NEW t \in signals,
                       s.market = t.market, HasEdge(s), HasEdge(t)
                PROVE  s.outcome = t.outcome
    BY DEF NoOpposingBets
  <2>. DEFINE markets == binary \o multi
  <2>1. signals = StrategySignals(markets)
    BY <1>1 DEF ScanInv, SignalsOK
  <2>2. PICK i \in DOMAIN markets : SignalOf(s, markets[i])
    BY <2>1, SignalSource
  <2>3. PICK j \in DOMAIN markets : SignalOf(t, markets[j])
    BY <2>1, SignalSource
  <2>4. s.market = markets[i].id /\ t.market = markets[j].id
    BY <2>2, <2>3, ArbitrageSignalFacts, BinarySignalFacts DEF SignalOf
  <2>5. /\ FromBinary(markets[i]) \/ FromWorld(markets[i])
        /\ FromBinary(markets[j]) \/ FromWorld(markets[j])
    BY <1>1, ScannedFrom
  <2>6. markets[i] = markets[j]
    <3>. HIDE DEF markets
    <3>. QED  BY <1>1, <2>4, <2>5, SameMarket
  <2>. DEFINE m == markets[i]
  <2>7. CASE m.outcomeType = "BINARY"
    <3>1. FromBinary(m)
      BY <1>1, <2>5, <2>7, WorldFacts DEF FromWorld
    <3>2. IsMarketData(m)
      BY <3>1, ScanAssumption DEF FromBinary
    <3>3. /\ SignalOf(s, m) /\ SignalOf(t, m) /\ ~ ArbitrageEligible(m)
      BY <2>2, <2>3, <2>6, <2>7 DEF ArbitrageEligible
    <3>. HIDE DEF m
    <3>. QED  BY <3>2, <3>3, SameSide DEF SignalOf
  <2>8. CASE m.outcomeType # "BINARY"
    <3>1. SignalOf(s, m) /\ SignalOf(t, m)
      BY <2>2, <2>3, <2>6
    <3>. HIDE DEF m
    <3>2. s \in ArbitrageSignals(m) /\ t \in ArbitrageSignals(m)
      BY <2>8, <3>1, BinarySignalFacts DEF SignalOf
    <3>. QED  BY <3>2, ArbitrageSignalFacts
  <2>. QED  BY <2>7, <2>8
<1>. QED  BY <1>1, ScanInvariant, PTL

(* Every answer an arbitrage signal is on was in a request for resolutions: *)
(* the candidates cover the markets the strategy looks at, as long as it    *)
(* asks for at least the liquidity the scan asks for.                       *)
LEMMA SignalsFromCandidates ==
    ASSUME Config.arbitrage.minLiquidity >= 50,
           NEW m, NEW w, IsMarketData(w), Likeness(m, w),
           NEW s \in ArbitrageSignals(m), ArbitrageEligible(m)
    PROVE  /\ Candidate(m) /\ s.answer \in DOMAIN m.answers
           /\ ~ Resolved(m.answers[s.answer])
<1>1. /\ s.answer \in ActiveAnswers(m)
      /\ Cardinality(ActiveAnswers(m)) >= 2
  BY ArbitrageSignalFacts
<1>2. m.liquidity \in Nat /\ Config.arbitrage.minLiquidity \in Nat
  <2>1. m.liquidity = w.liquidity
    BY DEF Likeness, Fields
  <2>. QED  BY <2>1, StrategyAssumption DEF IsMarketData, ConfigType
<1>3. m.liquidity >= 50
  BY <1>2 DEF ArbitrageEligible
<1>4. IsFiniteSet(UnpinnedAnswers(m))
  BY FS_Subset DEF UnpinnedAnswers, Likeness, IsMarketData
<1>5. ActiveAnswers(m) \subseteq UnpinnedAnswers(m)
  BY DEF ActiveAnswers, UnpinnedAnswers
<1>6. /\ Cardinality(UnpinnedAnswers(m)) \in Nat
      /\ Cardinality(ActiveAnswers(m)) \in Nat
      /\ Cardinality(ActiveAnswers(m)) <= Cardinality(UnpinnedAnswers(m))
  <2>1. IsFiniteSet(ActiveAnswers(m))
    BY <1>4, <1>5, FS_Subset
  <2>2. Cardinality(ActiveAnswers(m)) <= Cardinality(UnpinnedAnswers(m))
    BY <1>4, <1>5, FS_Subset
  <2>3. /\ Cardinality(UnpinnedAnswers(m)) \in Nat
        /\ Cardinality(ActiveAnswers(m)) \in Nat
    BY <1>4, <2>1, FS_CardinalityType
  <2>. QED  BY <2>2, <2>3
<1>7. Candidate(m)
  BY <1>1, <1>3, <1>6 DEF Candidate
<1>. QED  BY <1>1, <1>7 DEF ActiveAnswers, Resolved

(* A signal on a market of the world is an arbitrage signal on what the     *)
(* scan knows of it.                                                        *)
LEMMA SignalOnWorld ==
    ASSUME ScanInv, NEW s \in signals, NEW i \in DOMAIN world, s.market = world[i].id
    PROVE  /\ i \in DOMAIN multi /\ unfetched = {} /\ pc = "done"
           /\ s \in ArbitrageSignals(multi[i]) /\ ArbitrageEligible(multi[i])
           /\ Likeness(multi[i], world[i]) /\ IsMarketData(world[i])
<1>. DEFINE markets == binary \o multi
<1>1. pc = "done" /\ signals = StrategySignals(markets) /\ unfetched = {}
  BY DEF ScanInv, SignalsOK
<1>2. PICK k \in DOMAIN markets : SignalOf(s, markets[k])
  BY <1>1, SignalSource
<1>. DEFINE m == markets[k]
<1>3. s.market = m.id
  BY <1>2, ArbitrageSignalFacts, BinarySignalFacts DEF SignalOf
<1>4. FromWorld(m)
  <2>1. FromBinary(m) \/ FromWorld(m)
    BY ScannedFrom
  <2>2. ~ FromBinary(m)
    BY <1>3 DEF FromBinary, ScanInv, WorldOK
  <2>. QED  BY <2>1, <2>2
<1>5. SignalOf(s, m)
  BY <1>2
<1>. HIDE DEF m
<1>6. PICK j \in DOMAIN multi : m = multi[j]
  BY <1>4 DEF FromWorld
<1>7. /\ j \in DOMAIN world /\ Likeness(m, world[j]) /\ IsMarketData(world[j])
      /\ m.id = world[j].id /\ m.outcomeType = "MULTIPLE_CHOICE"
  BY <1>6, WorldFacts DEF ScanInv, WorldOK
<1>8. i = j
  BY <1>3, <1>7 DEF ScanInv, WorldOK
<1>9. s \in ArbitrageSignals(m) /\ ArbitrageEligible(m)
  BY <1>5, <1>7, BinarySignalFacts DEF SignalOf
<1>. QED  BY <1>1, <1>6, <1>7, <1>8, <1>9

(* A signal is on a resolved answer only if the scan was not told, if the   *)
(* arbitrage strategy asks for the liquidity the scan asks for              *)
(* (enrichWithResolution, evaluateMarket).                                  *)
THEOREM ResolvedAlwaysUnseen ==
    ASSUME Config.arbitrage.minLiquidity >= 50
    PROVE  Spec => []ResolvedOnlyIfUnseen
<1>1. ASSUME ScanInv  PROVE ResolvedOnlyIfUnseen
  <2>. SUFFICES ASSUME NEW s \in signals, NEW i \in DOMAIN world,
                       s.market = world[i].id, s.answer \in DOMAIN world[i].answers,
                       Resolved(world[i].answers[s.answer])
                PROVE  i \in partial \/ <<i, s.answer>> \in late
    BY DEF ResolvedOnlyIfUnseen
  <2>. DEFINE m == multi[i]
  <2>1. /\ i \in DOMAIN multi /\ unfetched = {} /\ pc = "done"
        /\ s \in ArbitrageSignals(m) /\ ArbitrageEligible(m)
        /\ Likeness(m, world[i]) /\ IsMarketData(world[i])
    BY <1>1, SignalOnWorld
  <2>. HIDE DEF m
  <2>2. /\ Candidate(m) /\ s.answer \in DOMAIN m.answers
        /\ ~ Resolved(m.answers[s.answer])
    BY <2>1, SignalsFromCandidates
  <2>. QED  BY <1>1, <2>1, <2>2 DEF ScanInv, Told, m
<1>. QED  BY <1>1, ScanInvariant, PTL

-----------------------------------------------------------------------------
(***************************************************************************)
(* Markets whose open answers sum to 1.                                    *)
(***************************************************************************)

(* No price of market i was read yet; its prices are those it has now.      *)
Unpriced(i) ==
    /\ DOMAIN multi[i].answers \in {{}, DOMAIN world[i].answers}
    /\ \A a \in DOMAIN multi[i].answers : multi[i].answers[a].probability = 0

Exact(i) ==
    /\ i <= priced
    /\ DOMAIN multi[i].answers = DOMAIN world[i].answers
    /\ \A a \in DOMAIN multi[i].answers :
          multi[i].answers[a].probability = world[i].answers[a].probability

PricesOK == \A i \in DOMAIN multi \ (partial \cup moved) : Unpriced(i) \/ Exact(i)

(* What the scan takes for resolved has resolved.                           *)
ResolutionsOK ==
    \A i \in DOMAIN multi : \A a \in DOMAIN multi[i].answers :
        Resolved(multi[i].answers[a]) => Resolved(world[i].answers[a])

(* Requests for resolutions begin when every price was asked for, so that a *)
(* late answer is one of a market that moved.                               *)
LateOK ==
    /\ pc \in {"fetch", "done"} => \A i \in DOMAIN multi : i <= priced
    /\ pc \in {"binary", "search"} => late = {}
    /\ \A i \in DOMAIN multi : \A a : <<i, a>> \in late => i \in moved

(* "few": the answers are not so many that their least prices could add up  *)
(* to the deviation the arbitrage strategy looks for.                       *)
Few(as) ==
    Cardinality(DOMAIN as) * One < 1000 * Config.arbitrage.minProbSumDeviation

FewAnswers(w) == \A i \in DOMAIN w : Few(w[i].answers)

PriceInv == priced \in Nat /\ PricesOK /\ ResolutionsOK /\ LateOK

(* A batch reads the prices of that moment, all of a market or it is        *)
(* partial.                                                                 *)
LEMMA PricesReadStep ==
    ASSUME ScanInv, PriceInv, ReadPrices
    PROVE  PricesOK' /\ ResolutionsOK'
<1>1. PICK reported :
         /\ \A i \in Batch : reported[i] \subseteq DOMAIN world[i].answers
         /\ multi' = [i \in DOMAIN multi |->
                         IF i \in Batch
                         THEN WithPrices(multi[i], world[i].answers, reported[i])
                         ELSE multi[i]]
         /\ partial' = partial \cup
                {i \in Batch : reported[i] \notin {{}, DOMAIN world[i].answers}}
  BY DEF ReadPrices
<1>2. /\ priced' = priced + BatchSize /\ priced \in Nat /\ BatchSize \in Nat
      /\ UNCHANGED <<world, moved>>
  BY ScanAssumption DEF ReadPrices, PriceInv
<1>3. DOMAIN multi' = DOMAIN multi
  BY <1>1
<1>4. \A i \in Batch : i > priced /\ i <= priced'
  <2>1. Len(multi) \in Nat
    BY DEF ScanInv, MultiOK, WorldOK
  <2>. QED  BY <1>2, <2>1 DEF Batch, Lesser
<1>5. ASSUME NEW i \in DOMAIN multi, i \in Batch
      PROVE  /\ i \notin partial' \cup moved' => (Unpriced(i) \/ Exact(i))'
             /\ \A a \in DOMAIN multi'[i].answers :
                   Resolved(multi'[i].answers[a]) => Resolved(world'[i].answers[a])
  <2>. DEFINE n == multi[i]
              m == world[i]
              r == WithPrices(n, m.answers, reported[i])
  <2>1. multi'[i] = r /\ world'[i] = m
    BY <1>1, <1>2, <1>5
  <2>2. /\ Likeness(n, m) /\ m.answers \in [DOMAIN m.answers -> AnswerData]
        /\ reported[i] \in SUBSET DOMAIN m.answers
    BY <1>1, <1>5 DEF ScanInv, MultiOK, WorldOK, IsMarketData
  <2>3. /\ reported[i] = {} => r.answers = n.answers
        /\ \A a \in DOMAIN r.answers :
              Resolved(r.answers[a]) => a \in DOMAIN n.answers /\ Resolved(n.answers[a])
        /\ reported[i] = DOMAIN m.answers /\ reported[i] # {}
           /\ DOMAIN n.answers \in {{}, DOMAIN m.answers} =>
              /\ DOMAIN r.answers = DOMAIN m.answers
              /\ \A a \in DOMAIN m.answers :
                    r.answers[a].probability = m.answers[a].probability
    <3>. HIDE DEF n, m
    <3>1. Updated(r, n, m, m.answers, reported[i])
      BY <2>2, PricesLikeness
    <3>. HIDE DEF r
    <3>. QED  BY <3>1 DEF Updated
  <2>4. \A a \in DOMAIN n.answers : Resolved(n.answers[a]) => Resolved(m.answers[a])
    BY DEF PriceInv, ResolutionsOK
  <2>5. ASSUME i \notin partial' \cup moved'
        PROVE  (Unpriced(i) \/ Exact(i))'
    <3>0. i \in Nat
      BY DEF ScanInv, MultiOK, WorldOK
    <3>6. i \notin partial \cup moved /\ ~ (i <= priced)
      BY <1>1, <1>2, <1>4, <1>5, <2>5, <3>0
    <3>1. Unpriced(i)
      BY <3>6 DEF PriceInv, PricesOK, Exact
    <3>2. DOMAIN n.answers \in {{}, DOMAIN m.answers}
          /\ \A a \in DOMAIN n.answers : n.answers[a].probability = 0
      BY <3>1 DEF Unpriced
    <3>3. reported[i] \in {{}, DOMAIN m.answers}
      BY <1>1, <1>5, <2>5
    <3>. HIDE DEF n, m, r
    <3>4. CASE reported[i] = {}
      <4>1. Unpriced(i)'
        BY <2>1, <2>3, <3>2, <3>4 DEF Unpriced
      <4>. QED  BY <4>1
    <3>5. CASE reported[i] # {}
      <4>1. Exact(i)'
        BY <1>4, <1>5, <2>1, <2>3, <3>2, <3>3, <3>5 DEF Exact
      <4>. QED  BY <4>1
    <3>. QED  BY <3>4, <3>5
  <2>. HIDE DEF n, m, r
  <2>. QED  BY <2>1, <2>3, <2>4, <2>5
<1>6. ASSUME NEW i \in DOMAIN multi, i \notin Batch
      PROVE  /\ i \notin partial' \cup moved' => (Unpriced(i) \/ Exact(i))'
             /\ \A a \in DOMAIN multi'[i].answers :
                   Resolved(multi'[i].answers[a]) => Resolved(world'[i].answers[a])
  <2>1. multi'[i] = multi[i] /\ world'[i] = world[i] /\ partial \subseteq partial'
    BY <1>1, <1>2, <1>6
  <2>2. i \in Nat
    BY DEF ScanInv, MultiOK, WorldOK
  <2>3. i <= priced => i <= priced'
    BY <1>2, <2>2
  <2>4. i \notin partial' \cup moved' => Unpriced(i) \/ Exact(i)
    BY <1>2, <2>1 DEF PriceInv, PricesOK
  <2>5. /\ Unpriced(i) => Unpriced(i)'
        /\ Exact(i) => Exact(i)'
    BY <2>1, <2>3 DEF Unpriced, Exact
  <2>6. \A a \in DOMAIN multi[i].answers :
           Resolved(multi[i].answers[a]) => Resolved(world[i].answers[a])
    BY DEF PriceInv, ResolutionsOK
  <2>. QED  BY <2>1, <2>4, <2>5, <2>6
<1>7. PricesOK'
  BY <1>3, <1>5, <1>6 DEF PricesOK
<1>8. ResolutionsOK'
  BY <1>3, <1>5, <1>6 DEF ResolutionsOK
<1>. QED  BY <1>7, <1>8

(* What a request tells does not touch the prices.                          *)
LEMMA PricesFetchStep ==
    ASSUME ScanInv, PriceInv, NEW i \in DOMAIN multi, Fetch(i)
    PROVE  PricesOK' /\ ResolutionsOK'
<1>1. /\ DOMAIN multi' = DOMAIN multi
      /\ \A j \in DOMAIN multi \ {i} : multi'[j] = multi[j]
      /\ DOMAIN multi'[i].answers = DOMAIN multi[i].answers
      /\ \A a \in DOMAIN multi[i].answers :
            /\ multi'[i].answers[a].probability = multi[i].answers[a].probability
            /\ \/ multi'[i].answers[a].resolution = multi[i].answers[a].resolution
               \/ multi'[i].answers[a].resolution = world[i].answers[a].resolution
  BY FetchFacts DEF ScanInv
<1>2. UNCHANGED <<world, priced, moved>> /\ partial \subseteq partial'
  BY DEF Fetch
<1>3. ASSUME NEW j \in DOMAIN multi
      PROVE  /\ DOMAIN multi'[j].answers = DOMAIN multi[j].answers
             /\ \A a \in DOMAIN multi[j].answers :
                   /\ multi'[j].answers[a].probability = multi[j].answers[a].probability
                   /\ Resolved(multi'[j].answers[a]) => Resolved(world[j].answers[a])
  <2>1. CASE j = i
    BY <1>1, <2>1 DEF PriceInv, ResolutionsOK, Resolved
  <2>2. CASE j # i
    BY <1>1, <2>2 DEF PriceInv, ResolutionsOK
  <2>. QED  BY <2>1, <2>2
<1>4. ResolutionsOK'
  BY <1>1, <1>2, <1>3 DEF ResolutionsOK
<1>5. ASSUME NEW j \in DOMAIN multi, j \notin partial' \cup moved'
      PROVE  (Unpriced(j) \/ Exact(j))'
  <2>1. Unpriced(j) \/ Exact(j)
    BY <1>2, <1>5 DEF PriceInv, PricesOK
  <2>2. /\ Unpriced(j) => Unpriced(j)'
        /\ Exact(j) => Exact(j)'
    BY <1>2, <1>3 DEF Unpriced, Exact
  <2>. QED  BY <2>1, <2>2
<1>. QED  BY <1>1, <1>4, <1>5 DEF PricesOK

(* A market that was found with its answers and gets another one has moved. *)
LEMMA AnswersChange ==
    ASSUME ScanInv, NEW i \in DOMAIN world, Change(i), Listed(i), i \notin moved'
    PROVE  DOMAIN world'[i].answers = DOMAIN world[i].answers
<1>1. PICK as : /\ world' = [world EXCEPT ![i].answers = as]
                /\ moved' = IF \/ priced >= i
                               \/ Listed(i) /\ DOMAIN as # DOMAIN world[i].answers
                            THEN moved \cup {i} ELSE moved
  BY DEF Change
<1>2. DOMAIN as = DOMAIN world[i].answers
  BY <1>1
<1>3. Shaped(world[i]) /\ "answers" \in Fields
  BY MarketDataShaped DEF ScanInv, WorldOK, Fields
<1>4. world'[i] = [world[i] EXCEPT !.answers = as]
  BY <1>1 DEF ScanInv, WorldOK
<1>. QED  BY <1>2, <1>3, <1>4 DEF Shaped

(* A market that changes after its prices were read has moved.              *)
LEMMA PricesChangeStep ==
    ASSUME ScanInv, PriceInv, NEW i \in DOMAIN world, Change(i)
    PROVE  PricesOK' /\ ResolutionsOK' /\ LateOK'
<1>1. /\ DOMAIN world' = DOMAIN world
      /\ \A j \in DOMAIN world \ {i} : world'[j] = world[j]
      /\ \A j \in DOMAIN world : \A a \in DOMAIN world[j].answers :
            Resolved(world[j].answers[a]) => Resolved(world'[j].answers[a])
  BY WorldStep DEF ScanInv
<1>2. /\ UNCHANGED <<pc, multi, priced, unfetched, partial>>
      /\ moved \subseteq moved' /\ (priced >= i => i \in moved')
      /\ priced \in Nat
  BY DEF Change, scanned, PriceInv
<1>3. \A j \in DOMAIN multi : /\ j \in DOMAIN world
                              /\ DOMAIN multi[j].answers \subseteq DOMAIN world[j].answers
  BY DEF ScanInv, MultiOK, Likeness
<1>4. ResolutionsOK'
  BY <1>1, <1>2, <1>3 DEF PriceInv, ResolutionsOK
<1>5. ASSUME NEW j \in DOMAIN multi, j \notin partial' \cup moved'
      PROVE  (Unpriced(j) \/ Exact(j))'
  <2>1. Unpriced(j) \/ Exact(j)
    BY <1>2, <1>5 DEF PriceInv, PricesOK
  <2>2. CASE j = i
    <3>1. ~ Exact(j)
      BY <1>2, <1>5, <2>2 DEF Exact
    <3>2. Unpriced(j)'
      <4>1. Listed(i) => DOMAIN world'[i].answers = DOMAIN world[i].answers
        BY <1>5, <2>2, AnswersChange
      <4>. QED  BY <1>2, <2>1, <2>2, <3>1, <4>1 DEF Unpriced, Listed
    <3>. QED  BY <3>2
  <2>3. CASE j # i
    <3>1. /\ Unpriced(j) => Unpriced(j)'
          /\ Exact(j) => Exact(j)'
      BY <1>1, <1>2, <1>3, <2>3 DEF Unpriced, Exact
    <3>. QED  BY <2>1, <3>1
  <2>. QED  BY <2>2, <2>3
<1>6. PricesOK'
  BY <1>2, <1>5 DEF PricesOK
<1>7. ASSUME NEW j \in DOMAIN multi, NEW a, <<j, a>> \in late'
      PROVE  j \in moved'
  <2>1. CASE <<j, a>> \in late
    BY <1>2, <2>1 DEF PriceInv, LateOK
  <2>2. CASE <<j, a>> \notin late
    <3>0. PICK as : late' = IF pc = "fetch" /\ i \notin unfetched
                            THEN late \cup {<<i, b>> : b \in
                                   {c \in DOMAIN world[i].answers :
                                       Resolved(as[c]) /\ ~ Resolved(world[i].answers[c])}}
                            ELSE late
      BY DEF Change
    <3>1. pc = "fetch" /\ j = i
      BY <1>7, <2>2, <3>0
    <3>2. i <= priced
      BY <3>1 DEF PriceInv, LateOK
    <3>3. i \in Nat
      BY DEF ScanInv, WorldOK
    <3>. QED  BY <1>2, <3>1, <3>2, <3>3
  <2>. QED  BY <2>1, <2>2
<1>8. pc \in {"binary", "search"} => late' = {}
  BY DEF Change, PriceInv, LateOK
<1>9. LateOK'
  BY <1>2, <1>7, <1>8 DEF PriceInv, LateOK
<1>. QED  BY <1>4, <1>6, <1>9

(* No prices are read yet. *)
LEMMA PricesInit == Init => PriceInv
BY DEF Init, PriceInv, PricesOK, ResolutionsOK, LateOK

(* Steps elsewhere keep what is known of prices and resolutions. *)
LEMMA PricesKept ==
    ASSUME PriceInv, UNCHANGED <<multi, world, priced, partial, moved, late>>
    PROVE  priced' \in Nat /\ PricesOK' /\ ResolutionsOK'
BY DEF PriceInv, PricesOK, ResolutionsOK, Unpriced, Exact

(* Every step keeps the invariant of prices and resolutions. *)
LEMMA PricesInvStep == ScanInv /\ PriceInv /\ [Next]_vars => PriceInv'
<1>. SUFFICES ASSUME ScanInv, PriceInv, [Next]_vars  PROVE PriceInv'
  OBVIOUS
<1>1. CASE ScanBinary
  <2>1. LateOK'
    BY <1>1 DEF ScanBinary, PriceInv, LateOK
  <2>. QED  BY <1>1, <2>1, PricesKept DEF ScanBinary, PriceInv
<1>2. CASE SearchMultipleChoice
  <2>1. /\ late = {} /\ UNCHANGED <<world, priced, late>> /\ pc' = "prices"
    BY <1>2 DEF SearchMultipleChoice, PriceInv, LateOK
  <2>2. LateOK'
    BY <2>1 DEF LateOK
  <2>3. CASE UNCHANGED multi
    BY <1>2, <2>2, <2>3, PricesKept DEF SearchMultipleChoice, PriceInv
  <2>4. CASE ~ UNCHANGED multi
    <3>1. PICK listed \in BOOLEAN :
             multi' = [i \in DOMAIN world |-> Found(world[i], listed)]
      BY <1>2, <2>4 DEF SearchMultipleChoice
    <3>2. ASSUME NEW i \in DOMAIN world
          PROVE  Found(world[i], listed).answers =
                   [a \in (IF listed THEN DOMAIN world[i].answers ELSE {}) |->
                      [probability |-> 0, resolution |-> ""]]
      <4>. DEFINE m == world[i]
                  as == [a \in (IF listed THEN DOMAIN m.answers ELSE {}) |->
                           [probability |-> 0, resolution |-> ""]]
      <4>1. Shaped(m) /\ "answers" \in Fields
        BY MarketDataShaped DEF ScanInv, WorldOK, Fields
      <4>2. Found(m, listed) = [m EXCEPT !.answers = as]
        BY DEF Found
      <4>. HIDE DEF m, as
      <4>3. Found(m, listed).answers = as
        BY <4>1, <4>2 DEF Shaped
      <4>. QED  BY <4>3 DEF m, as
    <3>3. ASSUME NEW i \in DOMAIN world
          PROVE  /\ DOMAIN multi'[i].answers \in {{}, DOMAIN world[i].answers}
                 /\ \A a \in DOMAIN multi'[i].answers :
                       multi'[i].answers[a] = [probability |-> 0, resolution |-> ""]
      BY <3>1, <3>2
    <3>4. DOMAIN multi' = DOMAIN world
      BY <3>1
    <3>7. ASSUME NEW i \in DOMAIN world
          PROVE  /\ Unpriced(i)'
                 /\ \A a \in DOMAIN multi'[i].answers : ~ Resolved(multi'[i].answers[a])
      <4>1. \A a \in DOMAIN multi'[i].answers :
               /\ multi'[i].answers[a].probability = 0
               /\ multi'[i].answers[a].resolution = ""
        <5>. DEFINE none == [probability |-> 0, resolution |-> ""]
        <5>1. \A a \in DOMAIN multi'[i].answers : multi'[i].answers[a] = none
          BY <3>3
        <5>2. none.probability = 0 /\ none.resolution = ""
          OBVIOUS
        <5>. HIDE DEF none
        <5>. QED  BY <5>1, <5>2
      <4>. QED  BY <2>1, <3>3, <4>1 DEF Unpriced, Resolved
    <3>5. PricesOK'
      BY <3>4, <3>7 DEF PricesOK
    <3>6. ResolutionsOK'
      BY <3>4, <3>7 DEF ResolutionsOK
    <3>. QED  BY <2>1, <2>2, <3>5, <3>6 DEF PriceInv
  <2>. QED  BY <2>3, <2>4
<1>3. CASE ReadPrices
  <2>1. PricesOK' /\ ResolutionsOK'
    BY <1>3, PricesReadStep
  <2>2. priced' \in Nat
    BY <1>3, ScanAssumption DEF ReadPrices, PriceInv
  <2>3. LateOK'
    <3>1. pc' = "prices" /\ late' = late /\ moved' = moved /\ DOMAIN multi' = DOMAIN multi
      BY <1>3 DEF ReadPrices
    <3>. QED  BY <3>1 DEF PriceInv, LateOK
  <2>. QED  BY <2>1, <2>2, <2>3 DEF PriceInv
<1>4. CASE PricesFail
  <2>1. /\ UNCHANGED <<pc, multi, world, partial, moved, late>> /\ pc = "prices"
        /\ priced' = priced + BatchSize /\ priced \in Nat /\ BatchSize \in Nat
    BY <1>4, ScanAssumption DEF PricesFail, PriceInv
  <2>2. LateOK' /\ ResolutionsOK'
    BY <2>1 DEF PriceInv, LateOK, ResolutionsOK
  <2>3. ASSUME NEW i \in DOMAIN multi, i \notin partial' \cup moved'
        PROVE  (Unpriced(i) \/ Exact(i))'
    <3>1. i \in Nat /\ (Unpriced(i) \/ Exact(i))
      BY <2>1, <2>3 DEF ScanInv, MultiOK, WorldOK, PriceInv, PricesOK
    <3>2. i <= priced => i <= priced'
      BY <2>1, <3>1
    <3>3. /\ Unpriced(i) => Unpriced(i)'
          /\ Exact(i) => Exact(i)'
      BY <2>1, <3>2 DEF Unpriced, Exact
    <3>. QED  BY <3>1, <3>3
  <2>4. PricesOK'
    BY <2>1, <2>3 DEF PricesOK
  <2>. QED  BY <2>1, <2>2, <2>4 DEF PriceInv
<1>5. CASE StartFetch
  <2>1. \A i \in DOMAIN multi : i <= priced
    <3>1. /\ Len(multi) \in Nat /\ DOMAIN multi = 1 .. Len(multi)
          /\ priced \in Nat /\ BatchSize \in Nat \ {0}
      BY ScanAssumption DEF ScanInv, MultiOK, WorldOK, PriceInv
    <3>2. priced + 1 \notin Batch
      BY <1>5 DEF StartFetch
    <3>. QED  BY <3>1, <3>2 DEF Batch, Lesser
  <2>2. LateOK'
    BY <1>5, <2>1 DEF StartFetch, PriceInv, LateOK
  <2>. QED  BY <1>5, <2>2, PricesKept DEF StartFetch, PriceInv
<1>6. ASSUME NEW i \in DOMAIN multi, Fetch(i)  PROVE PriceInv'
  <2>1. PricesOK' /\ ResolutionsOK'
    BY <1>6, PricesFetchStep
  <2>2. LateOK'
    <3>1. /\ pc' = pc /\ pc = "fetch" /\ late' = late /\ moved' = moved
          /\ DOMAIN multi' = DOMAIN multi /\ priced' = priced
      BY <1>6 DEF Fetch
    <3>. QED  BY <3>1 DEF PriceInv, LateOK
  <2>. QED  BY <1>6, <2>1, <2>2 DEF Fetch, PriceInv
<1>7. CASE Evaluate
  <2>1. LateOK'
    BY <1>7 DEF Evaluate, scanned, PriceInv, LateOK
  <2>. QED  BY <1>7, <2>1, PricesKept DEF Evaluate, scanned, PriceInv
<1>8. ASSUME NEW i \in DOMAIN world, Change(i)  PROVE PriceInv'
  BY <1>8, PricesChangeStep DEF Change, scanned, PriceInv
<1>9. CASE UNCHANGED vars
  <2>1. LateOK'
    BY <1>9 DEF vars, scanned, PriceInv, LateOK
  <2>. QED  BY <1>9, <2>1, PricesKept DEF vars, scanned, PriceInv
<1>. QED
  BY <1>1, <1>2, <1>3, <1>4, <1>5, <1>6, <1>7, <1>8, <1>9 DEF Next

(* The answers stay few if a market never has many. *)
LEMMA FewStep ==
    ASSUME \A as \in Answers : Few(as)
    PROVE  ScanInv /\ FewAnswers(world) /\ [Next]_vars => FewAnswers(world)'
<1>. SUFFICES ASSUME ScanInv, FewAnswers(world), [Next]_vars
              PROVE  FewAnswers(world)'
  OBVIOUS
<1>1. CASE world' = world
  BY <1>1 DEF FewAnswers
<1>2. ASSUME NEW i \in DOMAIN world, Change(i)  PROVE FewAnswers(world)'
  <2>1. /\ DOMAIN world' = DOMAIN world /\ world'[i].answers \in Answers
        /\ \A j \in DOMAIN world \ {i} : world'[j] = world[j]
    BY <1>2, WorldStep DEF ScanInv
  <2>. QED  BY <2>1 DEF FewAnswers
<1>. QED
  BY <1>1, <1>2 DEF Next, vars, scanned, ScanBinary, SearchMultipleChoice, ReadPrices,
     PricesFail, StartFetch, Fetch, Evaluate

(* Of open answers that sum to 1 at least two of which are active, those    *)
(* that are not active have the least prices, and the active ones sum to    *)
(* nearly 1.                                                                *)
LEMMA ActiveNearlyFair ==
    ASSUME NEW as, as \in [DOMAIN as -> AnswerData], IsFiniteSet(DOMAIN as),
           NEW O \in SUBSET DOMAIN as, Total(as, O) = One,
           NEW A, A = {a \in O : Unpinned(as[a].probability)}, A # {}
    PROVE  /\ Total(as, A) \in Nat
           /\ Loss(One, Total(as, A), Cardinality(O \ A))
<1>. One \in Nat /\ One > 0
  BY OneNat
<1>1. IsFiniteSet(O) /\ Weighed(as, O) /\ A \in SUBSET O
  BY AnswerFacts
<1>2. PICK x \in A : TRUE
  OBVIOUS
<1>3. /\ Weight(as, x) \in Nat /\ 1000 * Weight(as, x) > One /\ x \in O
  <2>1. x \in O /\ Unpinned(as[x].probability)
    BY <1>2
  <2>2. Weight(as, x) \in Nat /\ Unpinned(Weight(as, x))
    BY <1>1, <2>1 DEF Weighed, Weight
  <2>. QED  BY <2>1, <2>2 DEF Unpinned
<1>4. ASSUME NEW h \in O \ A
      PROVE  1000 * Weight(as, h) <= One
  <2>. DEFINE w == Weight(as, h)
              v == Weight(as, x)
  <2>0. w \in Nat /\ ~ Unpinned(w)
    <3>1. h \in O /\ ~ Unpinned(as[h].probability)
      BY <1>4
    <3>. QED  BY <1>1, <3>1 DEF Weighed, Weight
  <2>1. w \in Nat /\ (1000 * w <= One \/ 1000 * w >= 999 * One)
    <3>. HIDE DEF w
    <3>. QED  BY <2>0 DEF Unpinned
  <2>2. w + v <= One
    BY <1>1, <1>2, <1>3, <1>4, TotalOfTwo
  <2>3. v \in Nat /\ 1000 * v > One
    BY <1>3
  <2>. HIDE DEF w, v
  <2>4. 1000 * w <= One
    BY <2>1, <2>2, <2>3
  <2>. QED  BY <2>4 DEF w
<1>. DEFINE D == O \ A
<1>5. D \in Parts(O) /\ O \ D = A
  BY <1>1 DEF Parts
<1>6. \A a \in D : 1000 * Weight(as, a) <= One
  BY <1>4
<1>. HIDE DEF D
<1>7. SmallLoss(as, O, D)
  BY <1>1, <1>5, <1>6, TotalWithoutSmall
<1>8. Total(as, A) \in Nat
  <2>1. Weighed(as, A) /\ IsFiniteSet(A)
    BY <1>1, FS_Subset DEF Weighed
  <2>. QED  BY <1>2, <2>1, TotalOfOne
<1>. QED  BY <1>5, <1>7, <1>8 DEF SmallLoss, D

(* What the scan takes for active is what is open and not pinned.           *)
LEMMA ActiveIsOpen ==
    ASSUME ScanInv, PriceInv, NEW i \in DOMAIN multi, Exact(i), Candidate(multi[i]),
           pc = "done", unfetched = {}, i \notin partial \cup moved
    PROVE  ActiveAnswers(multi[i]) =
             {a \in OpenAnswers(world[i]) : Unpinned(world[i].answers[a].probability)}
<1>1. ASSUME NEW a \in DOMAIN multi[i].answers
      PROVE  Resolved(multi[i].answers[a]) <=> Resolved(world[i].answers[a])
  <2>1. <<i, a>> \notin late
    BY DEF PriceInv, LateOK
  <2>. QED  BY <2>1 DEF ScanInv, Told, PriceInv, ResolutionsOK
<1>. QED  BY <1>1 DEF Exact, ActiveAnswers, OpenAnswers, Resolved

(* A market whose open answers sum to 1 gets no signal, whichever request   *)
(* left it out, unless it changed between the two reads, got an answer that *)
(* the search had not listed, or one of the reads told only a part;         *)
(* provided that the strategy asks for the liquidity the scan asks for, and *)
(* that markets have too few answers for their pinned prices to make up the *)
(* deviation it looks for (evaluateMarket).                                 *)
THEOREM FairLeftAlone ==
    ASSUME Config.arbitrage.minLiquidity >= 50,
           \A w \in Worlds : FewAnswers(w), \A as \in Answers : Few(as)
    PROVE  Spec => []FairMarketsLeftAlone
<1>. One \in Nat /\ One > 0
  BY OneNat
<1>1. ASSUME ScanInv, PriceInv, FewAnswers(world)  PROVE FairMarketsLeftAlone
  <2>. SUFFICES ASSUME NEW i \in DOMAIN world, FairlyPriced(world[i]),
                       i \notin partial \cup moved,
                       NEW s \in signals, s.market = world[i].id
                PROVE  FALSE
    BY DEF FairMarketsLeftAlone
  <2>. DEFINE m == multi[i]
              w == world[i]
              A == ActiveAnswers(m)
              O == OpenAnswers(w)
              dev == Config.arbitrage.minProbSumDeviation
  <2>1. /\ i \in DOMAIN multi /\ unfetched = {} /\ pc = "done"
        /\ s \in ArbitrageSignals(m) /\ ArbitrageEligible(m)
        /\ Likeness(m, w) /\ IsMarketData(w)
    BY <1>1, SignalOnWorld
  <2>2. Candidate(m)
    <3>. HIDE DEF m, w
    <3>. QED  BY <2>1, SignalsFromCandidates
  <2>3. A # {}
    <3>1. s.answer \in ActiveAnswers(m)
      BY <2>1, ArbitrageSignalFacts
    <3>. QED  BY <3>1
  <2>4. Exact(i)
    <3>0. PICK a \in A : TRUE
      BY <2>3
    <3>2. a \in DOMAIN m.answers /\ Unpinned(m.answers[a].probability)
      BY <3>0 DEF ActiveAnswers
    <3>3. ~ Unpinned(0)
      BY DEF Unpinned
    <3>. HIDE DEF A
    <3>1. ~ Unpriced(i)
      BY <3>2, <3>3 DEF Unpriced
    <3>. QED  BY <1>1, <2>1, <3>1 DEF PriceInv, PricesOK
  <2>5. A = {a \in O : Unpinned(w.answers[a].probability)}
    BY <1>1, <2>1, <2>2, <2>4, ActiveIsOpen
  <2>6. /\ w.answers \in [DOMAIN w.answers -> AnswerData]
        /\ IsFiniteSet(DOMAIN w.answers) /\ O \in SUBSET DOMAIN w.answers
    BY <2>1 DEF IsMarketData, OpenAnswers
  <2>7. Total(w.answers, O) = One
    BY DEF FairlyPriced, Total
  <2>8. /\ Total(w.answers, A) \in Nat
        /\ Loss(One, Total(w.answers, A), Cardinality(O \ A))
    <3>. DEFINE as == w.answers
    <3>. HIDE DEF w, A, O
    <3>1. /\ as \in [DOMAIN as -> AnswerData] /\ IsFiniteSet(DOMAIN as)
          /\ O \in SUBSET DOMAIN as /\ Total(as, O) = One
          /\ A = {a \in O : Unpinned(as[a].probability)} /\ A # {}
      BY <2>3, <2>5, <2>6, <2>7
    <3>. HIDE DEF as
    <3>2. Total(as, A) \in Nat /\ Loss(One, Total(as, A), Cardinality(O \ A))
      BY <3>1, ActiveNearlyFair
    <3>. QED  BY <3>2 DEF as
  <2>9. ProbSum(m) = Total(w.answers, A)
    <3>1. IsFiniteSet(A)
      BY <2>5, <2>6, FS_Subset
    <3>2. \A a \in A : Weight(m.answers, a) = Weight(w.answers, a)
      BY <2>4 DEF Exact, Weight, ActiveAnswers
    <3>3. SameTotal(m.answers, w.answers, A)
      <4>. HIDE DEF A
      <4>. QED  BY <3>1, <3>2, TotalsSame
    <3>4. ProbSum(m) = Total(m.answers, A)
      BY DEF ProbSum, Total
    <3>. QED  BY <3>3, <3>4 DEF SameTotal
  <2>10. /\ Cardinality(O \ A) \in Nat
         /\ Cardinality(O \ A) <= Cardinality(DOMAIN w.answers)
         /\ Cardinality(DOMAIN w.answers) \in Nat
         /\ Cardinality(DOMAIN w.answers) * One < 1000 * dev
    <3>1. O \ A \subseteq DOMAIN w.answers
      BY <2>6
    <3>2. Cardinality(O \ A) <= Cardinality(DOMAIN w.answers) /\ IsFiniteSet(O \ A)
      <4>. HIDE DEF w, A, O
      <4>. QED  BY <2>6, <3>1, FS_Subset
    <3>3. Cardinality(O \ A) \in Nat /\ Cardinality(DOMAIN w.answers) \in Nat
      BY <2>6, <3>2, FS_CardinalityType
    <3>. QED  BY <1>1, <3>2, <3>3 DEF FewAnswers, Few
  <2>11. dev \in Nat
    BY StrategyAssumption DEF ConfigType
  <2>12. Overpriced(ProbSum(m)) \/ Underpriced(ProbSum(m))
    BY <2>1 DEF ArbitrageSignals
  <2>. DEFINE t == Total(w.answers, A)
              k == Cardinality(O \ A)
              n == Cardinality(DOMAIN w.answers)
  <2>13. t \in Nat /\ Loss(One, t, k)
    BY <2>8
  <2>14. Overpriced(t) \/ Underpriced(t)
    BY <2>9, <2>12
  <2>15. k \in Nat /\ n \in Nat /\ k <= n /\ n * One < 1000 * dev
    BY <2>10
  <2>. HIDE DEF t, k, n, dev
  <2>16. t <= One /\ 1000 * (One - t) <= k * One
    BY <2>13 DEF Loss
  <2>17. k * One <= n * One
    BY <2>15
  <2>18. One - t < dev
    BY <2>11, <2>13, <2>15, <2>16, <2>17
  <2>19. t - One \in 1 - dev .. dev - 1
    BY <2>11, <2>13, <2>16, <2>18
  <2>. QED  BY <2>11, <2>13, <2>14, <2>19 DEF Overpriced, Underpriced, dev
<1>2. Init => FewAnswers(world)
  BY DEF Init
<1>3. Init /\ [][Next]_vars /\ []ScanInv => []PriceInv
  BY PricesInit, PricesInvStep, PTL
<1>4. Init /\ [][Next]_vars /\ []ScanInv => []FewAnswers(world)
  <2>1. ScanInv /\ FewAnswers(world) /\ [Next]_vars => FewAnswers(world)'
    BY FewStep
  <2>. QED  BY <1>2, <2>1, PTL
<1>. QED  BY <1>1, <1>3, <1>4, ScanInvariant, PTL DEF Spec

=============================================================================
