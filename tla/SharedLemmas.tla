---------------------------- MODULE SharedLemmas ----------------------------
(***************************************************************************)
(* Lemmas that the proofs of several components rest on: induction over    *)
(* numbers and finite sets, and what the sizing of a signal returns.       *)
(***************************************************************************)
EXTENDS RiskSizing, Portfolio, FiniteSetTheorems, TLAPS

-----------------------------------------------------------------------------
(***************************************************************************)
(* Induction, for a set instead of a predicate: a set of naturals, or of   *)
(* subsets of a finite set, that is closed under the induction step is     *)
(* everything.                                                             *)
(***************************************************************************)

(* A set with 0, and with n + 1 whenever with n, is the set of naturals.    *)
LEMMA NaturalsReached ==
    ASSUME NEW T \in SUBSET Nat, 0 \in T, \A n \in T : n + 1 \in T
    PROVE  T = Nat
<1>. SUFFICES ASSUME Nat \ T # {}  PROVE FALSE
  OBVIOUS
<1>1. PICK x \in Nat \ T : \A y \in Nat \ T : <<y, x>> \notin OpToRel(<, Nat)
  BY NatLessThanWellFounded, WFMin
<1>2. x # 0 /\ x - 1 \in Nat
  OBVIOUS
<1>3. <<x - 1, x>> \in OpToRel(<, Nat)
  BY <1>2 DEF OpToRel
<1>4. x - 1 \in T
  BY <1>1, <1>2, <1>3
<1>. QED  BY <1>2, <1>4

(* The subsets of U, as a set the provers do not look into. *)
Parts(U) == SUBSET U

(* Subsets of a finite set are finite, and subsets of subsets are subsets. *)
LEMMA PartsFacts ==
    ASSUME NEW U, IsFiniteSet(U)
    PROVE  /\ U \in Parts(U) /\ {} \in Parts(U)
           /\ \A s \in Parts(U) :
                 /\ s \subseteq U /\ IsFiniteSet(s)
                 /\ \A x : s \ {x} \in Parts(U)
                 /\ \A x \in s : x \in U
           /\ \A V \in Parts(U) : \A s \in Parts(V) : s \in Parts(U)
BY FS_Subset DEF Parts

(* A set of subsets of U with every s such that it has s without any one of *)
(* its elements has all of them.                                            *)
LEMMA SubsetsReached ==
    ASSUME NEW U, IsFiniteSet(U), NEW T \in SUBSET Parts(U),
           \A s \in Parts(U) : (\A x \in s : s \ {x} \in T) => s \in T
    PROVE  T = Parts(U)
<1>. DEFINE rest == (Parts(U)) \ T
<1>. SUFFICES ASSUME rest # {}  PROVE FALSE
  OBVIOUS
<1>2. IsWellFoundedOn(StrictSubsetOrdering(U), FiniteSubsetsOf(U))
  BY FS_StrictSubsetOrderingWellFounded
<1>3. rest \subseteq FiniteSubsetsOf(U)
  BY PartsFacts DEF FiniteSubsetsOf, Parts
<1>. HIDE DEF rest
<1>4. PICK s \in rest : \A t \in rest : <<t, s>> \notin StrictSubsetOrdering(U)
  BY <1>2, <1>3, WFMin
<1>5. s \in Parts(U) /\ s \notin T
  BY DEF rest
<1>6. ASSUME NEW x \in s  PROVE s \ {x} \in T
  <2>1. <<s \ {x}, s>> \in StrictSubsetOrdering(U)
    BY <1>5 DEF StrictSubsetOrdering, Parts
  <2>2. s \ {x} \notin rest
    BY <1>4, <2>1
  <2>. QED  BY <1>5, <2>2, PartsFacts DEF rest
<1>. QED  BY <1>5, <1>6

-----------------------------------------------------------------------------
(***************************************************************************)
(* The sizing of a signal (internal/risk/manager.go), for every            *)
(* configuration, portfolio and exposure.                                  *)
(***************************************************************************)

(* sizePosition returns a whole, non-negative amount of mana.               *)
LEMMA SizePositionType ==
    ASSUME NEW sig, sig.confidence \in Int, NEW pf \in PortfolioRecord,
           NEW exposure \in Nat
    PROVE  SizePosition(sig, pf, exposure) \in Nat
<1>1. CASE ~ HasEdge(sig)
  BY <1>1 DEF SizePosition
<1>2. CASE HasEdge(sig)
  <2>1. Price(sig) \in 1 .. One - 1
    BY <1>2 DEF HasEdge
  <2>2. KellyAmount(sig, pf.balance) \in Int
    <3>1. 100 * (One - Price(sig)) \in Nat \ {0}
      BY <2>1, RiskConfigAssumption
    <3>2. KellyFraction * (sig.confidence - Price(sig)) * pf.balance \in Int
      BY <2>1, RiskConfigAssumption DEF PortfolioRecord
    <3>. QED  BY <3>1, <3>2 DEF KellyAmount
  <2>3. /\ MaxPosition(pf.total) \in Int
        /\ RemainingExposure(pf.total, exposure) \in Int
    BY RiskConfigAssumption DEF MaxPosition, RemainingExposure, PortfolioRecord
  <2>4. CappedPosition(sig, pf, exposure) \in Int
    BY <2>2, <2>3 DEF CappedPosition, Lesser, PortfolioRecord
  <2>. QED  BY <2>4, RiskConfigAssumption DEF SizePosition
<1>. QED  BY <1>1, <1>2

(* A position is at most max_position_pct of the total, and fits into what  *)
(* is left of max_total_exposure when anything is left.                     *)
LEMMA SizePositionBounds ==
    ASSUME NEW sig, sig.confidence \in Int, NEW pf \in PortfolioRecord,
           NEW exposure \in Nat, ~ AtExposureLimit(pf.total, exposure)
    PROVE  /\ 100 * SizePosition(sig, pf, exposure) <= MaxPositionPct * pf.total
           /\ 100 * (exposure + SizePosition(sig, pf, exposure))
                <= MaxTotalExposure * pf.total
<1>. DEFINE kelly == KellyAmount(sig, pf.balance)
            capped == CappedPosition(sig, pf, exposure)
<1>0. /\ pf.total \in Nat
      /\ MaxPositionPct * pf.total \in Nat
      /\ MaxTotalExposure * pf.total \in Nat
  BY RiskConfigAssumption DEF PortfolioRecord
<1>1. CASE SizePosition(sig, pf, exposure) = 0
  BY <1>0, <1>1 DEF AtExposureLimit
<1>2. CASE SizePosition(sig, pf, exposure) # 0
  <2>1. HasEdge(sig) /\ SizePosition(sig, pf, exposure) = capped
    BY <1>2 DEF SizePosition
  <2>2. kelly \in Int
    <3>1. 100 * (One - Price(sig)) \in Nat \ {0}
      BY <2>1, RiskConfigAssumption DEF HasEdge
    <3>2. KellyFraction * (sig.confidence - Price(sig)) * pf.balance \in Int
      BY <2>1, RiskConfigAssumption DEF HasEdge, PortfolioRecord
    <3>. QED  BY <3>1, <3>2 DEF KellyAmount
  <2>3. 100 * MaxPosition(pf.total) <= MaxPositionPct * pf.total
        /\ MaxPosition(pf.total) \in Int
    BY <1>0 DEF MaxPosition
  <2>4. 100 * RemainingExposure(pf.total, exposure)
          <= MaxTotalExposure * pf.total - 100 * exposure
        /\ RemainingExposure(pf.total, exposure) \in Int
    BY <1>0 DEF RemainingExposure
  <2>5. capped \in Int /\ capped <= MaxPosition(pf.total)
        /\ capped <= RemainingExposure(pf.total, exposure)
    BY <2>2, <2>3, <2>4 DEF CappedPosition, Lesser, PortfolioRecord
  <2>. QED  BY <1>0, <2>1, <2>3, <2>4, <2>5
<1>. QED  BY <1>1, <1>2

(* Below the cap of its market a signal is approved for a whole amount that *)
(* is no larger than its position and keeps the market under the cap.       *)
LEMMA ApprovedAmountBounds ==
    ASSUME NEW sig, sig.confidence \in Int, NEW pf \in PortfolioRecord,
           NEW exposure \in Nat, NEW existing \in Nat,
           ~ MarketCapReached(pf.total, existing)
    PROVE  LET amount == ApprovedAmount(sig, pf, exposure, existing)
           IN  /\ amount \in Nat
               /\ amount <= SizePosition(sig, pf, exposure)
               /\ MarketCapOn => 100 * (existing + amount)
                                    <= MaxMarketExposurePct * pf.total
<1>1. SizePosition(sig, pf, exposure) \in Nat
  BY SizePositionType
<1>2. MaxMarketExposurePct * pf.total \in Nat
  BY RiskConfigAssumption DEF PortfolioRecord
<1>3. RemainingMarketCap(pf.total, existing) \in Int
      /\ (MarketCapOn => RemainingMarketCap(pf.total, existing) > 0)
  BY <1>2 DEF RemainingMarketCap, MarketCapReached
<1>. QED
  BY <1>1, <1>2, <1>3 DEF ApprovedAmount, RemainingMarketCap, Lesser

=============================================================================
