------------------------- MODULE TradingCycleProofs -------------------------
(***************************************************************************)
(* Theorems about TradingCycle, for every configuration, every set of      *)
(* signals and accounts, and any number of faults.                         *)
(***************************************************************************)
EXTENDS TradingCycle, SharedLemmas

-----------------------------------------------------------------------------
(***************************************************************************)
(* Type correctness.                                                       *)
(***************************************************************************)

(* A signal's market and key are among those the state is indexed by.       *)
LEMMA SignalTyping ==
    ASSUME NEW sig \in Signals
    PROVE  /\ sig \in SignalRecord /\ sig.market \in Markets /\ Key(sig) \in Keys
           /\ sig.confidence \in Int
<1>1. sig \in SignalRecord /\ sig.market \in Markets /\ Key(sig) \in Keys
  BY CycleAssumption DEF Markets, Keys
<1>2. sig.confidence \in Int
  BY <1>1, RiskConfigAssumption DEF SignalRecord
<1>. QED  BY <1>1, <1>2

(* Adding to one market's amount keeps amounts typed.                       *)
LEMMA PlusTyping ==
    ASSUME NEW f \in Amounts, NEW m \in Markets, NEW amount \in Nat
    PROVE  /\ Plus(f, m, amount) \in Amounts
           /\ Plus(f, m, amount)[m] = f[m] + amount
           /\ \A n \in Markets : n # m => Plus(f, m, amount)[n] = f[n]
BY DEF Plus, Amounts

LEMMA NothingTyping == Nothing \in Amounts
BY DEF Nothing, Amounts

(* What each outcome of the two calls of Refresh makes of the portfolio.    *)
LEMMA PortfolioTyping ==
    ASSUME NEW pf \in PortfolioRecord, NEW n \in Nat
    PROVE  /\ WithBalance(pf, n) \in PortfolioRecord
           /\ WithInvestment(pf, n) \in PortfolioRecord
           /\ WithoutInvestment(pf) \in PortfolioRecord
           /\ NilInvestment(pf) \in PortfolioRecord
<1>1. WithBalance(pf, n) \in PortfolioRecord
  BY DEF WithBalance, PortfolioRecord
<1>2. pf.balance + n \in Nat
  BY DEF PortfolioRecord
<1>3. WithInvestment(pf, n) \in PortfolioRecord
  BY <1>2 DEF WithInvestment, PortfolioRecord
<1>4. WithoutInvestment(pf) \in PortfolioRecord
  BY DEF WithoutInvestment, PortfolioRecord
<1>. QED  BY <1>1, <1>3, <1>4 DEF NilInvestment

(* Whatever the API reports, a refreshed portfolio has its type.            *)
LEMMA RefreshedTyping ==
    ASSUME portfolio \in PortfolioRecord, faults \in 0 .. MaxFaults, Refreshed
    PROVE  portfolio' \in PortfolioRecord /\ faults' \in 0 .. MaxFaults
<1>1. PICK account \in Accounts :
          LET read == WithBalance(portfolio, account.balance) IN
          \/ portfolio' = WithInvestment(read, account.investment) /\ NoFault
          \/ portfolio' = WithoutInvestment(read) /\ Strikes("noPortfolio")
          \/ portfolio' = NilInvestment(read) /\ Strikes("nilPortfolio")
  BY DEF Refreshed
<1>2. account.balance \in Nat /\ account.investment \in Nat
  BY CycleAssumption
<1>3. portfolio' \in PortfolioRecord
  BY <1>1, <1>2, PortfolioTyping
<1>4. faults' \in 0 .. MaxFaults
  BY <1>1, CycleAssumption DEF Strikes, NoFault
<1>. QED  BY <1>3, <1>4

(* The bet at the head of the queue, and the queue without it.              *)
LEMMA BetTyping ==
    ASSUME sized \in Seq(SizedSignal), sized # << >>
    PROVE  /\ Bet \in SizedSignal
           /\ Bet.sig \in Signals
           /\ Bet.amount \in Nat
           /\ Bet.sig.market \in Markets
           /\ Key(Bet.sig) \in Keys
           /\ Tail(sized) \in Seq(SizedSignal)
<1>1. Bet \in SizedSignal /\ Tail(sized) \in Seq(SizedSignal)
  BY DEF Bet
<1>2. Bet.sig \in Signals /\ Bet.amount \in Nat
  BY <1>1 DEF SizedSignal
<1>. QED  BY <1>1, <1>2, SignalTyping

LEMMA NewTyping ==
    /\ [k \in Keys |-> 0] \in [Keys -> 0 .. 3 \cup {100}]
    /\ NewPortfolio \in PortfolioRecord
    /\ << >> \in Seq(Signals)
    /\ << >> \in Seq(SizedSignal)
<1>1. [k \in Keys |-> 0] \in [Keys -> 0 .. 3 \cup {100}]
  OBVIOUS
<1>2. NewPortfolio \in PortfolioRecord
  BY DEF NewPortfolio, PortfolioRecord
<1>. QED  BY <1>1, <1>2

(* A failure count is changed for one key.                                  *)
LEMMA FailureTyping ==
    ASSUME NEW f \in [Keys -> 0 .. 3 \cup {100}], NEW k \in Keys,
           NEW n \in 0 .. 3 \cup {100}
    PROVE  [f EXCEPT ![k] = n] \in [Keys -> 0 .. 3 \cup {100}]
OBVIOUS

LEMMA TypeInit == Init => TypeOK
<1>. SUFFICES ASSUME Init  PROVE TypeOK
  OBVIOUS
<1>1. pending \in Seq(Signals) /\ sized \in Seq(SizedSignal)
  BY NewTyping DEF Init
<1>2. failedBets \in [Keys -> 0 .. 3 \cup {100}] /\ portfolio \in PortfolioRecord
  BY NewTyping DEF Init
<1>3. /\ marketExposure \in Amounts /\ cycleMarketExposure \in Amounts
      /\ booked \in Amounts /\ ledger \in Amounts /\ unrecorded \in Amounts
  BY NothingTyping DEF Init
<1>4. /\ pc = "down" /\ knownMarkets = {} /\ loaded = FALSE
      /\ peakBalance = 0 /\ totalExposure = 0
      /\ bookedTotal = 0 /\ bets = 0 /\ faults = 0
  BY Zenon DEF Init
<1>5. /\ pc \in PCs /\ pc # "record"
      /\ peakBalance \in Nat /\ totalExposure \in Nat
      /\ bookedTotal \in Nat /\ bets \in Nat
      /\ faults \in 0 .. MaxFaults
  BY <1>4, CycleAssumption DEF PCs
<1>6. knownMarkets \subseteq Markets /\ loaded \in BOOLEAN
  BY <1>4, Zenon
<1>. QED
  BY <1>1, <1>2, <1>3, <1>5, <1>6 DEF TypeOK

LEMMA TypeStep == TypeOK /\ [Next]_vars => TypeOK'
<1>. SUFFICES ASSUME TypeOK, [Next]_vars  PROVE TypeOK'
  OBVIOUS
<1>. USE CycleAssumption, NothingTyping DEF PCs
<1>1. CASE Start
  BY <1>1, RefreshedTyping DEF Start, TypeOK, risk, pass, results, database
<1>2. CASE Tick
  BY <1>2 DEF Tick, TypeOK, risk, pass, results, database
<1>3. CASE RefreshPortfolio
  <2>1. portfolio' \in PortfolioRecord /\ faults' \in 0 .. MaxFaults
    BY <1>3, RefreshedTyping DEF RefreshPortfolio, TypeOK
  <2>2. portfolio'.total \in Nat /\ portfolio'.investment \in Nat
    BY <2>1 DEF PortfolioRecord
  <2>. QED
    BY <1>3, <2>1, <2>2 DEF RefreshPortfolio, Greater, TypeOK, pass, results, database
<1>4. CASE RefreshFails
  BY <1>4 DEF RefreshFails, TypeOK, risk, pass, results, database
<1>5. CASE LoadMarketExposure
  BY <1>5 DEF LoadMarketExposure, NoFault, TypeOK, pass, results, database
<1>6. CASE LoadFails
  BY <1>6 DEF LoadFails, Strikes, TypeOK, risk, pass, results, database
<1>7. CASE LoadLosesRows
  <2>1. marketExposure' \in Amounts
    BY <1>7 DEF LoadLosesRows, TypeOK, Amounts
  <2>2. faults' \in 0 .. MaxFaults
    BY <1>7 DEF LoadLosesRows, Strikes, TypeOK
  <2>3. pc' = "evaluate" /\ loaded' = FALSE
    BY <1>7 DEF LoadLosesRows
  <2>4. UNCHANGED <<portfolio, peakBalance, totalExposure, pass, failedBets,
                    results, database, unrecorded>>
    BY <1>7 DEF LoadLosesRows
  <2>. QED
    BY <2>1, <2>2, <2>3, <2>4 DEF TypeOK, PCs, pass, results, database
<1>8. CASE \E batch \in Batches : Evaluate(batch)
  BY <1>8 DEF Evaluate, TypeOK, risk, results, database
<1>9. CASE SizeNext
  <2>. DEFINE sig == Head(pending)
              existing == ExistingExposure(sig.market)
              amount == ApprovedAmount(sig, portfolio, totalExposure, existing)
  <2>1. sig \in Signals /\ Tail(pending) \in Seq(Signals)
    BY <1>9 DEF SizeNext, TypeOK
  <2>2. sig \in SignalRecord /\ sig.confidence \in Int /\ sig.market \in Markets
    BY <2>1, SignalTyping
  <2>3. existing \in Nat
    BY <2>2 DEF ExistingExposure, TypeOK, Amounts
  <2>4. CASE \/ MarketCapReached(portfolio.total, existing)
             \/ amount < MinBetAmount
    BY <1>9, <2>1, <2>4 DEF SizeNext, TypeOK, risk, results, database
  <2>5. CASE ~ (\/ MarketCapReached(portfolio.total, existing)
                \/ amount < MinBetAmount)
    <3>1. amount \in Nat
      BY <2>2, <2>3, <2>5, ApprovedAmountBounds DEF TypeOK
    <3>2. [sig |-> sig, amount |-> amount, existing |-> existing] \in SizedSignal
      BY <2>1, <2>3, <3>1 DEF SizedSignal
    <3>3. /\ cycleMarketExposure' = Plus(cycleMarketExposure, sig.market, amount)
          /\ sized' = Append(sized, [sig |-> sig, amount |-> amount,
                                     existing |-> existing])
      BY <1>9, <2>5 DEF SizeNext
    <3>4. cycleMarketExposure' \in Amounts
      BY <2>2, <3>1, <3>3, PlusTyping DEF TypeOK
    <3>5. sized' \in Seq(SizedSignal) /\ sized' # << >>
      BY <3>2, <3>3 DEF TypeOK
    <3>. QED
      BY <1>9, <2>1, <3>4, <3>5 DEF SizeNext, TypeOK, risk, results, database
  <2>. QED  BY <2>4, <2>5
<1>10. CASE SizingDone
  BY <1>10 DEF SizingDone, TypeOK, risk, pass, results, database
<1>11. CASE EnsureMarkets
  <2>1. SizedMarkets \subseteq Markets
    <3>1. \A i \in DOMAIN sized : sized[i].sig \in Signals
      <4>1. \A i \in DOMAIN sized : sized[i] \in SizedSignal
        BY DEF TypeOK
      <4>. QED  BY <4>1 DEF SizedSignal
    <3>. QED  BY <3>1, SignalTyping DEF SizedMarkets
  <2>. QED
    BY <1>11, <2>1 DEF EnsureMarkets, Strikes, NoFault, TypeOK, risk, pass, results
<1>12. CASE Skip
  BY <1>12, BetTyping DEF Skip, TypeOK, risk, results, database
<1>13. CASE PostAccepted
  BY <1>13, BetTyping DEF PostAccepted, Posting, TypeOK, risk, pass, results, database
<1>14. CASE PostRejected
  <2>1. failedBets[Key(Bet.sig)] \in 0 .. 2
    BY <1>14, BetTyping DEF PostRejected, Posting, Blacklisted, TypeOK
  <2>2. failedBets' \in [Keys -> 0 .. 3 \cup {100}]
    BY <1>14, <2>1, BetTyping, FailureTyping
       DEF PostRejected, Posting, FailureCounts, TypeOK
  <2>. QED
    BY <1>14, <2>2, BetTyping DEF PostRejected, Posting, TypeOK, risk, results, database
<1>15. CASE PostReplyLost
  <2>1. failedBets[Key(Bet.sig)] \in 0 .. 2
    BY <1>15, BetTyping DEF PostReplyLost, Posting, Blacklisted, TypeOK
  <2>2. failedBets' \in [Keys -> 0 .. 3 \cup {100}]
    BY <1>15, <2>1, BetTyping, FailureTyping DEF PostReplyLost, Posting, TypeOK
  <2>3. unrecorded' \in Amounts
    BY <1>15, BetTyping, PlusTyping DEF PostReplyLost, Posting, TypeOK
  <2>. QED
    BY <1>15, <2>2, <2>3, BetTyping
       DEF PostReplyLost, Posting, Strikes, TypeOK, risk, results, database
<1>16. CASE RecordBet
  <2>1. sized # << >>
    BY <1>16 DEF RecordBet, TypeOK
  <2>. DEFINE m == Bet.sig.market
  <2>. /\ Plus(ledger, m, Bet.amount) \in Amounts
       /\ Plus(unrecorded, m, Bet.amount) \in Amounts
       /\ Plus(booked, m, Bet.amount) \in Amounts
    BY <2>1, BetTyping, PlusTyping DEF TypeOK
  <2>2. ledger' \in Amounts /\ unrecorded' \in Amounts /\ booked' \in Amounts
    BY <1>16 DEF RecordBet, TypeOK
  <2>3. faults' \in 0 .. MaxFaults
    BY <1>16 DEF RecordBet, Strikes, NoFault, TypeOK
  <2>. QED
    BY <1>16, <2>1, <2>2, <2>3, BetTyping DEF RecordBet, TypeOK, risk
<1>17. CASE RecordTrades
  <2>1. marketExposure' \in Amounts
    BY <1>17 DEF RecordTrades, TypeOK, Amounts
  <2>. QED
    BY <1>17, <2>1 DEF RecordTrades, TypeOK, pass, database
<1>18. CASE Forget /\ unrecorded' \in Amounts /\ faults' \in 0 .. MaxFaults
  BY <1>18, NewTyping DEF Forget, TypeOK, database
<1>19. CASE Stop
  BY <1>18, <1>19 DEF Stop, TypeOK
<1>20. CASE Crash
  <2>1. unrecorded' \in Amounts
    BY <1>20, BetTyping, PlusTyping DEF Crash, TypeOK
  <2>. QED  BY <1>18, <1>20, <2>1 DEF Crash, Strikes, TypeOK
<1>21. CASE UNCHANGED vars
  BY <1>21 DEF vars, TypeOK, risk, pass, results, database
<1>. QED
  BY <1>1, <1>2, <1>3, <1>4, <1>5, <1>6, <1>7, <1>8, <1>9, <1>10, <1>11,
     <1>12, <1>13, <1>14, <1>15, <1>16, <1>17, <1>19, <1>20, <1>21 DEF Next

(* Every variable of the trading cycle keeps its type, whatever the API and *)
(* the database do: no approved amount is negative, no failure count goes   *)
(* beyond the blacklist threshold except to the permanent mark.             *)
THEOREM TypeCorrect == Spec => []TypeOK
BY TypeInit, TypeStep, PTL DEF Spec

-----------------------------------------------------------------------------
(***************************************************************************)
(* The cap per market.                                                     *)
(***************************************************************************)

(* Which state is empty outside which phase of the cycle.                   *)
Phases ==
    /\ pc \notin {"size", "ensure", "execute", "record"} => sized = << >>
    /\ pc \notin {"execute", "record"} =>
          booked = Nothing /\ bookedTotal = 0 /\ bets = 0

LEMMA PhasesStep == TypeOK /\ Phases /\ [Next]_vars => Phases'
<1>. SUFFICES ASSUME TypeOK, Phases, [Next]_vars  PROVE Phases'
  OBVIOUS
<1>1. CASE Start \/ Tick \/ RefreshPortfolio \/ RefreshFails \/ LoadMarketExposure
             \/ LoadFails \/ LoadLosesRows
  BY <1>1 DEF Start, Tick, RefreshPortfolio, RefreshFails, LoadMarketExposure,
              LoadFails, LoadLosesRows, Phases, pass, results
<1>2. CASE \E batch \in Batches : Evaluate(batch)
  BY <1>2 DEF Evaluate, Phases, results
<1>3. CASE SizeNext \/ SizingDone \/ EnsureMarkets
  BY <1>3 DEF SizeNext, SizingDone, EnsureMarkets, Phases, pass, results
<1>4. CASE Skip \/ PostAccepted \/ PostRejected \/ PostReplyLost \/ RecordBet
  BY <1>4 DEF Skip, PostAccepted, PostRejected, PostReplyLost, RecordBet,
              Posting, Phases
<1>5. CASE RecordTrades
  BY <1>5 DEF RecordTrades, Phases, pass
<1>6. CASE Stop \/ Crash
  BY <1>6 DEF Stop, Crash, Forget, Phases
<1>7. CASE UNCHANGED vars
  BY <1>7 DEF vars, Phases, pass, results
<1>. QED  BY <1>1, <1>2, <1>3, <1>4, <1>5, <1>6, <1>7 DEF Next

LEMMA TailElements ==
    ASSUME NEW S, NEW s \in Seq(S), s # << >>
    PROVE  /\ 1 \in DOMAIN s /\ Head(s) = s[1]
           /\ \A i \in DOMAIN Tail(s) :
                 i \in Nat /\ i >= 1 /\ i + 1 \in DOMAIN s /\ Tail(s)[i] = s[i + 1]
OBVIOUS

LEMMA AppendElements ==
    ASSUME NEW S, NEW s \in Seq(S), NEW e \in S
    PROVE  \A i \in DOMAIN Append(s, e) :
              \/ i \in DOMAIN s /\ Append(s, e)[i] = s[i]
              \/ i = Len(s) + 1 /\ Append(s, e)[i] = e
OBVIOUS

(* Nothing is queued.                                                       *)
LEMMA EmptyFits ==
    ASSUME sized' = << >>
    PROVE  ApprovedBetsFit'
BY DEF ApprovedBetsFit, ApprovedUnderCap, ApprovedInOrder, ApprovedAfterBooked,
       ApprovedCounted

(* The head leaves the queue, placed or not.                                *)
LEMMA TailFits ==
    ASSUME TypeOK, ApprovedBetsFit, sized # << >>, sized' = Tail(sized),
           pc' # "size", UNCHANGED <<portfolio, marketExposure>>,
           \/ UNCHANGED booked
           \/ booked' = Plus(booked, Bet.sig.market, Bet.amount)
    PROVE  ApprovedBetsFit'
<1>1. /\ 1 \in DOMAIN sized /\ Bet = sized[1]
      /\ \A i \in DOMAIN sized' :
            i \in Nat /\ i >= 1 /\ i + 1 \in DOMAIN sized /\ sized'[i] = sized[i + 1]
  BY TailElements DEF Bet, TypeOK
<1>2. ApprovedUnderCap'
  BY <1>1 DEF ApprovedBetsFit, ApprovedUnderCap, MarketCapOn
<1>3. ApprovedInOrder'
  <2>1. SUFFICES ASSUME NEW i \in DOMAIN sized', NEW j \in DOMAIN sized', i < j,
                        sized'[i].sig.market = sized'[j].sig.market
                 PROVE  sized'[i].existing + sized'[i].amount <= sized'[j].existing
    BY DEF ApprovedInOrder
  <2>2. i + 1 < j + 1
    BY <1>1, <2>1
  <2>. QED  BY <1>1, <2>1, <2>2 DEF ApprovedBetsFit, ApprovedInOrder
<1>4. ApprovedAfterBooked'
  <2>1. SUFFICES ASSUME NEW i \in DOMAIN sized'
                 PROVE  LET m == sized'[i].sig.market
                        IN  marketExposure[m] + booked'[m] <= sized'[i].existing
    BY DEF ApprovedAfterBooked
  <2>. DEFINE m == sized[i + 1].sig.market
  <2>2. i + 1 \in DOMAIN sized /\ sized'[i] = sized[i + 1] /\ 1 < i + 1
    BY <1>1
  <2>3. marketExposure[m] + booked[m] <= sized[i + 1].existing
    BY <2>2 DEF ApprovedBetsFit, ApprovedAfterBooked
  <2>4. /\ sized[1] \in SizedSignal /\ sized[i + 1] \in SizedSignal
        /\ m \in Markets
    <3>1. sized[1] \in SizedSignal /\ sized[i + 1] \in SizedSignal
      BY <1>1, <2>2 DEF TypeOK
    <3>. QED  BY <3>1, SignalTyping DEF SizedSignal
  <2>5. marketExposure[m] \in Nat /\ booked[m] \in Nat
    BY <2>4 DEF TypeOK, Amounts
  <2>6. /\ sized[1].existing \in Nat /\ sized[1].amount \in Nat
        /\ sized[i + 1].existing \in Nat
    BY <2>4 DEF SizedSignal
  <2>7. CASE UNCHANGED booked
    BY <2>2, <2>3, <2>7
  <2>8. CASE booked' = Plus(booked, Bet.sig.market, Bet.amount) /\ Bet.sig.market = m
    <3>1. sized[1].existing + sized[1].amount <= sized[i + 1].existing
      BY <1>1, <2>2, <2>8 DEF ApprovedBetsFit, ApprovedInOrder
    <3>2. marketExposure[m] + booked[m] <= sized[1].existing
      BY <1>1, <2>8 DEF ApprovedBetsFit, ApprovedAfterBooked
    <3>3. booked'[m] = booked[m] + sized[1].amount
      BY <1>1, <2>4, <2>6, <2>8, PlusTyping DEF TypeOK
    <3>. QED  BY <2>2, <2>5, <2>6, <3>1, <3>2, <3>3
  <2>9. CASE booked' = Plus(booked, Bet.sig.market, Bet.amount) /\ Bet.sig.market # m
    <3>1. Bet.sig.market \in Markets /\ Bet.amount \in Nat
      BY BetTyping DEF TypeOK
    <3>2. booked \in Amounts
      BY DEF TypeOK
    <3>3. booked'[m] = booked[m]
      BY <2>4, <2>9, <3>1, <3>2, PlusTyping
    <3>. QED  BY <2>2, <2>3, <3>3
  <2>. QED  BY <2>7, <2>8, <2>9
<1>5. ApprovedCounted'
  BY DEF ApprovedCounted
<1>. QED  BY <1>2, <1>3, <1>4, <1>5 DEF ApprovedBetsFit

(* SizeSignals considers one signal.                                        *)
LEMMA SizeNextFits ==
    ASSUME TypeOK, Phases, ApprovedBetsFit, SizeNext
    PROVE  ApprovedBetsFit'
<1>. DEFINE sig == Head(pending)
            m == sig.market
            existing == ExistingExposure(m)
            amount == ApprovedAmount(sig, portfolio, totalExposure, existing)
            bet == [sig |-> sig, amount |-> amount, existing |-> existing]
<1>1. /\ pc = "size" /\ pc' = pc
      /\ UNCHANGED <<portfolio, totalExposure, marketExposure, booked>>
      /\ pending # << >>
  BY DEF SizeNext, risk, results
<1>2. sig \in Signals /\ sig.confidence \in Int /\ m \in Markets
  BY <1>1, SignalTyping DEF TypeOK
<1>3. existing \in Nat
  BY <1>2 DEF ExistingExposure, TypeOK, Amounts
<1>4. CASE \/ MarketCapReached(portfolio.total, existing)
           \/ amount < MinBetAmount
  <2>1. UNCHANGED <<cycleMarketExposure, sized>>
    BY <1>4 DEF SizeNext
  <2>. QED
    BY <1>1, <2>1 DEF ApprovedBetsFit, ApprovedUnderCap, ApprovedInOrder,
                      ApprovedAfterBooked, ApprovedCounted, ExistingExposure
<1>5. CASE ~ (\/ MarketCapReached(portfolio.total, existing)
              \/ amount < MinBetAmount)
  <2>1. /\ cycleMarketExposure' = Plus(cycleMarketExposure, m, amount)
        /\ sized' = Append(sized, bet)
    BY <1>5 DEF SizeNext
  <2>2. /\ amount \in Nat
        /\ MarketCapOn => 100 * (existing + amount)
                            <= MaxMarketExposurePct * portfolio.total
    BY <1>2, <1>3, <1>5, ApprovedAmountBounds DEF TypeOK
  <2>3. bet \in SizedSignal /\ bet.sig = sig /\ bet.amount = amount
        /\ bet.existing = existing
    BY <1>2, <1>3, <2>2 DEF SizedSignal
  <2>4. \A i \in DOMAIN sized' :
           \/ i \in DOMAIN sized /\ sized'[i] = sized[i]
           \/ i = Len(sized) + 1 /\ sized'[i] = bet
    BY <2>1, <2>3, AppendElements DEF TypeOK
  <2>5. \A i \in DOMAIN sized :
           /\ i \in Nat /\ i <= Len(sized)
           /\ sized[i] \in SizedSignal
    BY DEF TypeOK
  <2>6. \A i \in DOMAIN sized : /\ sized[i].sig.market \in Markets
                                 /\ sized[i].existing \in Nat
                                 /\ sized[i].amount \in Nat
    BY <2>5, SignalTyping DEF SizedSignal
  <2>7. /\ cycleMarketExposure \in Amounts
        /\ cycleMarketExposure'[m] = cycleMarketExposure[m] + amount
        /\ \A n \in Markets : n # m => cycleMarketExposure'[n] = cycleMarketExposure[n]
    <3>1. cycleMarketExposure \in Amounts
      BY DEF TypeOK
    <3>. HIDE DEF m, amount
    <3>. QED  BY <1>2, <2>1, <2>2, <3>1, PlusTyping
  <2>8. \A n \in Markets : /\ marketExposure[n] \in Nat
                            /\ cycleMarketExposure[n] \in Nat
    BY DEF TypeOK, Amounts
  <2>9. ApprovedUnderCap'
    <3>1. SUFFICES ASSUME MarketCapOn, NEW i \in DOMAIN sized'
                   PROVE  100 * (sized'[i].existing + sized'[i].amount)
                             <= MaxMarketExposurePct * portfolio.total
      BY <1>1 DEF ApprovedUnderCap, MarketCapOn
    <3>2. CASE i \in DOMAIN sized /\ sized'[i] = sized[i]
      BY <3>1, <3>2 DEF ApprovedBetsFit, ApprovedUnderCap
    <3>3. CASE sized'[i] = bet
      BY <2>2, <2>3, <3>1, <3>3
    <3>. QED  BY <2>4, <3>2, <3>3
  <2>10. ApprovedInOrder'
    <3>1. SUFFICES ASSUME NEW i \in DOMAIN sized', NEW j \in DOMAIN sized', i < j,
                          sized'[i].sig.market = sized'[j].sig.market
                   PROVE  sized'[i].existing + sized'[i].amount <= sized'[j].existing
      BY DEF ApprovedInOrder
    <3>2. CASE j \in DOMAIN sized /\ sized'[j] = sized[j]
      <4>1. i \in DOMAIN sized /\ sized'[i] = sized[i]
        BY <2>4, <2>5, <3>1, <3>2 DEF TypeOK
      <4>. QED  BY <3>1, <3>2, <4>1 DEF ApprovedBetsFit, ApprovedInOrder
    <3>3. CASE j = Len(sized) + 1 /\ sized'[j] = bet
      <4>1. i \in DOMAIN sized /\ sized'[i] = sized[i]
        BY <2>4, <3>1, <3>3
      <4>2. sized[i].existing + sized[i].amount <= ExistingExposure(sized[i].sig.market)
        BY <1>1, <4>1 DEF ApprovedBetsFit, ApprovedCounted
      <4>. QED  BY <2>3, <3>1, <3>3, <4>1, <4>2
    <3>. QED  BY <2>4, <3>2, <3>3
  <2>11. ApprovedAfterBooked'
    <3>1. SUFFICES ASSUME NEW i \in DOMAIN sized'
                   PROVE  LET n == sized'[i].sig.market
                          IN  marketExposure[n] + booked[n] <= sized'[i].existing
      BY <1>1 DEF ApprovedAfterBooked
    <3>2. CASE i \in DOMAIN sized /\ sized'[i] = sized[i]
      BY <3>2 DEF ApprovedBetsFit, ApprovedAfterBooked
    <3>3. CASE sized'[i] = bet
      <4>1. booked[m] = 0
        BY <1>1, <1>2 DEF Phases, Nothing
      <4>. QED  BY <1>2, <2>3, <2>8, <3>3, <4>1 DEF ExistingExposure
    <3>. QED  BY <2>4, <3>2, <3>3
  <2>12. ApprovedCounted'
    <3>1. SUFFICES ASSUME NEW i \in DOMAIN sized'
                   PROVE  LET n == sized'[i].sig.market
                          IN  sized'[i].existing + sized'[i].amount
                                <= marketExposure[n] + cycleMarketExposure'[n]
      BY <1>1 DEF ApprovedCounted, ExistingExposure
    <3>2. CASE i \in DOMAIN sized /\ sized'[i] = sized[i]
      <4>. DEFINE n == sized[i].sig.market
      <4>1. n \in Markets
        BY <2>6, <3>2
      <4>2. sized[i].existing + sized[i].amount <= marketExposure[n] + cycleMarketExposure[n]
        BY <1>1, <3>2 DEF ApprovedBetsFit, ApprovedCounted, ExistingExposure
      <4>3. /\ cycleMarketExposure'[n] \in Nat
            /\ cycleMarketExposure[n] <= cycleMarketExposure'[n]
        BY <1>2, <2>2, <2>7, <2>8, <4>1
      <4>. QED  BY <2>6, <2>8, <3>2, <4>1, <4>2, <4>3
    <3>3. CASE sized'[i] = bet
      BY <1>2, <2>2, <2>3, <2>7, <2>8, <3>3 DEF ExistingExposure
    <3>. QED  BY <2>4, <3>2, <3>3
  <2>. QED  BY <2>9, <2>10, <2>11, <2>12 DEF ApprovedBetsFit
<1>. QED  BY <1>4, <1>5

LEMMA FitStep ==
    ASSUME TypeOK, Phases, ApprovedBetsFit, [Next]_vars
    PROVE  ApprovedBetsFit'
<1>. DEFINE Quiet == /\ UNCHANGED <<portfolio, marketExposure, booked, sized>>
                     /\ \/ pc' # "size"
                        \/ UNCHANGED <<pc, cycleMarketExposure>>
<1>1. CASE sized' = << >>
  BY <1>1, EmptyFits
<1>2. CASE Quiet
  BY <1>2 DEF ApprovedBetsFit, ApprovedUnderCap, ApprovedInOrder,
              ApprovedAfterBooked, ApprovedCounted, ExistingExposure
<1>3. CASE Start \/ Tick \/ RefreshPortfolio \/ RefreshFails \/ LoadMarketExposure
             \/ LoadFails \/ LoadLosesRows
  BY <1>1, <1>3 DEF Start, Tick, RefreshPortfolio, RefreshFails, LoadMarketExposure,
                    LoadFails, LoadLosesRows, Phases, pass
<1>4. CASE \E batch \in Batches : Evaluate(batch)
  BY <1>1, <1>4 DEF Evaluate, Phases
<1>5. CASE SizeNext
  BY <1>5, SizeNextFits
<1>6. CASE SizingDone \/ EnsureMarkets \/ PostAccepted
  BY <1>2, <1>6 DEF SizingDone, EnsureMarkets, PostAccepted, Posting, risk, pass, results
<1>7. CASE Skip \/ PostRejected \/ PostReplyLost
  BY <1>7, TailFits DEF Skip, PostRejected, PostReplyLost, Posting, risk, results
<1>8. CASE RecordBet
  BY <1>8, TailFits DEF RecordBet, risk, TypeOK
<1>9. CASE RecordTrades
  BY <1>1, <1>9 DEF RecordTrades, pass
<1>10. CASE Stop \/ Crash
  BY <1>1, <1>10 DEF Stop, Crash, Forget
<1>11. CASE UNCHANGED vars
  BY <1>2, <1>11 DEF vars, risk, pass, results
<1>. QED
  BY <1>3, <1>4, <1>5, <1>6, <1>7, <1>8, <1>9, <1>10, <1>11 DEF Next

CapInv == TypeOK /\ Phases /\ ApprovedBetsFit

LEMMA CapInvariant == Spec => []CapInv
<1>1. Init => CapInv
  <2>1. Init => ApprovedBetsFit
    BY DEF Init, ApprovedBetsFit, ApprovedUnderCap, ApprovedInOrder,
           ApprovedAfterBooked, ApprovedCounted
  <2>2. Init => Phases
    BY DEF Init, Phases
  <2>. QED  BY <2>1, <2>2, TypeInit DEF CapInv
<1>2. CapInv /\ [Next]_vars => CapInv'
  BY TypeStep, PhasesStep, FitStep DEF CapInv
<1>. QED  BY <1>1, <1>2, PTL DEF Spec

(* Every queued bet was sized with the bets of its market before it counted *)
(* (SizeSignals and its cycleMarketExposure, executeSingle, RecordTrade).   *)
THEOREM ApprovedBetsAlwaysFit == Spec => []ApprovedBetsFit
BY CapInvariant, PTL DEF CapInv

LEMMA HeadFits ==
    ASSUME CapInv
    PROVE  KnownExposureCapped
<1>. SUFFICES ASSUME MarketCapOn, sized # << >>
              PROVE  100 * (marketExposure[Bet.sig.market] + booked[Bet.sig.market]
                              + Bet.amount) <= MaxMarketExposurePct * portfolio.total
  BY DEF KnownExposureCapped
<1>. DEFINE m == Bet.sig.market
<1>1. 1 \in DOMAIN sized /\ Bet = sized[1]
  BY TailElements DEF Bet, CapInv, TypeOK
<1>2. /\ 100 * (Bet.existing + Bet.amount) <= MaxMarketExposurePct * portfolio.total
      /\ marketExposure[m] + booked[m] <= Bet.existing
  BY <1>1 DEF CapInv, ApprovedBetsFit, ApprovedUnderCap, ApprovedAfterBooked
<1>3. /\ Bet.existing \in Nat /\ Bet.amount \in Nat
      /\ marketExposure[m] \in Nat /\ booked[m] \in Nat
  BY BetTyping DEF CapInv, TypeOK, SizedSignal, Amounts
<1>4. MaxMarketExposurePct * portfolio.total \in Nat
  BY RiskConfigAssumption DEF CapInv, TypeOK, PortfolioRecord
<1>. QED  BY <1>2, <1>3, <1>4

(* No bet is posted that would take its market over max_market_exposure_pct *)
(* of the account, as far as the process knows: for any configuration, any  *)
(* signals, and whatever faults strike (SizeSignals, executeSingle).        *)
THEOREM KnownExposureAlwaysCapped == Spec => []KnownExposureCapped
<1>1. CapInv => KnownExposureCapped
  BY HeadFits
<1>. QED  BY <1>1, CapInvariant, PTL

-----------------------------------------------------------------------------
(***************************************************************************)
(* What the process knows of the database.                                 *)
(***************************************************************************)

CoverInv == TypeOK /\ Phases /\ MemoryCoversLedger

LEMMA CoverStep ==
    ASSUME CoverInv, [Next]_vars
    PROVE  MemoryCoversLedger'
<1>. USE DEF CoverInv
<1>1. CASE UNCHANGED <<loaded, ledger, marketExposure, booked>>
  BY <1>1 DEF MemoryCoversLedger
<1>2. CASE loaded' = FALSE
  BY <1>2 DEF MemoryCoversLedger
<1>3. CASE Start \/ Tick \/ RefreshPortfolio \/ RefreshFails \/ LoadFails
  BY <1>1, <1>3 DEF Start, Tick, RefreshPortfolio, RefreshFails, LoadFails,
                    risk, results, database
<1>4. CASE LoadMarketExposure
  <2>1. /\ marketExposure' = ledger /\ ledger' = ledger
        /\ booked' = booked /\ booked = Nothing
    BY <1>4 DEF LoadMarketExposure, results, database, Phases
  <2>. QED
    BY <2>1 DEF MemoryCoversLedger, Nothing, TypeOK, Amounts
<1>5. CASE LoadLosesRows
  BY <1>2, <1>5 DEF LoadLosesRows
<1>6. CASE \E batch \in Batches : Evaluate(batch)
  BY <1>1, <1>6 DEF Evaluate, risk, results, database
<1>7. CASE SizeNext \/ SizingDone \/ EnsureMarkets
  BY <1>1, <1>7 DEF SizeNext, SizingDone, EnsureMarkets, risk, results, database
<1>8. CASE Skip \/ PostAccepted \/ PostRejected \/ PostReplyLost
  BY <1>1, <1>8 DEF Skip, PostAccepted, PostRejected, PostReplyLost, risk,
                    results, database
<1>9. CASE RecordBet
  <2>. DEFINE m == Bet.sig.market
  <2>1. m \in Markets /\ Bet.amount \in Nat
    BY <1>9, BetTyping DEF RecordBet, TypeOK
  <2>2. ledger \in Amounts /\ booked \in Amounts /\ marketExposure \in Amounts
    BY DEF TypeOK
  <2>3. /\ UNCHANGED <<loaded, marketExposure>>
        /\ booked' = Plus(booked, m, Bet.amount)
        /\ ledger' = ledger \/ ledger' = Plus(ledger, m, Bet.amount)
    BY <1>9 DEF RecordBet, risk
  <2>. HIDE DEF m
  <2>4. SUFFICES ASSUME loaded, NEW n \in Markets
                 PROVE  ledger'[n] <= marketExposure[n] + booked'[n]
    BY <2>3 DEF MemoryCoversLedger
  <2>5. ledger[n] <= marketExposure[n] + booked[n]
    BY <2>4 DEF MemoryCoversLedger
  <2>6. ledger[n] \in Nat /\ booked[n] \in Nat /\ marketExposure[n] \in Nat
    BY <2>2, <2>4 DEF Amounts
  <2>7. /\ Plus(booked, m, Bet.amount)[m] = booked[m] + Bet.amount
        /\ n # m => Plus(booked, m, Bet.amount)[n] = booked[n]
    BY <2>1, <2>2, <2>4, PlusTyping
  <2>8. /\ Plus(ledger, m, Bet.amount)[m] = ledger[m] + Bet.amount
        /\ n # m => Plus(ledger, m, Bet.amount)[n] = ledger[n]
    BY <2>1, <2>2, <2>4, PlusTyping
  <2>9. CASE n = m
    <3>1. booked'[n] = booked[n] + Bet.amount
      BY <2>3, <2>7, <2>9
    <3>2. ledger'[n] = ledger[n] \/ ledger'[n] = ledger[n] + Bet.amount
      BY <2>3, <2>8, <2>9
    <3>. QED  BY <2>1, <2>5, <2>6, <3>1, <3>2
  <2>10. CASE n # m
    <3>1. booked'[n] = booked[n]
      BY <2>3, <2>7, <2>10
    <3>2. ledger'[n] = ledger[n]
      BY <2>3, <2>8, <2>10
    <3>. QED  BY <2>5, <3>1, <3>2
  <2>. QED  BY <2>9, <2>10
<1>10. CASE RecordTrades
  <2>1. /\ UNCHANGED <<loaded, ledger>>
        /\ booked' = Nothing
        /\ marketExposure' = [m \in Markets |-> marketExposure[m] + booked[m]]
    BY <1>10 DEF RecordTrades, database
  <2>. QED
    BY <2>1 DEF MemoryCoversLedger, Nothing, TypeOK, Amounts
<1>11. CASE Stop \/ Crash
  BY <1>2, <1>11 DEF Stop, Crash, Forget
<1>12. CASE UNCHANGED vars
  BY <1>1, <1>12 DEF vars, risk, results, database
<1>. QED
  BY <1>3, <1>4, <1>5, <1>6, <1>7, <1>8, <1>9, <1>10, <1>11, <1>12 DEF Next

(* Whatever fails, a process whose last load lost no rows never believes    *)
(* less of a market than the database holds (loadMarketExposure,            *)
(* RecordTrade, recordBet).                                                 *)
THEOREM MemoryAlwaysCoversLedger == Spec => []MemoryCoversLedger
<1>1. Init => CoverInv
  <2>1. Init => Phases /\ MemoryCoversLedger
    BY DEF Init, Phases, MemoryCoversLedger
  <2>. QED  BY <2>1, TypeInit DEF CoverInv
<1>2. CoverInv /\ [Next]_vars => CoverInv'
  BY TypeStep, PhasesStep, CoverStep DEF CoverInv
<1>. QED  BY <1>1, <1>2, PTL DEF Spec, CoverInv

-----------------------------------------------------------------------------
(***************************************************************************)
(* The total exposure.                                                     *)
(***************************************************************************)

Sizing == pc \in {"size", "ensure", "execute", "record"}

(* While a batch is sized and placed there is budget left, and every queued *)
(* bet is small: a full position at most, and alone within the budget.      *)
SmallBets ==
    Sizing =>
        /\ ~ AtExposureLimit(portfolio.total, totalExposure)
        /\ \A i \in DOMAIN sized :
              /\ 100 * sized[i].amount <= MaxPositionPct * portfolio.total
              /\ 100 * (totalExposure + sized[i].amount)
                    <= MaxTotalExposure * portfolio.total

LEMMA SmallBetsStep ==
    ASSUME TypeOK, Phases, SmallBets, [Next]_vars
    PROVE  SmallBets'
<1>1. CASE ~ Sizing'
  BY <1>1 DEF SmallBets
<1>2. CASE Sizing /\ UNCHANGED <<portfolio, totalExposure, sized>>
  BY <1>2 DEF SmallBets, AtExposureLimit
<1>3. CASE /\ Sizing /\ UNCHANGED <<portfolio, totalExposure>>
           /\ sized # << >> /\ sized' = Tail(sized)
  <2>1. \A i \in DOMAIN sized' : i + 1 \in DOMAIN sized /\ sized'[i] = sized[i + 1]
    BY <1>3, TailElements DEF TypeOK
  <2>. QED  BY <1>3, <2>1 DEF SmallBets, AtExposureLimit
<1>4. CASE Start \/ Tick \/ RefreshPortfolio \/ RefreshFails \/ LoadMarketExposure
             \/ LoadFails \/ LoadLosesRows \/ RecordTrades \/ Stop \/ Crash
  BY <1>1, <1>4 DEF Start, Tick, RefreshPortfolio, RefreshFails, LoadMarketExposure,
                    LoadFails, LoadLosesRows, RecordTrades, Stop, Crash, Forget, Sizing
<1>5. CASE \E batch \in Batches : Evaluate(batch)
  <2>1. CASE pc' = "idle"
    BY <1>1, <2>1 DEF Sizing
  <2>2. CASE pc' # "idle"
    <3>1. /\ CanTrade(portfolio.total, peakBalance, totalExposure)
          /\ UNCHANGED <<portfolio, totalExposure>> /\ sized' = << >>
      BY <1>5, <2>2 DEF Evaluate, risk, Phases
    <3>. QED  BY <3>1 DEF SmallBets, CanTrade, AtExposureLimit
  <2>. QED  BY <2>1, <2>2
<1>6. CASE SizeNext
  <2>. DEFINE sig == Head(pending)
              existing == ExistingExposure(sig.market)
              amount == ApprovedAmount(sig, portfolio, totalExposure, existing)
              bet == [sig |-> sig, amount |-> amount, existing |-> existing]
  <2>1. Sizing /\ UNCHANGED <<portfolio, totalExposure>>
    BY <1>6 DEF SizeNext, Sizing, risk
  <2>2. sig \in Signals /\ sig.confidence \in Int /\ existing \in Nat
    <3>1. sig \in Signals
      BY <1>6 DEF SizeNext, TypeOK
    <3>. QED  BY <3>1, SignalTyping DEF ExistingExposure, TypeOK, Amounts
  <2>3. CASE \/ MarketCapReached(portfolio.total, existing)
             \/ amount < MinBetAmount
    BY <1>2, <1>6, <2>1, <2>3 DEF SizeNext
  <2>4. CASE ~ (\/ MarketCapReached(portfolio.total, existing)
                \/ amount < MinBetAmount)
    <3>1. sized' = Append(sized, bet)
      BY <1>6, <2>4 DEF SizeNext
    <3>2. amount \in Nat /\ amount <= SizePosition(sig, portfolio, totalExposure)
      BY <2>2, <2>4, ApprovedAmountBounds DEF TypeOK
    <3>3. SizePosition(sig, portfolio, totalExposure) \in Nat
      BY <2>2, SizePositionType DEF TypeOK
    <3>4. ~ AtExposureLimit(portfolio.total, totalExposure)
      BY <2>1 DEF SmallBets
    <3>5. /\ 100 * SizePosition(sig, portfolio, totalExposure)
                <= MaxPositionPct * portfolio.total
          /\ 100 * (totalExposure + SizePosition(sig, portfolio, totalExposure))
                <= MaxTotalExposure * portfolio.total
      BY <2>2, <3>4, SizePositionBounds DEF TypeOK
    <3>6. /\ MaxPositionPct * portfolio.total \in Nat
          /\ MaxTotalExposure * portfolio.total \in Nat
          /\ totalExposure \in Nat
      BY RiskConfigAssumption DEF TypeOK, PortfolioRecord
    <3>7. /\ 100 * amount <= MaxPositionPct * portfolio.total
          /\ 100 * (totalExposure + amount) <= MaxTotalExposure * portfolio.total
      <4>. HIDE DEF amount, sig
      <4>. QED  BY <3>2, <3>3, <3>5, <3>6
    <3>8. bet \in SizedSignal /\ bet.amount = amount
      BY <2>2, <3>2 DEF SizedSignal
    <3>9. \A i \in DOMAIN sized' :
             \/ i \in DOMAIN sized /\ sized'[i] = sized[i]
             \/ sized'[i] = bet
      BY <3>1, <3>8, AppendElements DEF TypeOK
    <3>. HIDE DEF amount, sig, bet
    <3>. QED  BY <2>1, <3>4, <3>7, <3>8, <3>9 DEF SmallBets, AtExposureLimit
  <2>. QED  BY <2>3, <2>4
<1>7. CASE SizingDone \/ EnsureMarkets \/ PostAccepted
  BY <1>2, <1>7 DEF SizingDone, EnsureMarkets, PostAccepted, Posting, Sizing, risk, pass
<1>8. CASE Skip \/ PostRejected \/ PostReplyLost \/ RecordBet
  BY <1>3, <1>8 DEF Skip, PostRejected, PostReplyLost, RecordBet, Posting, Sizing,
                    risk, TypeOK
<1>9. CASE UNCHANGED vars
  BY <1>1, <1>2, <1>9 DEF vars, risk, pass, Sizing
<1>. QED
  BY <1>4, <1>5, <1>6, <1>7, <1>8, <1>9 DEF Next

OvershootInv ==
    /\ TypeOK /\ Phases /\ SmallBets
    /\ OvershootBounded
    /\ bets = 0 => bookedTotal = 0

LEMMA OvershootStep == OvershootInv /\ [Next]_vars => OvershootInv'
<1>. SUFFICES ASSUME OvershootInv, [Next]_vars  PROVE OvershootInv'
  OBVIOUS
<1>. USE DEF OvershootInv
<1>1. TypeOK' /\ Phases' /\ SmallBets'
  BY TypeStep, PhasesStep, SmallBetsStep
<1>2. CASE bets' = 0 /\ bookedTotal' = 0
  BY <1>1, <1>2 DEF OvershootBounded
<1>3. CASE UNCHANGED <<portfolio, totalExposure, bookedTotal, bets>>
  BY <1>1, <1>3 DEF OvershootBounded
<1>4. CASE RecordBet
  <2>. DEFINE position == MaxPositionPct * portfolio.total
              budget == MaxTotalExposure * portfolio.total
              spent == 100 * (totalExposure + bookedTotal)
  <2>1. /\ position \in Nat /\ budget \in Nat
        /\ bets \in Nat /\ totalExposure \in Nat /\ bookedTotal \in Nat
        /\ Bet.amount \in Nat
    BY <1>4, BetTyping, RiskConfigAssumption DEF RecordBet, TypeOK, PortfolioRecord
  <2>2. /\ UNCHANGED <<portfolio, totalExposure>>
        /\ bookedTotal' = bookedTotal + Bet.amount
        /\ bets' = bets + 1
    BY <1>4 DEF RecordBet, risk
  <2>3. 100 * Bet.amount <= position /\ 100 * (totalExposure + Bet.amount) <= budget
    <3>1. 1 \in DOMAIN sized /\ Bet = sized[1]
      BY <1>4, TailElements DEF Bet, RecordBet, TypeOK
    <3>. QED  BY <1>4, <3>1 DEF SmallBets, Sizing, RecordBet
  <2>4. CASE bets = 0
    BY <1>1, <2>1, <2>2, <2>3, <2>4 DEF OvershootBounded
  <2>5. CASE bets > 0
    <3>1. spent <= budget + (bets - 1) * position
      BY <2>5 DEF OvershootBounded
    <3>2. (bets' - 1) * position = (bets - 1) * position + position
          /\ (bets - 1) * position \in Int
      <4>. HIDE DEF position
      <4>. QED  BY <2>1, <2>2
    <3>3. 100 * (totalExposure + bookedTotal') = spent + 100 * Bet.amount
      BY <2>1, <2>2
    <3>4. 100 * (totalExposure + bookedTotal') <= budget + (bets' - 1) * position
      <4>. HIDE DEF position, budget
      <4>. QED  BY <2>1, <2>2, <2>3, <3>1, <3>2, <3>3
    <3>5. OvershootBounded'
      BY <2>2, <3>4 DEF OvershootBounded
    <3>. QED  BY <1>1, <2>1, <2>2, <3>5
  <2>. QED  BY <2>1, <2>4, <2>5
<1>5. CASE ~ RecordBet
  BY <1>1, <1>2, <1>3, <1>5
     DEF Next, vars, Start, Tick, RefreshPortfolio, RefreshFails, LoadMarketExposure,
         LoadFails, LoadLosesRows, Evaluate, SizeNext, SizingDone, EnsureMarkets, Skip,
         PostAccepted, PostRejected, PostReplyLost, RecordTrades, Stop, Crash, Forget,
         Phases, risk, pass, results
<1>. QED  BY <1>4, <1>5

(* One cycle exceeds max_total_exposure by at most a full position for     *)
(* every bet after the first: SizeSignals gives each signal the same budget, and  *)
(* RecordTrade counts the bets only when all are placed.                    *)
THEOREM OvershootAlwaysBounded == Spec => []OvershootBounded
<1>1. Init => OvershootInv
  <2>1. Init => Phases /\ SmallBets
    BY DEF Init, Phases, SmallBets, Sizing
  <2>2. Init => OvershootBounded /\ bookedTotal = 0
    BY DEF Init, OvershootBounded
  <2>. QED  BY <2>1, <2>2, TypeInit DEF OvershootInv
<1>. QED  BY <1>1, OvershootStep, PTL DEF Spec, OvershootInv

-----------------------------------------------------------------------------
(***************************************************************************)
(* The ledger is a BetLedger.                                              *)
(***************************************************************************)

LoadedFirst ==
    pc \in {"evaluate", "size", "ensure", "execute", "record"} => loaded

LEMMA LoadedFirstStep ==
    ASSUME ~ Strikes("load"), ~ Strikes("rows"), LoadedFirst, [Next]_vars
    PROVE  LoadedFirst'
<1>2. CASE Start \/ Tick \/ RefreshPortfolio \/ RefreshFails \/ LoadMarketExposure
             \/ LoadFails \/ LoadLosesRows \/ Stop \/ Crash \/ RecordTrades
  BY <1>2 DEF Start, Tick, RefreshPortfolio, RefreshFails, LoadMarketExposure,
        LoadFails, LoadLosesRows, Stop, Crash, Forget, RecordTrades, LoadedFirst
<1>3. CASE \/ \E batch \in Batches : Evaluate(batch)
           \/ SizeNext \/ SizingDone \/ EnsureMarkets
  BY <1>3 DEF Evaluate, SizeNext, SizingDone, EnsureMarkets, LoadedFirst
<1>4. CASE Skip \/ PostAccepted \/ PostRejected \/ PostReplyLost \/ RecordBet
  BY <1>4 DEF Skip, PostAccepted, PostRejected, PostReplyLost, RecordBet,
              Posting, LoadedFirst
<1>5. CASE UNCHANGED vars
  BY <1>5 DEF vars, LoadedFirst
<1>. QED  BY <1>2, <1>3, <1>4, <1>5 DEF Next

LedgerInv == CapInv /\ MemoryCoversLedger /\ LoadedFirst

(* A recorded bet is a step of BetLedger: the ledger is covered by what the *)
(* process knows, and that fits under the cap.                              *)
LEMMA RecordBetIsBet ==
    ASSUME MarketCapOn, LedgerInv, RecordBet,
           ledger' = Plus(ledger, Bet.sig.market, Bet.amount), Bet.amount > 0
    PROVE  Books!Bet(Bet.sig.market)
<1>. DEFINE m == Bet.sig.market
            cap == MaxMarketExposurePct * portfolio.total
<1>. USE DEF LedgerInv, CapInv
<1>1. pc = "record" /\ sized # << >> /\ UNCHANGED portfolio
  BY DEF RecordBet, TypeOK
<1>2. m \in Markets /\ Bet.amount \in Nat
  BY <1>1, BetTyping DEF TypeOK
<1>3. ledger \in Amounts /\ marketExposure \in Amounts /\ booked \in Amounts
  BY DEF TypeOK
<1>4. ledger[m] \in Nat /\ marketExposure[m] \in Nat /\ booked[m] \in Nat
      /\ cap \in Nat
  BY <1>2, <1>3, RiskConfigAssumption DEF Amounts, TypeOK, PortfolioRecord
<1>5. 100 * (marketExposure[m] + booked[m] + Bet.amount) <= cap
  BY <1>1, HeadFits DEF KnownExposureCapped
<1>6. ledger[m] <= marketExposure[m] + booked[m]
  BY <1>1, <1>2 DEF MemoryCoversLedger, LoadedFirst
<1>7. ledger'[m] = ledger[m] + Bet.amount
      /\ ledger' = [ledger EXCEPT ![m] = ledger'[m]]
  BY <1>2, <1>3 DEF Plus, Amounts
<1>8. 100 * ledger'[m] <= cap
  <2>. HIDE DEF cap, m
  <2>. QED  BY <1>2, <1>4, <1>5, <1>6, <1>7
<1>9. ledger'[m] \in Nat /\ ledger'[m] > ledger[m]
  BY <1>2, <1>4, <1>7
<1>. QED  BY <1>1, <1>7, <1>8, <1>9 DEF Books!Bet

LEMMA LedgerStep ==
    ASSUME MarketCapOn, LedgerInv, TypeOK', [Next]_vars
    PROVE  [Books!Next]_(Books!vars)
<1>. DEFINE cap == MaxMarketExposurePct * portfolio.total
<1>1. cap' \in Nat
  BY RiskConfigAssumption DEF TypeOK, PortfolioRecord
<1>2. CASE UNCHANGED ledger
  BY <1>1, <1>2 DEF Books!Next, Books!Observe
<1>3. CASE RecordBet
  <2>1. sized # << >>
    BY <1>3 DEF RecordBet, LedgerInv, CapInv, TypeOK
  <2>2. /\ Bet.sig.market \in Markets /\ Bet.amount \in Nat
        /\ ledger \in Amounts
    BY <2>1, BetTyping DEF LedgerInv, CapInv, TypeOK
  <2>3. CASE ledger' = Plus(ledger, Bet.sig.market, Bet.amount) /\ Bet.amount > 0
    BY <1>3, <2>2, <2>3, RecordBetIsBet DEF Books!Next
  <2>4. CASE ledger' = Plus(ledger, Bet.sig.market, Bet.amount) /\ Bet.amount = 0
    <3>1. ledger' = ledger
      BY <2>2, <2>4 DEF Plus, Amounts
    <3>. QED  BY <1>2, <3>1
  <2>. QED  BY <1>2, <1>3, <2>2, <2>3, <2>4 DEF RecordBet
<1>4. CASE Start \/ Tick \/ RefreshPortfolio \/ RefreshFails \/ LoadMarketExposure
             \/ LoadFails \/ LoadLosesRows \/ Stop \/ Crash \/ RecordTrades
  BY <1>2, <1>4 DEF Start, Tick, RefreshPortfolio, RefreshFails, LoadMarketExposure,
        LoadFails, LoadLosesRows, Stop, Crash, Forget, RecordTrades, database
<1>5. CASE \/ \E batch \in Batches : Evaluate(batch)
           \/ SizeNext \/ SizingDone \/ EnsureMarkets
  BY <1>2, <1>5 DEF Evaluate, SizeNext, SizingDone, EnsureMarkets, database
<1>6. CASE Skip \/ PostAccepted \/ PostRejected \/ PostReplyLost
  BY <1>2, <1>6 DEF Skip, PostAccepted, PostRejected, PostReplyLost, database
<1>7. CASE UNCHANGED vars
  BY <1>2, <1>7 DEF vars, database
<1>. QED  BY <1>3, <1>4, <1>5, <1>6, <1>7 DEF Next

(* With a market cap configured and an exposure that can be loaded, the     *)
(* unresolved bets of the database are a BetLedger: across restarts,        *)
(* crashes, refused rows and lost replies no bet is recorded that takes its *)
(* market over the cap (SizeSignals, loadMarketExposure, recordBet).        *)
THEOREM LedgerImplemented ==
    ASSUME MarketCapOn, Faults \cap {"load", "rows"} = {}
    PROVE  Spec => ImplementsBetLedger
<1>1. Init => Books!Init
  <2>. SUFFICES ASSUME Init  PROVE Books!Init
    OBVIOUS
  <2>1. MaxMarketExposurePct * portfolio.total = 0
    BY RiskConfigAssumption DEF Init, NewPortfolio
  <2>. QED  BY <2>1 DEF Init, Books!Init, Nothing
<1>2. Init => LedgerInv
  <2>1. Init => ApprovedBetsFit
    BY DEF Init, ApprovedBetsFit, ApprovedUnderCap, ApprovedInOrder,
           ApprovedAfterBooked, ApprovedCounted
  <2>2. Init => Phases /\ MemoryCoversLedger /\ LoadedFirst
    BY DEF Init, Phases, MemoryCoversLedger, LoadedFirst
  <2>. QED  BY <2>1, <2>2, TypeInit DEF LedgerInv, CapInv
<1>3. LedgerInv /\ [Next]_vars => LedgerInv'
  <2>1. ~ Strikes("load") /\ ~ Strikes("rows")
    BY DEF Strikes
  <2>. QED
    BY <2>1, TypeStep, PhasesStep, FitStep, CoverStep, LoadedFirstStep
       DEF LedgerInv, CapInv, CoverInv
<1>4. LedgerInv /\ LedgerInv' /\ [Next]_vars => [Books!Next]_(Books!vars)
  BY LedgerStep DEF LedgerInv, CapInv
<1>. QED
  BY <1>1, <1>2, <1>3, <1>4, PTL DEF Spec, ImplementsBetLedger, Books!Spec

-----------------------------------------------------------------------------
(***************************************************************************)
(* The blacklist and the record of the bets.                               *)
(***************************************************************************)

(* A key with three failures in a row, or one for good, keeps its mark as   *)
(* long as the process lives: it is skipped before anything could reset it  *)
(* (executeSingle).                                                         *)
THEOREM BlacklistAlwaysHolds == Spec => BlacklistHolds
<1>1. TypeOK /\ [Next]_vars => [FailuresKept]_vars
  <2>. SUFFICES ASSUME TypeOK, [Next]_vars, NEW k \in Keys, Blacklisted(k)
                PROVE  failedBets'[k] = failedBets[k] \/ pc' = "down"
    BY DEF FailuresKept
  <2>1. CASE failedBets' = failedBets \/ pc' = "down"
    BY <2>1
  <2>2. CASE PostAccepted \/ PostRejected \/ PostReplyLost
    <3>1. Key(Bet.sig) # k
      BY <2>2 DEF PostAccepted, PostRejected, PostReplyLost, Posting
    <3>2. \E n : failedBets' = [failedBets EXCEPT ![Key(Bet.sig)] = n]
      BY <2>2 DEF PostAccepted, PostRejected, PostReplyLost
    <3>3. failedBets'[k] = failedBets[k]
      <4>. HIDE DEF Key
      <4>. QED  BY <3>1, <3>2 DEF TypeOK
    <3>. QED  BY <3>3
  <2>3. CASE ~ (PostAccepted \/ PostRejected \/ PostReplyLost)
    BY <2>1, <2>3
       DEF Next, vars, Start, Tick, RefreshPortfolio, RefreshFails, LoadMarketExposure,
           LoadFails, LoadLosesRows, Evaluate, SizeNext, SizingDone, EnsureMarkets, Skip,
           RecordBet, RecordTrades, Stop, Crash, Forget
  <2>. QED  BY <2>2, <2>3
<1>. QED  BY <1>1, TypeCorrect, PTL DEF Spec, BlacklistHolds

(* No step takes a fault back. *)
LEMMA FaultsGrow ==
    ASSUME TypeOK, [Next]_vars
    PROVE  faults <= faults'
<1>1. faults \in Int
  BY DEF TypeOK
<1>2. ASSUME NEW kind, Strikes(kind)
      PROVE  faults <= faults'
  BY <1>1, <1>2 DEF Strikes
<1>3. CASE Start \/ RefreshPortfolio
  BY <1>1, <1>2, <1>3 DEF Start, RefreshPortfolio, Refreshed, NoFault
<1>4. CASE Tick \/ RefreshFails \/ LoadMarketExposure \/ LoadFails \/ LoadLosesRows
  BY <1>1, <1>2, <1>4
     DEF Tick, RefreshFails, LoadMarketExposure, LoadFails, LoadLosesRows, NoFault
<1>5. CASE (\E batch \in Batches : Evaluate(batch)) \/ SizeNext \/ SizingDone
  BY <1>1, <1>5 DEF Evaluate, SizeNext, SizingDone
<1>6. CASE EnsureMarkets \/ Skip \/ PostAccepted \/ PostRejected \/ PostReplyLost
  BY <1>1, <1>2, <1>6
     DEF EnsureMarkets, Skip, PostAccepted, PostRejected, PostReplyLost, NoFault
<1>7. CASE RecordBet \/ RecordTrades \/ Stop \/ Crash
  BY <1>1, <1>2, <1>7 DEF RecordBet, RecordTrades, Stop, Crash, NoFault
<1>8. CASE UNCHANGED vars
  BY <1>1, <1>8 DEF vars
<1>. QED
  BY <1>3, <1>4, <1>5, <1>6, <1>7, <1>8 DEF Next

(* Every bet so far is recorded, and the markets of the queued ones are in  *)
(* the database, so that the foreign key lets their rows in.                *)
Recorded ==
    /\ unrecorded = Nothing
    /\ pc \in {"execute", "record"} =>
          \A i \in DOMAIN sized : sized[i].sig.market \in knownMarkets

RecordedInv == faults = 0 => Recorded

LEMMA RecordedStep ==
    ASSUME TypeOK, RecordedInv, [Next]_vars
    PROVE  RecordedInv'
<1>. SUFFICES ASSUME faults' = 0
              PROVE  Recorded'
  BY DEF RecordedInv
<1>0. faults = 0 /\ Recorded
  BY FaultsGrow DEF TypeOK, RecordedInv
<1>. USE <1>0 DEF Recorded
<1>1. /\ ~ Strikes("ensure") /\ ~ Strikes("record")
      /\ ~ Strikes("lost") /\ ~ Strikes("crash")
  BY DEF Strikes
<1>2. CASE Start \/ Tick \/ RefreshPortfolio \/ RefreshFails \/ LoadMarketExposure
             \/ LoadFails \/ LoadLosesRows
  BY <1>2 DEF Start, Tick, RefreshPortfolio, RefreshFails, LoadMarketExposure,
              LoadFails, LoadLosesRows
<1>3. CASE (\E batch \in Batches : Evaluate(batch)) \/ SizeNext \/ SizingDone
  BY <1>3 DEF Evaluate, SizeNext, SizingDone
<1>4. CASE EnsureMarkets
  BY <1>1, <1>4 DEF EnsureMarkets, SizedMarkets, pass
<1>5. CASE PostAccepted
  BY <1>5 DEF PostAccepted, Posting, pass, database
<1>6. CASE Skip \/ PostRejected \/ RecordBet
  <2>1. sized # << >> /\ sized' = Tail(sized) /\ pc \in {"execute", "record"}
        /\ knownMarkets' = knownMarkets
    BY <1>6 DEF Skip, PostRejected, RecordBet, Posting, TypeOK, database
  <2>2. /\ 1 \in DOMAIN sized /\ Bet = sized[1]
        /\ \A i \in DOMAIN sized' : i + 1 \in DOMAIN sized /\ sized'[i] = sized[i + 1]
    BY <2>1, TailElements DEF Bet, TypeOK
  <2>3. unrecorded' = unrecorded
    BY <1>1, <1>6, <2>1, <2>2 DEF Skip, PostRejected, RecordBet
  <2>. QED  BY <2>1, <2>2, <2>3
<1>7. CASE PostReplyLost \/ Crash
  BY <1>1, <1>7 DEF PostReplyLost, Crash
<1>8. CASE RecordTrades \/ Stop
  BY <1>8 DEF RecordTrades, Stop, Forget
<1>9. CASE UNCHANGED vars
  BY <1>9 DEF vars, pass, database
<1>. QED
  BY <1>2, <1>3, <1>4, <1>5, <1>6, <1>7, <1>8, <1>9 DEF Next

(* When no service failed and the process was only ever stopped between     *)
(* two cycles, each bet on Manifold has its row: EnsureMarketExists has put *)
(* every market there in time (recordBet).                                  *)
THEOREM EveryBetAlwaysRecorded == Spec => []RecordedUnlessFault
<1>1. Init => RecordedInv
  BY DEF Init, RecordedInv, Recorded
<1>2. TypeOK /\ RecordedInv /\ [Next]_vars => RecordedInv'
  BY RecordedStep
<1>3. RecordedInv => RecordedUnlessFault
  BY DEF RecordedInv, Recorded, RecordedUnlessFault, Nothing
<1>. QED  BY <1>1, <1>2, <1>3, TypeCorrect, PTL DEF Spec

-----------------------------------------------------------------------------
(***************************************************************************)
(* The cap on what is truly bet.                                           *)
(***************************************************************************)
TrueInv == CapInv /\ MemoryCoversLedger /\ RecordedInv /\ (faults = 0 => LoadedFirst)

LEMMA TrueStep == TrueInv /\ [Next]_vars => TrueInv'
<1>. SUFFICES ASSUME TrueInv, [Next]_vars  PROVE TrueInv'
  OBVIOUS
<1>1. CapInv' /\ MemoryCoversLedger' /\ RecordedInv'
  BY TypeStep, PhasesStep, FitStep, CoverStep, RecordedStep
     DEF TrueInv, CapInv, CoverInv
<1>2. ASSUME faults' = 0
      PROVE  LoadedFirst'
  <2>1. faults = 0 /\ LoadedFirst
    BY <1>2, FaultsGrow DEF TrueInv, CapInv, TypeOK
  <2>2. ~ Strikes("load") /\ ~ Strikes("rows")
    BY <1>2, <2>1 DEF Strikes
  <2>. QED  BY <2>1, <2>2, LoadedFirstStep
<1>. QED  BY <1>1, <1>2 DEF TrueInv

(* Until the first fault, a bet just accepted leaves all mana bet in its    *)
(* market within the cap, the bets of earlier processes included: they are  *)
(* rows, the rows are loaded, and a bet fits on top of what was loaded      *)
(* (recordBet, loadMarketExposure, SizeSignals).                            *)
THEOREM CappedAlwaysUnlessFault ==
    ASSUME MarketCapOn
    PROVE  Spec => []CappedUnlessFault
<1>1. Init => TrueInv
  <2>1. Init => Phases /\ ApprovedBetsFit
    BY DEF Init, Phases, ApprovedBetsFit, ApprovedUnderCap, ApprovedInOrder,
           ApprovedAfterBooked, ApprovedCounted
  <2>2. Init => MemoryCoversLedger /\ RecordedInv /\ LoadedFirst
    BY DEF Init, MemoryCoversLedger, RecordedInv, Recorded, LoadedFirst
  <2>. QED  BY <2>1, <2>2, TypeInit DEF TrueInv, CapInv
<1>2. TrueInv => CappedUnlessFault
  <2>. SUFFICES ASSUME TrueInv, faults = 0, pc = "record"
                PROVE  100 * (ledger[Bet.sig.market] + unrecorded[Bet.sig.market]
                                 + Bet.amount)
                          <= MaxMarketExposurePct * portfolio.total
    BY DEF CappedUnlessFault, MarketExposureCapped
  <2>. DEFINE m == Bet.sig.market
              cap == MaxMarketExposurePct * portfolio.total
  <2>. USE DEF TrueInv, CapInv
  <2>1. sized # << >> /\ loaded
    BY DEF TypeOK, LoadedFirst
  <2>2. m \in Markets /\ Bet.amount \in Nat
    BY <2>1, BetTyping DEF TypeOK
  <2>3. /\ ledger[m] \in Nat /\ marketExposure[m] \in Nat /\ booked[m] \in Nat
        /\ cap \in Nat
    BY <2>2, RiskConfigAssumption DEF Amounts, TypeOK, PortfolioRecord
  <2>4. unrecorded[m] = 0
    BY <2>2 DEF RecordedInv, Recorded, Nothing
  <2>5. 100 * (marketExposure[m] + booked[m] + Bet.amount) <= cap
    BY <2>1, HeadFits DEF KnownExposureCapped
  <2>6. ledger[m] <= marketExposure[m] + booked[m]
    BY <2>1, <2>2 DEF MemoryCoversLedger
  <2>7. 100 * (ledger[m] + unrecorded[m] + Bet.amount) <= cap
    <3>. HIDE DEF cap, m
    <3>. QED  BY <2>2, <2>3, <2>4, <2>5, <2>6
  <2>. QED  BY <2>7
<1>. QED  BY <1>1, <1>2, TrueStep, PTL DEF Spec

=============================================================================
