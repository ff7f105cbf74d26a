----------------------- MODULE DrawdownBreakerProofs ------------------------
(***************************************************************************)
(* What DrawdownBreaker promises, for every account, every sequence of its *)
(* changes, and any number of cycles, failed reads and restarts.           *)
(***************************************************************************)
EXTENDS DrawdownBreaker, TLAPS

-----------------------------------------------------------------------------
(* The larger of two numbers. *)
LEMMA GreaterFacts ==
    ASSUME NEW a \in Nat, NEW b \in Nat
    PROVE  Greater(a, b) \in Nat /\ Greater(a, b) >= a /\ Greater(a, b) >= b
           /\ (Greater(a, b) = a \/ Greater(a, b) = b)
BY DEF Greater

(* Distance is the least error that covers both directions. *)
LEMMA DistanceFacts ==
    ASSUME NEW a \in Nat, NEW b \in Nat
    PROVE  /\ Distance(a, b) \in Nat
           /\ a <= b + Distance(a, b) /\ b <= a + Distance(a, b)
           /\ \A d \in Nat : a <= b + d /\ b <= a + d => Distance(a, b) <= d
BY DEF Distance

(* A multiple grows with its factor. *)
LEMMA TimesMonotone ==
    ASSUME NEW k \in Nat, NEW a \in Int, NEW b \in Int, a <= b
    PROVE  k * a \in Int /\ k * b \in Int /\ k * a <= k * b
OBVIOUS

(* The limit is a percentage. *)
LEMMA Limit ==
    MaxDrawdownPct \in Nat /\ 100 - MaxDrawdownPct \in Nat
<1>1. MaxDrawdownPct \in Nat
  BY RiskConfigAssumption
<1>2. MaxDrawdownPct <= 100
  BY LimitAssumption
<1>. QED  BY <1>1, <1>2

(* What is down from a level is down from a higher one. *)
LEMMA DownFromHigher ==
    ASSUME NEW low \in Nat, NEW a \in Nat, NEW b \in Nat, a <= b, Down(low, a)
    PROVE  Down(low, b)
BY Limit, TimesMonotone DEF Down

(* A drawdown of the limit from the peak is a fall to what is left of it. *)
LEMMA InDrawdownIsDown ==
    ASSUME NEW total \in Nat, NEW peak \in Nat
    PROVE  InDrawdown(total, peak) <=> peak > 0 /\ Down(total, peak)
<1>1. (100 - MaxDrawdownPct) * peak = 100 * peak - MaxDrawdownPct * peak
  BY Limit
<1>2. MaxDrawdownPct * peak \in Nat
  BY Limit
<1>. QED  BY <1>1, <1>2 DEF InDrawdown, Down



-----------------------------------------------------------------------------
(* A change of the account changes nothing else, and the ghosts follow it.  *)
LEMMA MoveFacts ==
    ASSUME TypeOK, NEW c \in Int, NEW i \in Int, Move(c, i)
    PROVE  /\ {cash', invested', moves', highest'} \subseteq Nat
           /\ sunk' \in BOOLEAN
           /\ highest' >= highest /\ Worth' <= highest'
           /\ sunk => sunk'
           /\ Down(Worth', highest') => sunk'
<1>1. {c, i} \subseteq Nat /\ highest' = Greater(highest, c + i)
  BY DEF Move
<1>2. highest \in Nat /\ c + i \in Nat
  BY <1>1 DEF TypeOK
<1>3. highest' \in Nat /\ highest' >= highest /\ highest' >= c + i
  BY <1>1, <1>2, GreaterFacts
<1>4. Worth' = c + i /\ sunk' = (sunk \/ Down(Worth', highest')) /\ moves' = moves + 1
  BY DEF Move, Worth
<1>5. {cash', invested', moves'} \subseteq Nat /\ sunk' \in BOOLEAN
  BY <1>1, <1>4 DEF Move, TypeOK
<1>. QED  BY <1>1, <1>3, <1>4, <1>5

(* What a change of the account between the steps of the bot does. *)
LEMMA AccountFacts ==
    ASSUME TypeOK, AccountChanges
    PROVE  /\ {cash', invested', moves', highest', drift'} \subseteq Nat
           /\ sunk' \in BOOLEAN
           /\ highest' >= highest /\ Worth' <= highest'
           /\ sunk => sunk'
           /\ Down(Worth', highest') => sunk'
           /\ drift' = IF pc = "portfolio" THEN drift + Distance(cash, cash')
                                           ELSE drift
           /\ UNCHANGED <<pc, starting, portfolio, peakBalance, snapshots, reads>>
<1>1. PICK n \in Steps : \/ Move(cash - n, invested + n)
                         \/ Move(cash + n, invested - n)
                         \/ Move(cash, invested + n)
                         \/ Move(cash, invested - n)
  BY DEF AccountChanges
<1>2. n \in Nat /\ cash \in Nat /\ invested \in Nat
  BY BreakerAssumption DEF TypeOK
<1>3. /\ {cash', invested', moves', highest'} \subseteq Nat
      /\ sunk' \in BOOLEAN
      /\ highest' >= highest /\ Worth' <= highest'
      /\ sunk => sunk'
      /\ Down(Worth', highest') => sunk'
  BY <1>1, <1>2, MoveFacts
<1>4. drift' \in Nat
  <2>1. cash' \in Nat /\ drift \in Nat
    BY <1>3 DEF TypeOK
  <2>2. Distance(cash, cash') \in Nat
    BY <1>2, <2>1, DistanceFacts
  <2>. QED  BY <2>1, <2>2 DEF AccountChanges
<1>. QED  BY <1>3, <1>4 DEF AccountChanges

(* What the bets of a cycle do to the account. *)
LEMMA TradeFacts ==
    ASSUME TypeOK, Trade
    PROVE  /\ {cash', invested', moves', highest'} \subseteq Nat
           /\ sunk' \in BOOLEAN
           /\ highest' >= highest /\ (Worth <= highest => Worth' <= highest')
           /\ sunk => sunk'
           /\ (Down(Worth, highest) => sunk) => (Down(Worth', highest') => sunk')
           /\ pc = "trade" /\ pc' = "snapshot"
           /\ UNCHANGED <<starting, portfolio, peakBalance, snapshots, drift, reads>>
<1>1. CASE UNCHANGED account
  BY <1>1 DEF Trade, account, TypeOK, Worth
<1>2. CASE \E n \in Steps : Move(cash - n, invested + n)
  <2>1. PICK n \in Steps : Move(cash - n, invested + n)
    BY <1>2
  <2>2. cash - n \in Int /\ invested + n \in Int
    BY BreakerAssumption DEF TypeOK
  <2>. QED  BY <2>1, <2>2, MoveFacts DEF Trade
<1>. QED  BY <1>1, <1>2 DEF Trade

(* What the outcomes of the two reads make of a portfolio. *)
LEMMA PortfolioOutcomes ==
    ASSUME NEW pf \in PortfolioRecord, NEW n \in Nat
    PROVE  /\ WithBalance(pf, n) \in PortfolioRecord
           /\ WithBalance(pf, n).balance = n /\ WithBalance(pf, n).total = pf.total
           /\ WithInvestment(pf, n) \in PortfolioRecord
           /\ WithInvestment(pf, n).total = pf.balance + n
           /\ WithoutInvestment(pf) \in PortfolioRecord
           /\ NilInvestment(pf) \in PortfolioRecord
           /\ NewPortfolio \in PortfolioRecord /\ NewPortfolio.total = 0
           /\ pf.balance \in Nat /\ pf.total \in Nat
<1>1. pf.balance \in Nat /\ pf.total \in Nat /\ pf.investment \in Nat
  BY DEF PortfolioRecord
<1>2. /\ WithBalance(pf, n) \in PortfolioRecord
      /\ WithBalance(pf, n).balance = n /\ WithBalance(pf, n).total = pf.total
  BY DEF PortfolioRecord, WithBalance
<1>3. /\ WithInvestment(pf, n) \in PortfolioRecord
      /\ WithInvestment(pf, n).total = pf.balance + n
  <2>1. pf.balance + n \in Nat
    BY <1>1
  <2>. QED  BY <1>1, <2>1 DEF PortfolioRecord, WithInvestment
<1>4. WithoutInvestment(pf) \in PortfolioRecord
  BY <1>1 DEF PortfolioRecord, WithoutInvestment
<1>5. NewPortfolio \in PortfolioRecord /\ NewPortfolio.total = 0
  BY DEF PortfolioRecord, NewPortfolio
<1>. QED  BY <1>1, <1>2, <1>3, <1>4, <1>5 DEF NilInvestment

(* The three outcomes of the second read. *)
LEMMA ReadFacts ==
    ASSUME TypeOK, ReadPortfolio
    PROVE  /\ portfolio' \in PortfolioRecord
           /\ {worthRead', slip', maxDrift'} \subseteq Nat
           /\ slip' >= slip /\ maxDrift' >= maxDrift /\ maxDrift' >= drift
           /\ worthRead' = Worth /\ worthRead' \in Nat
           /\ portfolio'.total <= worthRead' + slip'
           /\ worthRead' <= portfolio'.total + slip'
           /\ slip' = slip \/ slip' = Distance(portfolio'.total, Worth)
           /\ exact' => exact /\ portfolio'.total = worthRead'
           /\ complete' => complete /\ portfolio'.total = portfolio.balance + invested
           /\ {exact', complete'} \subseteq BOOLEAN
<1>. portfolio \in PortfolioRecord /\ invested \in Nat
  BY DEF TypeOK
<1>1. portfolio' \in PortfolioRecord
  BY PortfolioOutcomes DEF ReadPortfolio
<1>2. portfolio'.total \in Nat /\ Worth \in Nat /\ {slip, maxDrift, drift} \subseteq Nat
  BY <1>1 DEF PortfolioRecord, TypeOK, Worth
<1>3. /\ Distance(portfolio'.total, Worth) \in Nat
      /\ portfolio'.total <= Worth + Distance(portfolio'.total, Worth)
      /\ Worth <= portfolio'.total + Distance(portfolio'.total, Worth)
  BY <1>2, DistanceFacts
<1>4. /\ worthRead' = Worth
      /\ slip' = Greater(slip, Distance(portfolio'.total, Worth))
      /\ maxDrift' = Greater(maxDrift, drift)
      /\ exact' = (exact /\ portfolio'.total = Worth)
  BY DEF ReadPortfolio
<1>5. /\ slip' \in Nat /\ slip' >= slip
      /\ slip' >= Distance(portfolio'.total, Worth)
      /\ slip' = slip \/ slip' = Distance(portfolio'.total, Worth)
      /\ maxDrift' \in Nat /\ maxDrift' >= maxDrift /\ maxDrift' >= drift
  BY <1>2, <1>3, <1>4, GreaterFacts
<1>6. /\ complete' => complete /\ portfolio'.total = portfolio.balance + invested
      /\ complete' \in BOOLEAN
  <2>1. complete \in BOOLEAN
    BY DEF TypeOK
  <2>2. CASE portfolio' = WithInvestment(portfolio, invested) /\ UNCHANGED complete
    BY <2>1, <2>2, PortfolioOutcomes
  <2>3. CASE complete' = FALSE
    BY <2>3
  <2>. QED  BY <2>2, <2>3 DEF ReadPortfolio
<1>7. exact' => exact /\ portfolio'.total = worthRead'
  BY <1>4
<1>8. exact' \in BOOLEAN
  BY <1>4 DEF TypeOK
<1>. QED  BY <1>1, <1>2, <1>3, <1>4, <1>5, <1>6, <1>7, <1>8

-----------------------------------------------------------------------------
(***************************************************************************)
(* Types.                                                                  *)
(***************************************************************************)
LEMMA TypeInit == ASSUME Init PROVE TypeOK
<1>1. cash \in Nat /\ invested \in Nat /\ Worth \in Nat
  BY BreakerAssumption DEF Init, Worth
<1>2. NewPortfolio \in PortfolioRecord
  BY DEF NewPortfolio, PortfolioRecord
<1>3. sunk \in BOOLEAN
  BY DEF Init, Down
<1>4. snapshots \in Seq(Nat)
  BY DEF Init
<1>. QED  BY <1>1, <1>2, <1>3, <1>4 DEF Init, TypeOK

(* Every step keeps the types. *)
LEMMA TypeStep ==
    ASSUME TypeOK, [Next]_vars
    PROVE  TypeOK'
<1>1. CASE AccountChanges
  BY <1>1, AccountFacts DEF TypeOK, reads
<1>2. CASE Start
  BY <1>2 DEF Start, TypeOK, account, reads
<1>3. CASE ReadUser
  <2>1. portfolio' \in PortfolioRecord
    BY <1>3, PortfolioOutcomes DEF ReadUser, TypeOK
  <2>. QED  BY <1>3, <2>1 DEF ReadUser, TypeOK, account, reads
<1>. NewPortfolio \in PortfolioRecord
  BY DEF NewPortfolio, PortfolioRecord
<1>4. CASE UserFails
  <2>1. CASE starting
    BY <1>4, <2>1 DEF UserFails, Forget, TypeOK, account
  <2>2. CASE ~ starting
    BY <1>4, <2>2 DEF UserFails, TypeOK, account, reads
  <2>. QED  BY <2>1, <2>2
<1>5. CASE ReadPortfolio
  <2>1. portfolio'.total \in Nat /\ peakBalance \in Nat /\ seen \in Nat /\ Worth \in Nat
    BY <1>5, ReadFacts DEF PortfolioRecord, TypeOK, Worth
  <2>2. /\ peakBalance' \in Nat /\ seen' \in Nat
        /\ pc' = "decide" => peakBalance' >= portfolio'.total
        /\ pc' \in {"snapshot", "decide"}
    BY <1>5, <2>1, GreaterFacts DEF ReadPortfolio, NewPeak
  <2>. QED  BY <1>5, <2>2, ReadFacts DEF ReadPortfolio, TypeOK, account
<1>6. CASE Decide
  BY <1>6 DEF Decide, TypeOK, account, reads
<1>7. CASE Trade
  BY <1>7, TradeFacts DEF TypeOK, reads
<1>8. CASE SnapshotBankroll
  <2>1. portfolio.total \in Nat
    BY DEF TypeOK, PortfolioRecord
  <2>2. snapshots' \in Seq(Nat)
    <3>1. snapshots \in Seq(Nat)
      BY DEF TypeOK
    <3>2. snapshots' = snapshots \/ snapshots' = Append(snapshots, portfolio.total)
      BY <1>8 DEF SnapshotBankroll, SnapshotValue
    <3>. QED  BY <2>1, <3>1, <3>2
  <2>. QED  BY <1>8, <2>2 DEF SnapshotBankroll, TypeOK, account, reads
<1>9. CASE Tick
  BY <1>9 DEF Tick, TypeOK, account, reads
<1>10. CASE Stop
  BY <1>10 DEF Stop, Forget, TypeOK, account, reads
<1>11. CASE UNCHANGED vars
  BY <1>11 DEF vars, TypeOK, account, reads
<1>. QED
  BY <1>1, <1>2, <1>3, <1>4, <1>5, <1>6, <1>7, <1>8, <1>9, <1>10, <1>11 DEF Next

(* Every variable keeps its type, and the peak is never under the value it  *)
(* is compared with (Manager.Refresh).                                      *)
THEOREM TypeCorrect == Spec => []TypeOK
BY TypeInit, TypeStep, PTL DEF Spec

-----------------------------------------------------------------------------
(***************************************************************************)
(* The reads.  What the bot takes the account to be worth is off by no     *)
(* more than slip, and so is the peak, which is the largest of its reads;  *)
(* a cycle that bets compared these two.                                   *)
(***************************************************************************)
Reads ==
    /\ portfolio.total <= worthRead + slip
    /\ worthRead <= portfolio.total + slip
    /\ worthRead <= highest /\ Worth <= highest
    /\ peakBalance <= highest + slip
    /\ seen <= peakBalance + slip
    /\ pc = "portfolio" =>
          portfolio.balance <= cash + drift /\ cash <= portfolio.balance + drift
    /\ complete => slip <= maxDrift
    /\ pc = "trade" => portfolio.total > 0 /\ ~ Halted

(* Before the first read there is no error. *)
LEMMA ReadsInit == ASSUME Init, TypeOK PROVE Reads
BY DEF Init, TypeOK, Reads, Worth, NewPortfolio

(* A read adds its error to slip, and the larger of two values to the peak. *)
LEMMA ReadsRead ==
    ASSUME TypeOK, TypeOK', Reads, ReadPortfolio
    PROVE  Reads'
<1>1. /\ portfolio.total \in Nat /\ portfolio'.total \in Nat
      /\ portfolio.balance \in Nat
  BY DEF TypeOK, PortfolioRecord
<1>2. /\ {worthRead, slip, maxDrift, highest, seen, peakBalance, drift} \subseteq Nat
      /\ {worthRead', slip', maxDrift', highest', seen', peakBalance'} \subseteq Nat
      /\ {cash, invested} \subseteq Nat
  BY DEF TypeOK
<1>3. /\ portfolio'.total <= worthRead' + slip' /\ worthRead' <= portfolio'.total + slip'
      /\ slip' >= slip /\ worthRead' = Worth
  BY ReadFacts
<1>4. UNCHANGED <<highest, cash, invested>> /\ Worth' = Worth
  BY DEF ReadPortfolio, account, Worth
<1>5. worthRead' <= highest' /\ Worth' <= highest'
  BY <1>3, <1>4 DEF Reads
<1>6. peakBalance' <= highest' + slip'
  <2>1. CASE UNCHANGED peakBalance
    BY <2>1, <1>2, <1>3, <1>4 DEF Reads
  <2>2. CASE peakBalance' = Greater(peakBalance, portfolio'.total)
    BY <2>2, <1>1, <1>2, <1>3, <1>4, <1>5 DEF Reads, Greater
  <2>. QED  BY <2>1, <2>2 DEF ReadPortfolio, NewPeak
<1>7. seen' <= peakBalance' + slip'
  <2>1. CASE UNCHANGED <<peakBalance, seen>>
    BY <2>1, <1>2, <1>3 DEF Reads
  <2>2. CASE /\ peakBalance' = Greater(peakBalance, portfolio'.total)
             /\ seen' = Greater(seen, Worth)
    <3>1. peakBalance' >= peakBalance /\ peakBalance' >= portfolio'.total
      BY <2>2, <1>1, <1>2 DEF Greater
    <3>. QED  BY <2>2, <3>1, <1>1, <1>2, <1>3 DEF Reads, Greater
  <2>. QED  BY <2>1, <2>2 DEF ReadPortfolio, NewPeak
<1>8. complete' => slip' <= maxDrift'
  <2>1. SUFFICES ASSUME complete' PROVE slip' <= maxDrift'
    OBVIOUS
  <2>2. /\ complete /\ portfolio'.total = portfolio.balance + invested
        /\ maxDrift' >= maxDrift /\ maxDrift' >= drift
        /\ slip' = slip \/ slip' = Distance(portfolio'.total, Worth)
    BY <2>1, ReadFacts
  <2>3. slip <= maxDrift
    BY <2>2 DEF Reads
  <2>4. Distance(portfolio'.total, Worth) <= drift
    <3>1. portfolio.balance <= cash + drift /\ cash <= portfolio.balance + drift
      BY DEF Reads, ReadPortfolio
    <3>2. Worth \in Nat /\ portfolio'.total <= Worth + drift
          /\ Worth <= portfolio'.total + drift
      BY <3>1, <2>2, <1>1, <1>2 DEF Worth
    <3>. QED  BY <3>2, <1>1, <1>2, DistanceFacts
  <2>. QED  BY <2>2, <2>3, <2>4, <1>2
<1>9. pc' \in {"snapshot", "decide"}
  BY DEF ReadPortfolio
<1>. QED  BY <1>3, <1>5, <1>6, <1>7, <1>8, <1>9 DEF Reads

(* A new process starts without errors. *)
LEMMA ReadsForget ==
    ASSUME TypeOK, TypeOK', Reads, Forget
    PROVE  Reads'
BY DEF Forget, Reads, TypeOK, NewPortfolio, account, Worth

(* Every step keeps the bounds of the errors. *)
LEMMA ReadsStep ==
    ASSUME TypeOK, TypeOK', Reads, [Next]_vars
    PROVE  Reads'
<1>1. CASE AccountChanges
  <2>1. /\ UNCHANGED <<pc, portfolio, peakBalance, reads>>
        /\ highest' >= highest /\ Worth' <= highest'
        /\ drift' = IF pc = "portfolio" THEN drift + Distance(cash, cash') ELSE drift
    BY <1>1, AccountFacts
  <2>2. pc = "portfolio" => /\ portfolio.balance <= cash' + drift'
                            /\ cash' <= portfolio.balance + drift'
    <3>1. /\ {cash, cash', drift} \subseteq Nat /\ portfolio.balance \in Nat
      BY DEF TypeOK, PortfolioRecord
    <3>2. /\ Distance(cash, cash') \in Nat
          /\ cash <= cash' + Distance(cash, cash')
          /\ cash' <= cash + Distance(cash, cash')
      BY <3>1, DistanceFacts
    <3>. QED  BY <2>1, <3>1, <3>2 DEF Reads
  <2>3. Halted' = Halted
    BY <2>1 DEF Halted
  <2>. QED  BY <2>1, <2>2, <2>3 DEF Reads, TypeOK, reads
<1>2. CASE Start
  BY <1>2 DEF Start, Reads, account, reads, Worth, Halted
<1>3. CASE ReadUser
  <2>1. portfolio'.balance = cash /\ portfolio'.total = portfolio.total
    BY <1>3, PortfolioOutcomes DEF ReadUser, TypeOK
  <2>. QED  BY <1>3, <2>1 DEF ReadUser, Reads, TypeOK, account, reads, Worth
<1>4. CASE UserFails
  <2>1. CASE starting
    BY <1>4, <2>1, ReadsForget DEF UserFails
  <2>2. CASE ~ starting
    BY <1>4, <2>2 DEF UserFails, Reads, account, reads, Worth, Halted
  <2>. QED  BY <2>1, <2>2
<1>5. CASE ReadPortfolio
  BY <1>5, ReadsRead
<1>6. CASE Decide
  BY <1>6 DEF Decide, Reads, account, reads, Worth, Halted
<1>7. CASE Trade
  <2>1. /\ UNCHANGED <<portfolio, peakBalance, reads>>
        /\ highest' >= highest /\ Worth' <= highest'
        /\ pc' = "snapshot"
    BY <1>7, TradeFacts DEF Reads
  <2>. QED  BY <2>1 DEF Reads, TypeOK, reads
<1>8. CASE SnapshotBankroll
  BY <1>8 DEF SnapshotBankroll, Reads, account, reads, Worth
<1>9. CASE Tick
  BY <1>9 DEF Tick, Reads, account, reads, Worth
<1>10. CASE Stop
  BY <1>10, ReadsForget DEF Stop
<1>11. CASE UNCHANGED vars
  BY <1>11 DEF vars, Reads, account, reads, Worth, Halted
<1>. QED
  BY <1>1, <1>2, <1>3, <1>4, <1>5, <1>6, <1>7, <1>8, <1>9, <1>10, <1>11 DEF Next

(* Peak and value are within the errors of the reads of what the account    *)
(* was (Portfolio.Refresh, Manager.Refresh).                                *)
THEOREM ReadsInvariant == Spec => []Reads
<1>1. Init => TypeOK /\ Reads
  BY TypeInit, ReadsInit
<1>2. TypeOK /\ Reads /\ [Next]_vars => TypeOK' /\ Reads'
  BY TypeStep, ReadsStep
<1>. QED  BY <1>1, <1>2, PTL DEF Spec

(* As long as every read brings the portfolio, the bot is wrong about the   *)
(* account by at most the cash that moved between its two requests          *)
(* (Portfolio.Refresh).                                                     *)
THEOREM ReadErrorAlwaysBounded == Spec => []ReadErrorBounded
<1>1. Reads => ReadErrorBounded
  BY DEF Reads, ReadErrorBounded
<1>. QED  BY <1>1, ReadsInvariant, PTL

(* The breaker halts on a loss only: an account that never was down by the  *)
(* limit, but for the errors of its reads, is never halted (CanTrade).      *)
THEOREM HaltAlwaysMeansLoss == Spec => []HaltMeansLoss
<1>1. TypeOK /\ Reads => HaltMeansLoss
  <2>1. SUFFICES ASSUME TypeOK, Reads, Halted
                 PROVE  100 * (worthRead - slip) <= (100 - MaxDrawdownPct) * (highest + slip)
    BY DEF HaltMeansLoss
  <2>2. /\ portfolio.total \in Nat
        /\ {worthRead, slip, highest, peakBalance} \subseteq Nat
    BY <2>1 DEF TypeOK, PortfolioRecord
  <2>3. 100 * portfolio.total <= (100 - MaxDrawdownPct) * peakBalance
    BY <2>1, <2>2, InDrawdownIsDown DEF Halted, Down
  <2>4. peakBalance <= highest + slip /\ worthRead - slip <= portfolio.total
    BY <2>1, <2>2 DEF Reads
  <2>5. /\ (100 - MaxDrawdownPct) * peakBalance
              <= (100 - MaxDrawdownPct) * (highest + slip)
        /\ (100 - MaxDrawdownPct) * peakBalance \in Int
        /\ (100 - MaxDrawdownPct) * (highest + slip) \in Int
    BY <2>2, <2>4, Limit, TimesMonotone
  <2>. QED  BY <2>2, <2>3, <2>4, <2>5
<1>. QED  BY <1>1, TypeCorrect, ReadsInvariant, PTL

(* No cycle bets while the account is down by the limit from what any cycle *)
(* of this process has seen, but for the errors of its reads (CanTrade,     *)
(* Manager.Refresh).                                                        *)
THEOREM BreakerAlwaysHolds == Spec => []BreakerHolds
<1>1. TypeOK /\ Reads => BreakerHolds
  <2>1. SUFFICES ASSUME TypeOK, Reads, pc = "trade"
                 PROVE  100 * (worthRead + slip) > (100 - MaxDrawdownPct) * (seen - slip)
    BY DEF BreakerHolds
  <2>2. /\ portfolio.total \in Nat
        /\ {worthRead, slip, seen, peakBalance} \subseteq Nat
    BY <2>1 DEF TypeOK, PortfolioRecord
  <2>3. portfolio.total > 0 /\ peakBalance >= portfolio.total /\ ~ Halted
    BY <2>1 DEF Reads, TypeOK
  <2>4. ~ (100 * portfolio.total <= (100 - MaxDrawdownPct) * peakBalance)
    BY <2>2, <2>3, InDrawdownIsDown DEF Halted, Down
  <2>5. seen - slip <= peakBalance /\ portfolio.total <= worthRead + slip
    BY <2>1, <2>2 DEF Reads
  <2>6. /\ (100 - MaxDrawdownPct) * (seen - slip)
              <= (100 - MaxDrawdownPct) * peakBalance
        /\ (100 - MaxDrawdownPct) * peakBalance \in Int
        /\ (100 - MaxDrawdownPct) * (seen - slip) \in Int
    BY <2>2, <2>5, Limit, TimesMonotone
  <2>. QED  BY <2>2, <2>4, <2>5, <2>6
<1>. QED  BY <1>1, TypeCorrect, ReadsInvariant, PTL

-----------------------------------------------------------------------------
(***************************************************************************)
(* The report.  The rows are what the account was worth, in the order of   *)
(* the reads: when one is down from an earlier one, the account was down   *)
(* from its highest when that row's value was read.                        *)
(***************************************************************************)
RowsTrue ==
    /\ \A i \in DOMAIN snapshots : snapshots[i] <= highest
    /\ pc \in {"decide", "trade", "snapshot"} =>
          /\ portfolio.total = worthRead
          /\ \A i \in DOMAIN snapshots : Down(worthRead, snapshots[i]) => sunk
    /\ \A i, j \in DOMAIN snapshots :
          i < j /\ Down(snapshots[j], snapshots[i]) => sunk

Report == (Down(Worth, highest) => sunk) /\ (exact => RowsTrue)

(* There are no rows yet. *)
LEMMA ReportInit == ASSUME Init PROVE Report
BY DEF Init, Report, RowsTrue

(* The rows are amounts. *)
LEMMA RowTypes ==
    ASSUME TypeOK
    PROVE  /\ \A i \in DOMAIN snapshots : snapshots[i] \in Nat
           /\ {worthRead, highest} \subseteq Nat
BY DEF TypeOK

(* Steps that leave rows and the last read alone, while the account may     *)
(* change and the phase may be left.                                        *)
LEMMA ReportKept ==
    ASSUME TypeOK, TypeOK', Report,
           UNCHANGED <<snapshots, exact>>, highest' >= highest, sunk => sunk',
           Down(Worth', highest') => sunk',
           pc' \in {"decide", "trade", "snapshot"} =>
              pc \in {"decide", "trade", "snapshot"} /\ UNCHANGED <<portfolio, worthRead>>
    PROVE  Report'
<1>1. CASE ~ exact
  BY <1>1 DEF Report
<1>2. CASE exact
  <2>1. RowsTrue
    BY <1>2 DEF Report
  <2>2. \A i \in DOMAIN snapshots : snapshots[i] <= highest'
    BY <2>1, RowTypes DEF RowsTrue, TypeOK
  <2>3. pc' \in {"decide", "trade", "snapshot"} =>
           /\ portfolio'.total = worthRead'
           /\ \A i \in DOMAIN snapshots : Down(worthRead', snapshots[i]) => sunk'
    BY <2>1 DEF RowsTrue
  <2>4. \A i, j \in DOMAIN snapshots :
           i < j /\ Down(snapshots[j], snapshots[i]) => sunk'
    BY <2>1 DEF RowsTrue
  <2>. QED  BY <2>2, <2>3, <2>4 DEF Report, RowsTrue
<1>. QED  BY <1>1, <1>2

(* A complete read brings the value of the account. *)
LEMMA ReportRead ==
    ASSUME TypeOK, TypeOK', Reads, Report, ReadPortfolio
    PROVE  Report'
<1>. cash \in Nat /\ invested \in Nat
  BY DEF TypeOK
<1>. Worth \in Nat
  BY DEF Worth
<1>1. /\ UNCHANGED <<snapshots, highest, sunk>> /\ Worth' = Worth
      /\ worthRead' = Worth /\ Worth <= highest
  BY DEF ReadPortfolio, account, Worth, Reads
<1>2. CASE ~ exact'
  BY <1>1, <1>2 DEF Report
<1>3. CASE exact'
  <2>1. RowsTrue /\ portfolio'.total = worthRead'
    BY <1>3, ReadFacts DEF Report
  <2>2. ASSUME NEW i \in DOMAIN snapshots, Down(Worth, snapshots[i])
        PROVE  sunk
    <3>1. snapshots[i] \in Nat /\ highest \in Nat /\ snapshots[i] <= highest
      BY <2>1, RowTypes DEF RowsTrue
    <3>2. Down(Worth, highest)
      BY <2>2, <3>1, DownFromHigher
    <3>. QED  BY <3>2 DEF Report
  <2>. QED  BY <1>1, <2>1, <2>2 DEF Report, RowsTrue
<1>. QED  BY <1>2, <1>3

(* The new row is the last read, which was compared with every other row.   *)
LEMMA ReportSnapshot ==
    ASSUME TypeOK, TypeOK', Reads, Report, SnapshotBankroll
    PROVE  Report'
<1>1. /\ UNCHANGED <<highest, sunk, exact, worthRead>> /\ Worth' = Worth
      /\ pc = "snapshot" /\ pc' \in {"user", "idle"}
  BY DEF SnapshotBankroll, account, reads, Worth
<1>2. CASE ~ exact \/ UNCHANGED snapshots
  BY <1>1, <1>2 DEF Report, RowsTrue
<1>3. CASE exact /\ snapshots' = Append(snapshots, portfolio.total)
  <2>1. RowsTrue /\ portfolio.total = worthRead /\ worthRead <= highest
    BY <1>1, <1>3 DEF Report, RowsTrue, Reads
  <2>2. /\ snapshots \in Seq(Nat) /\ portfolio.total \in Nat
        /\ Len(snapshots) \in Nat /\ DOMAIN snapshots = 1 .. Len(snapshots)
    BY DEF TypeOK, PortfolioRecord
  <2>3. /\ DOMAIN snapshots' = 1 .. Len(snapshots) + 1
        /\ \A i \in DOMAIN snapshots : snapshots'[i] = snapshots[i]
        /\ snapshots'[Len(snapshots) + 1] = portfolio.total
    BY <1>3, <2>2
  <2>4. \A i \in DOMAIN snapshots' : snapshots'[i] <= highest'
    BY <1>1, <2>1, <2>2, <2>3 DEF RowsTrue
  <2>5. ASSUME NEW i \in DOMAIN snapshots', NEW j \in DOMAIN snapshots', i < j,
               Down(snapshots'[j], snapshots'[i])
        PROVE  sunk
    <3>1. i \in DOMAIN snapshots /\ snapshots'[i] = snapshots[i]
      BY <2>2, <2>3, <2>5
    <3>2. CASE j \in DOMAIN snapshots
      BY <2>1, <2>3, <2>5, <3>1, <3>2 DEF RowsTrue
    <3>3. CASE j = Len(snapshots) + 1
      BY <1>1, <2>1, <2>3, <2>5, <3>1, <3>3 DEF RowsTrue
    <3>. QED  BY <2>2, <2>3, <3>2, <3>3
  <2>. QED  BY <1>1, <1>3, <2>4, <2>5 DEF Report, RowsTrue
<1>. QED  BY <1>2, <1>3 DEF SnapshotBankroll, SnapshotValue

(* Every step keeps the rows true to the account. *)
LEMMA ReportStep ==
    ASSUME TypeOK, TypeOK', Reads, Report, [Next]_vars
    PROVE  Report'
<1>. highest \in Nat /\ highest' \in Nat
  BY DEF TypeOK
<1>. Down(Worth, highest) => sunk
  BY DEF Report
<1>1. CASE AccountChanges
  <2>1. /\ UNCHANGED <<pc, portfolio, snapshots, reads>>
        /\ highest' >= highest /\ (sunk => sunk')
        /\ Down(Worth', highest') => sunk'
    BY <1>1, AccountFacts
  <2>. QED  BY <2>1, ReportKept DEF reads
<1>2. CASE Start
  <2>1. /\ UNCHANGED <<snapshots, exact, highest, sunk>> /\ Worth' = Worth
        /\ pc' = "user"
    BY <1>2 DEF Start, account, reads, Worth
  <2>. QED  BY <2>1, ReportKept
<1>3. CASE ReadUser
  <2>1. /\ UNCHANGED <<snapshots, exact, highest, sunk>> /\ Worth' = Worth
        /\ pc' = "portfolio"
    BY <1>3 DEF ReadUser, account, reads, Worth
  <2>. QED  BY <2>1, ReportKept
<1>4. CASE UserFails \/ Stop
  <2>1. /\ UNCHANGED <<snapshots, exact, highest, sunk>> /\ Worth' = Worth
        /\ pc' \in {"down", "idle"}
    BY <1>4 DEF UserFails, Stop, Forget, account, reads, Worth
  <2>. QED  BY <2>1, ReportKept
<1>5. CASE ReadPortfolio
  BY <1>5, ReportRead
<1>6. CASE Decide
  <2>1. /\ UNCHANGED <<snapshots, exact, highest, sunk, portfolio, worthRead>>
        /\ Worth' = Worth /\ pc = "decide"
    BY <1>6 DEF Decide, account, reads, Worth
  <2>. QED  BY <2>1, ReportKept
<1>7. CASE Trade
  <2>1. /\ UNCHANGED <<snapshots, portfolio, reads>> /\ pc = "trade"
        /\ highest' >= highest /\ (sunk => sunk')
        /\ Down(Worth', highest') => sunk'
    BY <1>7, TradeFacts
  <2>. QED  BY <2>1, ReportKept DEF reads
<1>8. CASE SnapshotBankroll
  BY <1>8, ReportSnapshot
<1>9. CASE Tick
  <2>1. /\ UNCHANGED <<snapshots, exact, highest, sunk>> /\ Worth' = Worth
        /\ pc' = "user"
    BY <1>9 DEF Tick, account, reads, Worth
  <2>. QED  BY <2>1, ReportKept
<1>10. CASE UNCHANGED vars
  <2>1. /\ UNCHANGED <<pc, snapshots, exact, highest, sunk, portfolio, worthRead>>
        /\ Worth' = Worth
    BY <1>10 DEF vars, account, reads, Worth
  <2>. QED  BY <2>1, ReportKept
<1>. QED
  BY <1>1, <1>2, <1>3, <1>4, <1>5, <1>6, <1>7, <1>8, <1>9, <1>10 DEF Next

(* While no read was ever in error, a drawdown of the limit in the report   *)
(* is one the account went through, across restarts and failed inserts      *)
(* (snapshotBankroll, computeDrawdown).                                     *)
THEOREM ReportedLossAlwaysReal == Spec => []ReportedLossReal
<1>1. Init => TypeOK /\ Reads /\ Report
  BY TypeInit, ReadsInit, ReportInit
<1>2. TypeOK /\ Reads /\ Report /\ [Next]_vars => (TypeOK /\ Reads /\ Report)'
  BY TypeStep, ReadsStep, ReportStep
<1>3. Report => ReportedLossReal
  BY DEF Report, RowsTrue, ReportedLossReal, ReportsDrawdown
<1>. QED  BY <1>1, <1>2, <1>3, PTL DEF Spec

=============================================================================
