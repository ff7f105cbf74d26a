---------------------------- MODULE TradingCycle ----------------------------
(***************************************************************************)
(* The trading cycle of the bot, from the account refresh to the last bet  *)
(* (internal/scheduler/scheduler.go runTradingCycle, internal/risk,        *)
(* internal/execution), with the two tables it relies on, its restarts,    *)
(* and the faults of the services it calls.                                *)
(*                                                                         *)
(* One process runs one cycle at a time; pc is where it is.  What survives *)
(* a restart is the database: the markets it knows and the unresolved bets *)
(* of each (bot_bets, summed per market).  Scanning and the strategies are *)
(* the choice of a batch of signals.                                       *)
(***************************************************************************)
EXTENDS RiskSizing, Portfolio, Sequences

CONSTANTS
    Signals,     \* [market, answer, outcome, confidence, marketProb, edge]
    Batches,     \* the signal sequences a cycle's strategies may produce
    Accounts,    \* [balance, investment] pairs the API may report
    Faults,      \* the kinds of fault that may strike
    MaxFaults    \* bound: how many faults strike in a behaviour

FaultKinds == {"noPortfolio", "nilPortfolio", "load", "rows", "ensure",
               "record", "lost", "crash"}

SignalRecord ==
    [market : {s.market : s \in Signals}, answer : {s.answer : s \in Signals},
     outcome : {"YES", "NO"}, confidence : 0 .. One, marketProb : 0 .. One,
     edge : Nat]

ASSUME CycleAssumption ==
    /\ Signals \subseteq SignalRecord
    /\ Batches \subseteq Seq(Signals)
    /\ Accounts \subseteq [balance : Nat, investment : Nat]
    /\ Faults \subseteq FaultKinds
    /\ MaxFaults \in Nat

Markets == {s.market : s \in Signals}

(* The key of failedBets: market and answer, whatever outcome is bet. *)
Key(sig) == <<sig.market, sig.answer>>
Keys == {Key(s) : s \in Signals}

VARIABLES
    pc,
    portfolio,             \* Portfolio, as last refreshed
    peakBalance,           \* Manager.peakBalance
    totalExposure,         \* Manager.totalExposure
    marketExposure,        \* Manager.marketExposure, 0 for an absent key
    pending,               \* signals SizeSignals has still to consider
    cycleMarketExposure,   \* SizeSignals' own map
    sized,                 \* approved bets not yet executed, in order
    failedBets,            \* Executor.failedBets, 0 for an absent key
    booked,                \* results with Success, summed per market
    bookedTotal,           \* the same, over all markets
    bets,                  \* how many results have Success
    knownMarkets,          \* database: rows of markets
    ledger,                \* database: unresolved bot_bets, summed per market
    loaded,                \* ghost: the last load of this process was complete
    unrecorded,            \* ghost: mana bet on Manifold and in no bot_bets row
    faults                 \* ghost: faults that struck so far

risk == <<peakBalance, totalExposure, marketExposure>>
pass == <<pending, cycleMarketExposure, sized>>
results == <<booked, bookedTotal, bets>>
database == <<knownMarkets, ledger>>
vars == <<pc, portfolio, risk, pass, failedBets, results, database,
          loaded, unrecorded, faults>>

-----------------------------------------------------------------------------
Nothing == [m \in Markets |-> 0]

Plus(f, m, amount) == [f EXCEPT ![m] = @ + amount]

(* A fault of this kind strikes now. *)
Strikes(kind) ==
    /\ kind \in Faults
    /\ faults < MaxFaults
    /\ faults' = faults + 1

NoFault == UNCHANGED faults

Init ==
    /\ pc = "down"
    /\ portfolio = NewPortfolio
    /\ peakBalance = 0
    /\ totalExposure = 0
    /\ marketExposure = Nothing
    /\ pending = << >>
    /\ cycleMarketExposure = Nothing
    /\ sized = << >>
    /\ failedBets = [k \in Keys |-> 0]
    /\ booked = Nothing
    /\ bookedTotal = 0
    /\ bets = 0
    /\ knownMarkets = {}
    /\ ledger = Nothing
    /\ loaded = FALSE
    /\ unrecorded = Nothing
    /\ faults = 0

-----------------------------------------------------------------------------
(***************************************************************************)
(* Starting and ticking.                                                   *)
(***************************************************************************)

(* The outcomes of Portfolio.Refresh that return no error. *)
Refreshed ==
    \E account \in Accounts :
        LET read == WithBalance(portfolio, account.balance) IN
        \/ portfolio' = WithInvestment(read, account.investment) /\ NoFault
        \/ portfolio' = WithoutInvestment(read) /\ Strikes("noPortfolio")
        \/ portfolio' = NilInvestment(read) /\ Strikes("nilPortfolio")

(* main wires fresh objects and Run refreshes the portfolio, then runs the *)
(* first cycle; if that refresh fails the process ends at once.            *)
Start ==
    /\ pc = "down"
    /\ Refreshed
    /\ pc' = "refresh"
    /\ UNCHANGED <<risk, pass, failedBets, results, database, loaded, unrecorded>>

(* Faulty: every cycle starts with a clean failedBets. *)
TickForgivesFailures ==
    /\ pc = "idle"
    /\ pc' = "refresh"
    /\ failedBets' = [k \in Keys |-> 0]
    /\ UNCHANGED <<portfolio, risk, pass, results, database,
                   loaded, unrecorded, faults>>

(* scanTicker fires. *)
Tick ==
    /\ pc = "idle"
    /\ pc' = "refresh"
    /\ UNCHANGED <<portfolio, risk, pass, failedBets, results, database,
                   loaded, unrecorded, faults>>

-----------------------------------------------------------------------------
(***************************************************************************)
(* Refreshing the account, the risk manager and the exposure per market.   *)
(***************************************************************************)

(* Portfolio.Refresh and Manager.Refresh. *)
RefreshPortfolio ==
    /\ pc = "refresh"
    /\ Refreshed
    /\ peakBalance' = Greater(peakBalance, portfolio'.total)
    /\ totalExposure' = portfolio'.investment
    /\ pc' = "load"
    /\ UNCHANGED <<marketExposure, pass, failedBets, results, database,
                   loaded, unrecorded>>

(* The user could not be read: the cycle is given up. *)
RefreshFails ==
    /\ pc = "refresh"
    /\ pc' = "idle"
    /\ UNCHANGED <<portfolio, risk, pass, failedBets, results, database,
                   loaded, unrecorded, faults>>

(* Faulty: only the memory of this process is used. *)
LoadNothing ==
    /\ pc = "load"
    /\ loaded' = TRUE
    /\ pc' = "evaluate"
    /\ NoFault
    /\ UNCHANGED <<portfolio, risk, pass, failedBets, results, database, unrecorded>>

(* loadMarketExposure replaces the map by the sums of the database. *)
LoadMarketExposure ==
    /\ pc = "load"
    /\ marketExposure' = ledger
    /\ loaded' = TRUE
    /\ pc' = "evaluate"
    /\ NoFault
    /\ UNCHANGED <<portfolio, peakBalance, totalExposure, pass, failedBets,
                   results, database, unrecorded>>

(* The query fails: it is logged and the cycle goes on with the map it has. *)
LoadFails ==
    /\ pc = "load"
    /\ Strikes("load")
    /\ pc' = "evaluate"
    /\ UNCHANGED <<portfolio, risk, pass, failedBets, results, database,
                   loaded, unrecorded>>

(* The rows stop early or one does not scan: what was read becomes the map. *)
LoadLosesRows ==
    /\ pc = "load"
    /\ Strikes("rows")
    /\ \E read \in SUBSET Markets :
          marketExposure' = [m \in Markets |-> IF m \in read THEN ledger[m] ELSE 0]
    /\ loaded' = FALSE
    /\ pc' = "evaluate"
    /\ UNCHANGED <<portfolio, peakBalance, totalExposure, pass, failedBets,
                   results, database, unrecorded>>

-----------------------------------------------------------------------------
(***************************************************************************)
(* Evaluating the strategies and sizing their signals.                     *)
(***************************************************************************)

(* The cycle ends when there is no signal or the manager may not trade. *)
Evaluate(batch) ==
    /\ pc = "evaluate"
    /\ IF batch # << >>
          /\ CanTrade(portfolio.total, peakBalance, totalExposure)
       THEN pending' = batch /\ pc' = "size"
       ELSE pc' = "idle" /\ UNCHANGED pending
    /\ cycleMarketExposure' = Nothing
    /\ UNCHANGED <<portfolio, risk, sized, failedBets, results, database,
                   loaded, unrecorded, faults>>

(* Faulty: one half of the exposure is left out. *)
ExistingBeforeCycle(m) == marketExposure[m]
ExistingInCycle(m) == cycleMarketExposure[m]

(* existingExposure of SizeSignals. *)
ExistingExposure(m) == marketExposure[m] + cycleMarketExposure[m]

(* One iteration of SizeSignals: "existing" is kept with the approved bet  *)
(* for the properties only.                                                *)
SizeNext ==
    LET sig      == Head(pending)
        existing == ExistingExposure(sig.market)
        amount   == ApprovedAmount(sig, portfolio, totalExposure, existing)
        reject   == UNCHANGED <<cycleMarketExposure, sized>>
        approve  ==
            /\ cycleMarketExposure' = Plus(cycleMarketExposure, sig.market, amount)
            /\ sized' = Append(sized, [sig |-> sig, amount |-> amount,
                                       existing |-> existing])
    IN  /\ pc = "size"
        /\ pending # << >>
        /\ IF \/ MarketCapReached(portfolio.total, existing)
              \/ amount < MinBetAmount
           THEN reject
           ELSE approve
        /\ pending' = Tail(pending)
        /\ UNCHANGED <<pc, portfolio, risk, failedBets, results, database,
                       loaded, unrecorded, faults>>

(* Every signal was considered; with nothing approved the cycle is over. *)
SizingDone ==
    /\ pc = "size"
    /\ pending = << >>
    /\ pc' = IF sized = << >> THEN "idle" ELSE "ensure"
    /\ UNCHANGED <<portfolio, risk, pass, failedBets, results, database,
                   loaded, unrecorded, faults>>

-----------------------------------------------------------------------------
(***************************************************************************)
(* Ensuring the markets, placing and recording the bets.                   *)
(***************************************************************************)

SizedMarkets == {sized[i].sig.market : i \in DOMAIN sized}

(* Faulty: the markets are left to the collector. *)
EnsureNothing ==
    /\ pc = "ensure"
    /\ pc' = "execute"
    /\ UNCHANGED <<portfolio, risk, pass, failedBets, results, database,
                   loaded, unrecorded, faults>>

(* INSERT OR IGNORE per approved bet; an error is not looked at. *)
EnsureMarkets ==
    /\ pc = "ensure"
    /\ \/ knownMarkets' = knownMarkets \cup SizedMarkets /\ NoFault
       \/ /\ Strikes("ensure")
          /\ \E inserted \in SUBSET SizedMarkets :
                knownMarkets' = knownMarkets \cup inserted
    /\ pc' = "execute"
    /\ UNCHANGED <<portfolio, risk, pass, failedBets, results, ledger,
                   loaded, unrecorded>>

Bet == Head(sized)

(* Faulty: one failure too many. *)
BlacklistedLate(k) == failedBets[k] > 3

Blacklisted(k) == failedBets[k] >= 3

(* executeSingle leaves out a bet that failed three times in a row. *)
Skip ==
    /\ pc = "execute"
    /\ sized # << >>
    /\ Blacklisted(Key(Bet.sig))
    /\ sized' = Tail(sized)
    /\ UNCHANGED <<pc, portfolio, risk, pending, cycleMarketExposure, failedBets,
                   results, database, loaded, unrecorded, faults>>

(* The bet about to be posted. *)
Posting ==
    /\ pc = "execute"
    /\ sized # << >>
    /\ ~ Blacklisted(Key(Bet.sig))

(* PostBet succeeds: the failures of the key are forgotten, and the bet     *)
(* exists on Manifold before it is recorded.                                *)
PostAccepted ==
    /\ Posting
    /\ failedBets' = [failedBets EXCEPT ![Key(Bet.sig)] = 0]
    /\ pc' = "record"
    /\ UNCHANGED <<portfolio, risk, pass, results, database,
                   loaded, unrecorded, faults>>

(* PostBet fails: for good (resolved, 403, 404), or once more. *)
FailureCounts(k) == {100, failedBets[k] + 1}

PostRejected ==
    /\ Posting
    /\ \E n \in FailureCounts(Key(Bet.sig)) :
          failedBets' = [failedBets EXCEPT ![Key(Bet.sig)] = n]
    /\ sized' = Tail(sized)
    /\ UNCHANGED <<pc, portfolio, risk, pending, cycleMarketExposure, results,
                   database, loaded, unrecorded, faults>>

(* The bet is placed and the reply is lost: for the executor, a failure. *)
PostReplyLost ==
    /\ Posting
    /\ Strikes("lost")
    /\ failedBets' = [failedBets EXCEPT ![Key(Bet.sig)] = @ + 1]
    /\ unrecorded' = Plus(unrecorded, Bet.sig.market, Bet.amount)
    /\ sized' = Tail(sized)
    /\ UNCHANGED <<pc, portfolio, risk, pending, cycleMarketExposure, results,
                   database, loaded>>

(* recordBet.  The row is refused when its market is unknown (foreign key)  *)
(* or the database fails; the result has Success all the same.              *)
RecordBet ==
    /\ pc = "record"
    /\ \/ /\ Bet.sig.market \in knownMarkets
          /\ ledger' = Plus(ledger, Bet.sig.market, Bet.amount)
          /\ UNCHANGED <<unrecorded, faults>>
       \/ /\ \/ Bet.sig.market \notin knownMarkets /\ NoFault
             \/ Strikes("record")
          /\ unrecorded' = Plus(unrecorded, Bet.sig.market, Bet.amount)
          /\ UNCHANGED ledger
    /\ booked' = Plus(booked, Bet.sig.market, Bet.amount)
    /\ bookedTotal' = bookedTotal + Bet.amount
    /\ bets' = bets + 1
    /\ sized' = Tail(sized)
    /\ pc' = "execute"
    /\ UNCHANGED <<portfolio, risk, pending, cycleMarketExposure, failedBets,
                   knownMarkets, loaded>>

(* Faulty: the map per market is left to the next load. *)
RecordTotalOnly ==
    /\ pc = "execute"
    /\ sized = << >>
    /\ totalExposure' = totalExposure + bookedTotal
    /\ booked' = Nothing
    /\ bookedTotal' = 0
    /\ bets' = 0
    /\ pc' = "idle"
    /\ UNCHANGED <<portfolio, peakBalance, marketExposure, pass, failedBets,
                   database, loaded, unrecorded, faults>>

(* Every bet was tried.  RecordTrade adds the successful ones to the        *)
(* exposure, and the cycle is over.                                         *)
RecordTrades ==
    /\ pc = "execute"
    /\ sized = << >>
    /\ totalExposure' = totalExposure + bookedTotal
    /\ marketExposure' = [m \in Markets |-> marketExposure[m] + booked[m]]
    /\ booked' = Nothing
    /\ bookedTotal' = 0
    /\ bets' = 0
    /\ pc' = "idle"
    /\ UNCHANGED <<portfolio, peakBalance, pass, failedBets, database,
                   loaded, unrecorded, faults>>

-----------------------------------------------------------------------------
(***************************************************************************)
(* The end of the process: everything but the database is gone.            *)
(***************************************************************************)
Forget ==
    /\ pc' = "down"
    /\ portfolio' = NewPortfolio
    /\ peakBalance' = 0
    /\ totalExposure' = 0
    /\ marketExposure' = Nothing
    /\ pending' = << >>
    /\ cycleMarketExposure' = Nothing
    /\ sized' = << >>
    /\ failedBets' = [k \in Keys |-> 0]
    /\ booked' = Nothing
    /\ bookedTotal' = 0
    /\ bets' = 0
    /\ loaded' = FALSE
    /\ UNCHANGED database

(* A signal cancels the context; Run returns between two cycles. *)
Stop ==
    /\ pc = "idle"
    /\ Forget
    /\ UNCHANGED <<unrecorded, faults>>

(* The process dies anywhere; a bet accepted and not recorded stays so. *)
Crash ==
    /\ pc # "down"
    /\ Strikes("crash")
    /\ unrecorded' = IF pc = "record"
                     THEN Plus(unrecorded, Bet.sig.market, Bet.amount)
                     ELSE unrecorded
    /\ Forget

Next ==
    \/ Start \/ Tick \/ Stop \/ Crash
    \/ RefreshPortfolio \/ RefreshFails
    \/ LoadMarketExposure \/ LoadFails \/ LoadLosesRows
    \/ \E batch \in Batches : Evaluate(batch)
    \/ SizeNext \/ SizingDone
    \/ EnsureMarkets
    \/ Skip \/ PostAccepted \/ PostRejected \/ PostReplyLost
    \/ RecordBet \/ RecordTrades

Spec == Init /\ [][Next]_vars

-----------------------------------------------------------------------------
(***************************************************************************)
(* Type invariant.                                                         *)
(***************************************************************************)
PCs == {"down", "idle", "refresh", "load", "evaluate", "size", "ensure",
        "execute", "record"}

Amounts == [Markets -> Nat]

SizedSignal == [sig : Signals, amount : Nat, existing : Nat]

(* Every variable keeps its type: a failure count stays in 0 .. 3 or is the *)
(* permanent 100, no approved amount is negative, and "record" has a bet.   *)
TypeOK ==
    /\ pc \in PCs
    /\ portfolio \in PortfolioRecord
    /\ peakBalance \in Nat
    /\ totalExposure \in Nat
    /\ marketExposure \in Amounts
    /\ pending \in Seq(Signals)
    /\ cycleMarketExposure \in Amounts
    /\ sized \in Seq(SizedSignal)
    /\ failedBets \in [Keys -> 0 .. 3 \cup {100}]
    /\ booked \in Amounts
    /\ bookedTotal \in Nat
    /\ bets \in Nat
    /\ knownMarkets \subseteq Markets
    /\ ledger \in Amounts
    /\ loaded \in BOOLEAN
    /\ unrecorded \in Amounts
    /\ faults \in 0 .. MaxFaults
    /\ pc = "record" => sized # << >>

-----------------------------------------------------------------------------
(***************************************************************************)
(* Safety.                                                                 *)
(***************************************************************************)

(* A bet about to be posted, or just accepted, fits under its market's cap  *)
(* together with everything the process knows of: what was loaded for the   *)
(* market and what this cycle's earlier bets put into it (SizeSignals).     *)
KnownExposureCapped ==
    MarketCapOn /\ pc \in {"execute", "record"} /\ sized # << >> =>
        100 * (marketExposure[Bet.sig.market] + booked[Bet.sig.market] + Bet.amount)
            <= MaxMarketExposurePct * portfolio.total

(* From its first complete load to one that loses rows, a process never     *)
(* believes less of a market than the database holds, although the map is   *)
(* updated only after the last bet of a cycle, a later query may fail, and  *)
(* inserts may be refused (loadMarketExposure, RecordTrade).                *)
MemoryCoversLedger ==
    loaded => \A m \in Markets : ledger[m] <= marketExposure[m] + booked[m]

(* The exposure a cycle may reach beyond the total limit: SizeSignals gives *)
(* every signal the same remaining budget, so all bets but one may go over, *)
(* each by at most a full position.                                         *)
OvershootBounded ==
    bets > 0 =>
        100 * (totalExposure + bookedTotal)
            <= MaxTotalExposure * portfolio.total
                 + (bets - 1) * (MaxPositionPct * portfolio.total)

FailuresKept ==
    \A k \in Keys : Blacklisted(k) => failedBets'[k] = failedBets[k] \/ pc' = "down"

(* A key that failed three times in a row, or for good, is never tried nor  *)
(* forgiven again while the process lives (executeSingle).                  *)
BlacklistHolds == [][FailuresKept]_vars

(* As long as no service fails and nothing crashes, every bet on Manifold   *)
(* is a row of bot_bets between two cycles, as the README says of the table *)
(* ("Every bet placed"): its market was ensured in time (recordBet).        *)
RecordedUnlessFault ==
    faults = 0 /\ pc = "idle" => \A m \in Markets : unrecorded[m] = 0

(* README, Risk Management: "Max 50% total capital deployed".  After a bet  *)
(* of this process the exposure is within max_total_exposure.               *)
TotalExposureCapped ==
    bets > 0 =>
        100 * (totalExposure + bookedTotal) <= MaxTotalExposure * portfolio.total

(* README, Risk Management: "Max 10% exposure per market".  A bet just      *)
(* accepted leaves the mana truly bet in its market within the cap.         *)
MarketExposureCapped ==
    pc = "record" =>
        100 * (ledger[Bet.sig.market] + unrecorded[Bet.sig.market] + Bet.amount)
            <= MaxMarketExposurePct * portfolio.total

(* It is, across restarts, as long as no service fails and nothing crashes. *)
CappedUnlessFault == faults = 0 => MarketExposureCapped

(***************************************************************************)
(* Why KnownExposureCapped holds: every approved bet carries the exposure  *)
(* it was sized against, which includes the approved bets of its market    *)
(* before it.                                                              *)
(***************************************************************************)
ApprovedUnderCap ==
    MarketCapOn => \A i \in DOMAIN sized :
        100 * (sized[i].existing + sized[i].amount)
            <= MaxMarketExposurePct * portfolio.total

ApprovedInOrder ==
    \A i, j \in DOMAIN sized :
        i < j /\ sized[i].sig.market = sized[j].sig.market =>
            sized[i].existing + sized[i].amount <= sized[j].existing

ApprovedAfterBooked ==
    \A i \in DOMAIN sized :
        marketExposure[sized[i].sig.market] + booked[sized[i].sig.market]
            <= sized[i].existing

ApprovedCounted ==
    pc = "size" => \A i \in DOMAIN sized :
        sized[i].existing + sized[i].amount
            <= ExistingExposure(sized[i].sig.market)

(* The bets of the queue that are still to be placed were each sized with   *)
(* all bets of their market before them counted, the booked ones of this    *)
(* cycle and those of earlier cycles included (SizeSignals, executeSingle). *)
ApprovedBetsFit ==
    ApprovedUnderCap /\ ApprovedInOrder /\ ApprovedAfterBooked /\ ApprovedCounted

-----------------------------------------------------------------------------
(***************************************************************************)
(* The booked bets follow BetLedger, the limit being the market cap of the *)
(* account as last refreshed.                                              *)
(***************************************************************************)
Books == INSTANCE BetLedger
            WITH limit <- MaxMarketExposurePct * portfolio.total

(* Every recorded bet is one BetLedger allows, across restarts, crashes,    *)
(* refused rows and lost replies, when the exposure can be loaded.          *)
ImplementsBetLedger == Books!Spec

=============================================================================
