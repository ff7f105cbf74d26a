--------------------------- MODULE DrawdownBreaker --------------------------
(***************************************************************************)
(* The drawdown circuit breaker and the report of the drawdown: the        *)
(* account as it is, the bot's two reads of it (Portfolio.Refresh), the    *)
(* peak in memory (Manager.Refresh, CanTrade), the rows of                 *)
(* bankroll_snapshots, and what the tracker computes from them.            *)
(*                                                                         *)
(* The account changes at any time, between the two reads too: limit       *)
(* orders fill, positions are paid out, and their value rises and falls.   *)
(* TradingCycle has the rest of the cycle; here its bets are one step.     *)
(***************************************************************************)
EXTENDS RiskSizing, Portfolio, Sequences

CONSTANTS
    Accounts,      \* the <<cash, invested>> the account may begin with
    Steps,         \* the amounts by which the account changes
    MaxMoves,      \* bound: how many changes there are
    MaxSnapshots   \* bound: rows of bankroll_snapshots; later inserts fail

ASSUME BreakerAssumption ==
    /\ Accounts \subseteq Nat \X Nat
    /\ Steps \subseteq Nat
    /\ MaxMoves \in Nat
    /\ MaxSnapshots \in Nat

ASSUME LimitAssumption == MaxDrawdownPct <= 100

VARIABLES
    cash, invested,   \* the account on Manifold
    pc,
    starting,         \* the refresh is the one before the first cycle
    portfolio,        \* Portfolio, as last refreshed
    peakBalance,      \* Manager.peakBalance
    snapshots,        \* total_value of bankroll_snapshots, in order
    moves,            \* ghost: changes of the account so far
    highest,          \* ghost: the most the account was ever worth
    sunk,             \* ghost: it was once down from there by the limit
    worthRead,        \* ghost: what it was worth when it was last read
    seen,             \* ghost: the highest such worth in a cycle of this process
    slip,             \* ghost: the largest error of a read of this process
    drift,            \* ghost: how much cash moved since the user was read
    maxDrift,         \* ghost: the largest drift of a read of this process
    complete,         \* ghost: no read of this process was without portfolio
    exact             \* ghost: no read ever was in error

account == <<cash, invested, moves, highest, sunk>>
reads == <<worthRead, seen, slip, maxDrift, complete, exact>>
vars == <<account, pc, starting, portfolio, peakBalance, snapshots, drift, reads>>

Worth == cash + invested

Distance(a, b) == IF a <= b THEN b - a ELSE a - b

(* So low after it had been so high is a drawdown of the limit or more. *)
Down(low, high) == 100 * low <= (100 - MaxDrawdownPct) * high

Init ==
    /\ \E initial \in Accounts : cash = initial[1] /\ invested = initial[2]
    /\ pc = "down"
    /\ starting = TRUE
    /\ portfolio = NewPortfolio
    /\ peakBalance = 0
    /\ worthRead = 0
    /\ seen = 0
    /\ slip = 0
    /\ drift = 0
    /\ maxDrift = 0
    /\ complete = TRUE
    /\ snapshots = << >>
    /\ moves = 0
    /\ highest = Worth
    /\ sunk = Down(Worth, Worth)
    /\ exact = TRUE

-----------------------------------------------------------------------------
(***************************************************************************)
(* The account.                                                            *)
(***************************************************************************)
Move(newCash, newInvested) ==
    /\ moves < MaxMoves
    /\ newCash >= 0 /\ newInvested >= 0
    /\ cash' = newCash
    /\ invested' = newInvested
    /\ moves' = moves + 1
    /\ highest' = Greater(highest, newCash + newInvested)
    /\ sunk' = (sunk \/ Down(newCash + newInvested, highest'))

(* A limit order fills; a market pays out; positions are revalued. *)
AccountChanges ==
    /\ \E n \in Steps : \/ Move(cash - n, invested + n)
                        \/ Move(cash + n, invested - n)
                        \/ Move(cash, invested + n)
                        \/ Move(cash, invested - n)
    /\ drift' = IF pc = "portfolio" THEN drift + Distance(cash, cash') ELSE drift
    /\ UNCHANGED <<pc, starting, portfolio, peakBalance, snapshots, reads>>

-----------------------------------------------------------------------------
(***************************************************************************)
(* The bot.                                                                *)
(***************************************************************************)
Start ==
    /\ pc = "down"
    /\ pc' = "user"
    /\ UNCHANGED <<account, starting, portfolio, peakBalance, snapshots, drift, reads>>

ReadUser ==
    /\ pc = "user"
    /\ portfolio' = WithBalance(portfolio, cash)
    /\ drift' = 0
    /\ pc' = "portfolio"
    /\ UNCHANGED <<account, starting, peakBalance, snapshots, reads>>

(* Memory is gone, and the process is started again by its supervisor. *)
Forget ==
    /\ pc' = "down"
    /\ starting' = TRUE
    /\ portfolio' = NewPortfolio
    /\ peakBalance' = 0
    /\ worthRead' = 0
    /\ seen' = 0
    /\ slip' = 0
    /\ drift' = 0
    /\ maxDrift' = 0
    /\ complete' = TRUE
    /\ UNCHANGED <<account, snapshots, exact>>

(* Before the first cycle the process ends; a later cycle is given up. *)
UserFails ==
    /\ pc = "user"
    /\ IF starting
       THEN Forget
       ELSE /\ pc' = "idle"
            /\ UNCHANGED <<account, starting, portfolio, peakBalance, snapshots,
                           drift, reads>>

(* Faulty: the peak is where the process began. *)
FirstPeak(peak, total) == IF peak = 0 THEN total ELSE peak

NewPeak(peak, total) == Greater(peak, total)

(* The second read: it succeeds, fails, or gives nothing.  In a cycle the   *)
(* manager is refreshed after it.                                           *)
ReadPortfolio ==
    /\ pc = "portfolio"
    /\ \/ portfolio' = WithInvestment(portfolio, invested) /\ UNCHANGED complete
       \/ portfolio' = WithoutInvestment(portfolio) /\ complete' = FALSE
       \/ portfolio' = NilInvestment(portfolio) /\ complete' = FALSE
    /\ worthRead' = Worth
    /\ slip' = Greater(slip, Distance(portfolio'.total, Worth))
    /\ maxDrift' = Greater(maxDrift, drift)
    /\ exact' = (exact /\ portfolio'.total = Worth)
    /\ IF starting
       THEN pc' = "snapshot" /\ UNCHANGED <<peakBalance, seen>>
       ELSE /\ peakBalance' = NewPeak(peakBalance, portfolio'.total)
            /\ seen' = Greater(seen, Worth)
            /\ pc' = "decide"
    /\ UNCHANGED <<account, starting, snapshots, drift>>

(* Faulty: the balance alone is compared with the peak. *)
HaltedByBalance == InDrawdown(portfolio.balance, peakBalance)

Halted == InDrawdown(portfolio.total, peakBalance)

(* CanTrade halts the cycle, or there is nothing to bet on; else it bets.   *)
Decide ==
    /\ pc = "decide"
    /\ \/ pc' = "idle"
       \/ /\ portfolio.total > 0
          /\ ~ Halted
          /\ ~ AtExposureLimit(portfolio.total, portfolio.investment)
          /\ pc' = "trade"
    /\ UNCHANGED <<account, starting, portfolio, peakBalance, snapshots, drift, reads>>

(* Bets fill, or wait as limit orders. *)
Trade ==
    /\ pc = "trade"
    /\ \/ UNCHANGED account
       \/ \E n \in Steps : Move(cash - n, invested + n)
    /\ pc' = "snapshot"
    /\ UNCHANGED <<starting, portfolio, peakBalance, snapshots, drift, reads>>

(* Faulty: the balance is taken for the value. *)
BalanceValue == portfolio.balance

SnapshotValue == portfolio.total

(* snapshotBankroll, before the first cycle and after the bets of one; it   *)
(* stores the last refresh, which is from before the bets.                  *)
SnapshotBankroll ==
    /\ pc = "snapshot"
    /\ \/ /\ Len(snapshots) < MaxSnapshots
          /\ snapshots' = Append(snapshots, SnapshotValue)
       \/ UNCHANGED snapshots
    /\ starting' = FALSE
    /\ pc' = IF starting THEN "user" ELSE "idle"
    /\ UNCHANGED <<account, portfolio, peakBalance, drift, reads>>

Tick ==
    /\ pc = "idle"
    /\ pc' = "user"
    /\ UNCHANGED <<account, starting, portfolio, peakBalance, snapshots, drift, reads>>

(* The process is stopped, or dies. *)
Stop == pc # "down" /\ Forget

Next ==
    \/ AccountChanges
    \/ Start \/ ReadUser \/ UserFails \/ ReadPortfolio
    \/ Decide \/ Trade \/ SnapshotBankroll \/ Tick \/ Stop

Spec == Init /\ [][Next]_vars

-----------------------------------------------------------------------------
(* Every variable keeps its type, and a decision is made against a peak     *)
(* that the value of the portfolio does not exceed.                         *)
TypeOK ==
    /\ {cash, invested, peakBalance, moves, highest, worthRead, seen, slip,
        drift, maxDrift} \subseteq Nat
    /\ pc \in {"down", "user", "portfolio", "snapshot", "decide", "trade", "idle"}
    /\ {starting, sunk, complete, exact} \subseteq BOOLEAN
    /\ portfolio \in PortfolioRecord
    /\ snapshots \in Seq(Nat)
    /\ pc \in {"decide", "trade"} => peakBalance >= portfolio.total

-----------------------------------------------------------------------------
(***************************************************************************)
(* Safety.  What is said of the account as it is, not as the bot read it.  *)
(***************************************************************************)

(* The breaker halts only on a loss: the account is down by the limit from  *)
(* what it was once worth, but for the errors of the process's own reads    *)
(* (Portfolio.Refresh, Manager.Refresh, CanTrade).                          *)
HaltMeansLoss ==
    pc = "decide" /\ Halted =>
        100 * (worthRead - slip) <= (100 - MaxDrawdownPct) * (highest + slip)

(* A cycle that bets is not down by the limit from what any cycle of this   *)
(* process has seen, again but for the errors of its reads.  What an earlier *)
(* process saw is forgotten: the peak is in memory only.                    *)
BreakerHolds ==
    pc = "trade" =>
        100 * (worthRead + slip) > (100 - MaxDrawdownPct) * (seen - slip)

(* As long as every read brought the portfolio, the bot is wrong about the  *)
(* account by no more than the cash that moved between its two requests.    *)
ReadErrorBounded == complete => slip <= maxDrift

(* computeDrawdown: the largest fall from a row to a later one, here whether *)
(* it is the limit or more.                                                 *)
ReportsDrawdown ==
    \E i, j \in DOMAIN snapshots :
        i < j /\ snapshots[i] > 0 /\ Down(snapshots[j], snapshots[i])

(* When the report shows a drawdown of the limit or more, the account went  *)
(* through one, across restarts and failed inserts, provided that no read   *)
(* was ever in error (snapshotBankroll, computeDrawdown).                   *)
ReportedLossReal == exact /\ ReportsDrawdown => sunk

=============================================================================
