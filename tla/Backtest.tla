------------------------------ MODULE Backtest ------------------------------
(***************************************************************************)
(* A backtest (internal/backtest/runner.go): a second process replays the  *)
(* snapshots of the database through strategies and risk manager, while    *)
(* the bot goes on collecting, betting and being trimmed (MarketStore).    *)
(* Both record their bets in bot_bets.  Each query sees the database of    *)
(* its own moment; sizing touches no shared state.                         *)
(***************************************************************************)
EXTENDS MarketStore, RiskSizing, FiniteSets

CONSTANTS
    Signals,         \* [market, outcome, confidence, marketProb, edge]
    Batches,         \* the signal sequences the strategies may produce
    StartBalance,    \* the flag -balance, in mana
    MaxLiveBets      \* bound: bets of one mana the bot places meanwhile

ASSUME BacktestAssumption ==
    /\ Signals \subseteq [market : Markets, outcome : {"YES", "NO"},
                          confidence : 0 .. One, marketProb : 0 .. One, edge : Nat]
    /\ Batches \subseteq Seq(Signals)
    /\ StartBalance \in Nat
    /\ MaxLiveBets \in Nat

VARIABLES
    pc,               \* where Run is
    timestamps,       \* seconds still to be replayed, in order
    totalExposure,    \* riskMgr.totalExposure
    marketExposure,   \* riskMgr.marketExposure
    pending,          \* signals SizeSignals has still to consider
    cycleExposure,    \* SizeSignals' own map
    sized,            \* approved bets not yet recorded
    totalWagered,     \* as reported at the end
    botBets,          \* database: unresolved bot_bets, summed per market
    liveBets,         \* ghost: mana bet by the bot, per market
    wagered,          \* ghost: mana bet by the backtest, per market
    known,            \* ghost: the snapshots in range when Run began
    replays,          \* ghost: snapshot -> how often it was replayed
    skipped           \* ghost: the seconds that could not be loaded

manager == <<totalExposure, marketExposure>>
pass == <<pending, cycleExposure, sized>>
ledger == <<botBets, liveBets>>
history == <<known, replays, skipped>>
vars == <<storeVars, pc, timestamps, manager, pass, totalWagered, ledger,
          wagered, history>>

Nothing == [m \in Markets |-> 0]

Plus(f, m, amount) == [f EXCEPT ![m] = @ + amount]

(* The virtual portfolio; nothing ever changes it. *)
portfolio == [balance |-> StartBalance, investment |-> 0, total |-> StartBalance]

Init ==
    /\ StoreInit
    /\ pc = "off"
    /\ timestamps = << >>
    /\ totalExposure = 0
    /\ marketExposure = Nothing
    /\ pending = << >>
    /\ cycleExposure = Nothing
    /\ sized = << >>
    /\ totalWagered = 0
    /\ botBets = Nothing
    /\ liveBets = Nothing
    /\ wagered = Nothing
    /\ known = {}
    /\ replays = [s \in Snapshot |-> 0]
    /\ skipped = {}

-----------------------------------------------------------------------------
(***************************************************************************)
(* The bot meanwhile.                                                      *)
(***************************************************************************)
Live ==
    /\ StoreNext
    /\ UNCHANGED <<pc, timestamps, manager, pass, totalWagered, ledger,
                   wagered, history>>

(* A bet of the bot is recorded, its market having been ensured. *)
RecordLiveBet(m) ==
    /\ ~ Collecting
    /\ rows[m] # "absent"
    /\ liveBets[m] < MaxLiveBets
    /\ botBets' = Plus(botBets, m, 1)
    /\ liveBets' = Plus(liveBets, m, 1)
    /\ UNCHANGED <<storeVars, pc, timestamps, manager, pass, totalWagered,
                   wagered, history>>

-----------------------------------------------------------------------------
(***************************************************************************)
(* Runner.Run.                                                             *)
(***************************************************************************)
InRange(from, to) == {s \in snapshots : from <= s.at /\ s.at <= to}

Seconds(read) == {s.at : s \in read}

(* Faulty: the DISTINCT of the query is forgotten. *)
TimestampPerSnapshot(read) ==
    CHOOSE q \in [1 .. Cardinality(read) -> Seconds(read)] :
        /\ \A t \in Seconds(read) : Cardinality({i \in DOMAIN q : q[i] = t})
                                      = Cardinality({s \in read : s.at = t})
        /\ \A i, j \in DOMAIN q : i < j => q[i] <= q[j]

(* SELECT DISTINCT snapshot_at ... ORDER BY snapshot_at *)
Timestamps(read) ==
    CHOOSE q \in [1 .. Cardinality(Seconds(read)) -> Seconds(read)] :
        /\ \A t \in Seconds(read) : \E i \in DOMAIN q : q[i] = t
        /\ \A i, j \in DOMAIN q : i < j => q[i] < q[j]

(* loadSnapshotTimestamps.  Without any the backtest fails at once. *)
LoadSnapshotTimestamps ==
    /\ pc = "off"
    /\ \E from, to \in Times :
          /\ InRange(from, to) # {}
          /\ timestamps' = Timestamps(InRange(from, to))
          /\ known' = InRange(from, to)
    /\ pc' = "load"
    /\ UNCHANGED <<storeVars, manager, pass, totalWagered, ledger, wagered,
                   replays, skipped>>

(* Those of the timestamp at the front, joined with their markets. *)
Current == {s \in snapshots : s.at = Head(timestamps)}

Loading == pc = "load" /\ timestamps # << >>

(* Faulty: every timestamp starts with an empty book. *)
RefreshAll ==
    /\ totalExposure' = portfolio.investment
    /\ marketExposure' = Nothing

(* Manager.Refresh: the exposure per market is not part of it. *)
Refresh ==
    /\ totalExposure' = portfolio.investment
    /\ UNCHANGED marketExposure

(* loadMarketsAtTimestamp and the strategies; there is a signal only for a *)
(* market that was loaded.                                                 *)
Replay(batch) ==
    /\ Loading
    /\ \A s \in Current : rows[s.market] = "text"
    /\ \A i \in DOMAIN batch : \E s \in Current : s.market = batch[i].market
    /\ Refresh
    /\ pending' = IF CanTrade(portfolio.total, portfolio.total, totalExposure')
                  THEN batch ELSE << >>
    /\ cycleExposure' = Nothing
    /\ replays' = [s \in Snapshot |-> replays[s] + IF s \in Current THEN 1 ELSE 0]
    /\ pc' = "size"
    /\ UNCHANGED <<storeVars, timestamps, sized, totalWagered, ledger, wagered,
                   known, skipped>>

(* The query fails, or a row of it does not scan: the loop goes on with the *)
(* next timestamp.                                                          *)
LoadMarketsFails ==
    /\ Loading
    /\ IF \E s \in Current : rows[s.market] = "null"
       THEN UNCHANGED faults
       ELSE Strikes("db")
    /\ skipped' = skipped \cup {Head(timestamps)}
    /\ timestamps' = Tail(timestamps)
    /\ UNCHANGED <<rows, snapshots, now, queue, upserted, pc, manager, pass,
                   totalWagered, ledger, wagered, known, replays>>

(* One iteration of SizeSignals. *)
SizeNext ==
    LET sig      == Head(pending)
        existing == marketExposure[sig.market] + cycleExposure[sig.market]
        amount   == ApprovedAmount(sig, portfolio, totalExposure, existing)
    IN  /\ pc = "size"
        /\ pending # << >>
        /\ IF \/ MarketCapReached(portfolio.total, existing)
              \/ amount < MinBetAmount
           THEN UNCHANGED <<cycleExposure, sized>>
           ELSE /\ cycleExposure' = Plus(cycleExposure, sig.market, amount)
                /\ sized' = Append(sized, [market |-> sig.market, amount |-> amount])
        /\ pending' = Tail(pending)
        /\ UNCHANGED <<storeVars, pc, timestamps, manager, totalWagered, ledger,
                       wagered, history>>

(* RecordTrade and recordBacktestBet; a refused row is only logged. *)
RecordBacktestBet ==
    LET bet == Head(sized)
    IN  /\ pc = "size"
        /\ pending = << >>
        /\ sized # << >>
        /\ totalExposure' = totalExposure + bet.amount
        /\ marketExposure' = Plus(marketExposure, bet.market, bet.amount)
        /\ totalWagered' = totalWagered + bet.amount
        /\ wagered' = Plus(wagered, bet.market, bet.amount)
        /\ sized' = Tail(sized)
        /\ \/ botBets' = Plus(botBets, bet.market, bet.amount) /\ UNCHANGED faults
           \/ Strikes("db") /\ UNCHANGED botBets
        /\ UNCHANGED <<rows, snapshots, now, queue, upserted, pc, timestamps,
                       pending, cycleExposure, liveBets, history>>

(* Faulty: the signals are sized, the bets are left for later. *)
TimestampDoneEarly ==
    /\ pc = "size"
    /\ pending = << >>
    /\ timestamps' = Tail(timestamps)
    /\ pc' = "load"
    /\ UNCHANGED <<storeVars, manager, pass, totalWagered, ledger, wagered, history>>

(* Every approved bet of the timestamp is recorded. *)
TimestampDone ==
    /\ pc = "size"
    /\ pending = << >>
    /\ sized = << >>
    /\ timestamps' = Tail(timestamps)
    /\ pc' = "load"
    /\ UNCHANGED <<storeVars, manager, pass, totalWagered, ledger, wagered, history>>

(* The results are reported. *)
Report ==
    /\ pc = "load"
    /\ timestamps = << >>
    /\ pc' = "done"
    /\ UNCHANGED <<storeVars, timestamps, manager, pass, totalWagered, ledger,
                   wagered, history>>

Run ==
    \/ LoadSnapshotTimestamps
    \/ \E batch \in Batches : Replay(batch)
    \/ LoadMarketsFails
    \/ SizeNext \/ RecordBacktestBet \/ TimestampDone
    \/ Report

Next == Run \/ Live \/ \E m \in Markets : RecordLiveBet(m)

Spec == Init /\ [][Next]_vars

-----------------------------------------------------------------------------
(* Every variable keeps its type, and a timestamp is over when all its      *)
(* signals were considered and all its bets recorded.                       *)
TypeOK ==
    /\ StoreTypeOK
    /\ pc \in {"off", "load", "size", "done"}
    /\ timestamps \in Seq(Times)
    /\ totalExposure \in Nat
    /\ marketExposure \in [Markets -> Nat]
    /\ pending \in Seq(Signals)
    /\ cycleExposure \in [Markets -> Nat]
    /\ sized \in Seq([market : Markets, amount : Nat])
    /\ totalWagered \in Nat
    /\ botBets \in [Markets -> Nat]
    /\ liveBets \in [Markets -> Nat]
    /\ wagered \in [Markets -> Nat]
    /\ known \subseteq Snapshot
    /\ replays \in [Snapshot -> Nat]
    /\ skipped \subseteq Times
    /\ IF pc = "size" THEN timestamps # << >> ELSE pending = << >> /\ sized = << >>

(* However long the replay, no market gets more than its share of the       *)
(* starting balance: the exposure per market outlives the Refresh of every  *)
(* timestamp, and each pass counts its own bets on top of it.               *)
SimulatedMarketCapped ==
    MarketCapOn => \A m \in Markets :
        100 * wagered[m] <= MaxMarketExposurePct * StartBalance

(* Although snapshots are added and trimmed while it runs, a backtest never *)
(* replays one twice, and in the end it replayed all it set out with, but   *)
(* those trimmed meanwhile and those of seconds that could not be read.     *)
ReplayedOnce ==
    /\ \A s \in Snapshot : replays[s] <= 1
    /\ pc = "done" => \A s \in known \cap snapshots :
          s.at \notin skipped => replays[s] = 1

(* What loadMarketExposure of the bot reads are the bot's own bets: those   *)
(* of a backtest go, by the comment in Run, to a table of their own.        *)
LiveExposureIsLive == \A m \in Markets : botBets[m] = liveBets[m]

=============================================================================
