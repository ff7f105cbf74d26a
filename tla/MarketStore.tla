---------------------------- MODULE MarketStore -----------------------------
(***************************************************************************)
(* The tables "markets" and "market_snapshots" of the database, and what   *)
(* writes them: the collector (internal/collector), the executor's         *)
(* EnsureMarketExists and the nightly trimming of rotate-logs.sh.          *)
(*                                                                         *)
(* The collector runs between two trading cycles, in the same goroutine;   *)
(* each of its statements commits by itself, so other processes see every  *)
(* state in between.  Of a market's row the model keeps what readers       *)
(* depend on: whether it exists, and whether its column "resolution" is    *)
(* NULL or a text (the empty text for the open markets a scan returns).    *)
(***************************************************************************)
EXTENDS Naturals, Sequences

CONSTANTS
    Markets,
    Scans,       \* what ScanAll may return: sequences of [market, liquid]
    KeepTime,    \* age at which a snapshot is trimmed, in seconds
    Faults,      \* the kinds of fault that may strike
    MaxTime,     \* bound: the clock stops here
    MaxFaults    \* bound: how many faults strike in a behaviour

FaultKinds == {"db", "crash"}

ASSUME StoreAssumption ==
    /\ Scans \subseteq Seq([market : Markets, liquid : BOOLEAN])
    /\ KeepTime \in Nat
    /\ Faults \subseteq FaultKinds
    /\ MaxTime \in Nat
    /\ MaxFaults \in Nat

VARIABLES
    rows,        \* market -> its row: absent, or its resolution column
    snapshots,   \* rows of market_snapshots
    now,         \* the clock snapshot_at is taken from, in seconds
    queue,       \* markets of the running collection, first one at work
    upserted,    \* the first one's row was written, its snapshot was not
    faults       \* ghost: faults that struck so far

storeVars == <<rows, snapshots, now, queue, upserted, faults>>

Times == 0 .. MaxTime

Snapshot == [market : Markets, at : Times]

StoreInit ==
    /\ rows = [m \in Markets |-> "absent"]
    /\ snapshots = {}
    /\ now = 0
    /\ queue = << >>
    /\ upserted = FALSE
    /\ faults = 0

(* A statement is refused, the database being locked by another process for *)
(* one (db.go sets no busy timeout), or the process dies.                   *)
Strikes(kind) ==
    /\ kind \in Faults
    /\ faults < MaxFaults
    /\ faults' = faults + 1

Collecting == queue # << >>

-----------------------------------------------------------------------------
(***************************************************************************)
(* Collector.Collect.  A scan that fails changes nothing.                  *)
(***************************************************************************)

(* ScanAll answers.  Collections are minutes apart: a second has one at most. *)
Scan(markets) ==
    /\ ~ Collecting
    /\ \A s \in snapshots : s.at < now
    /\ queue' = markets
    /\ UNCHANGED <<rows, snapshots, now, upserted, faults>>

NextMarket == queue' = Tail(queue) /\ upserted' = FALSE

(* Below min_liquidity. *)
LeaveOut ==
    /\ Collecting
    /\ ~ Head(queue).liquid
    /\ NextMarket
    /\ UNCHANGED <<rows, snapshots, now, faults>>

(* upsertMarket: resolution is assigned whether the row was there or not. *)
UpsertMarket ==
    /\ Collecting
    /\ Head(queue).liquid
    /\ ~ upserted
    /\ rows' = [rows EXCEPT ![Head(queue).market] = "text"]
    /\ upserted' = TRUE
    /\ UNCHANGED <<snapshots, now, queue, faults>>

(* Faulty: the failed upsert is logged and the snapshot taken. *)
UpsertFailsOpen ==
    /\ Collecting
    /\ Head(queue).liquid
    /\ ~ upserted
    /\ Strikes("db")
    /\ upserted' = TRUE
    /\ UNCHANGED <<rows, snapshots, now, queue>>

UpsertFails ==
    /\ Collecting
    /\ Head(queue).liquid
    /\ ~ upserted
    /\ Strikes("db")
    /\ NextMarket
    /\ UNCHANGED <<rows, snapshots, now>>

(* snapshot: the row refers to its market (foreign key) and is stamped with *)
(* the second it is written in, not with that of the scan.                  *)
TakeSnapshot ==
    /\ Collecting
    /\ upserted
    /\ rows[Head(queue).market] # "absent"
    /\ snapshots' = snapshots \cup {[market |-> Head(queue).market, at |-> now]}
    /\ NextMarket
    /\ UNCHANGED <<rows, now, faults>>

SnapshotFails ==
    /\ Collecting
    /\ upserted
    /\ Strikes("db")
    /\ NextMarket
    /\ UNCHANGED <<rows, snapshots, now>>

(* Faulty: the next process believes the first market is done. *)
CollectorDiesHalfway ==
    /\ Collecting
    /\ Strikes("crash")
    /\ queue' = << >>
    /\ UNCHANGED <<rows, snapshots, now, upserted>>

(* The bot dies in the middle of a collection; the next one starts anew. *)
CollectorDies ==
    /\ Collecting
    /\ Strikes("crash")
    /\ queue' = << >>
    /\ upserted' = FALSE
    /\ UNCHANGED <<rows, snapshots, now>>

-----------------------------------------------------------------------------
(***************************************************************************)
(* The other writers, and time.                                            *)
(***************************************************************************)

(* Faulty: INSERT OR REPLACE. *)
EnsureReplaces(m) ==
    /\ ~ Collecting
    /\ rows' = [rows EXCEPT ![m] = "null"]
    /\ UNCHANGED <<snapshots, now, queue, upserted, faults>>

(* Before a bet: INSERT OR IGNORE, without the column resolution. *)
EnsureMarketExists(m) ==
    /\ ~ Collecting
    /\ rows[m] = "absent"
    /\ rows' = [rows EXCEPT ![m] = "null"]
    /\ UNCHANGED <<snapshots, now, queue, upserted, faults>>

(* rotate-logs.sh deletes old snapshots, whoever is reading them. *)
TrimSnapshots ==
    /\ snapshots' = {s \in snapshots : s.at + KeepTime >= now}
    /\ snapshots' # snapshots
    /\ UNCHANGED <<rows, now, queue, upserted, faults>>

TimePasses ==
    /\ now < MaxTime
    /\ now' = now + 1
    /\ UNCHANGED <<rows, snapshots, queue, upserted, faults>>

StoreNext ==
    \/ \E markets \in Scans : Scan(markets)
    \/ LeaveOut
    \/ UpsertMarket \/ UpsertFails
    \/ TakeSnapshot \/ SnapshotFails
    \/ CollectorDies
    \/ \E m \in Markets : EnsureMarketExists(m)
    \/ TrimSnapshots \/ TimePasses

StoreSpec == StoreInit /\ [][StoreNext]_storeVars

-----------------------------------------------------------------------------
(* Every variable keeps its type, and only a liquid market's row is written *)
(* ahead of its snapshot.                                                   *)
StoreTypeOK ==
    /\ rows \in [Markets -> {"absent", "null", "text"}]
    /\ snapshots \subseteq Snapshot
    /\ now \in Times
    /\ queue \in Seq([market : Markets, liquid : BOOLEAN])
    /\ upserted \in BOOLEAN
    /\ faults \in 0 .. MaxFaults
    /\ upserted => Collecting /\ Head(queue).liquid

(* Whatever has a snapshot can be read with it: the backtest scans the      *)
(* column resolution into a string, which a NULL is not, and one such row   *)
(* would lose the whole timestamp (upsertMarket, EnsureMarketExists,        *)
(* loadMarketsAtTimestamp).                                                 *)
SnapshotsReadable == \A s \in snapshots : rows[s.market] = "text"

=============================================================================
