--------------------------- MODULE SchedulerLoop ----------------------------
(***************************************************************************)
(* The life of the bot's process in live mode: the goroutine of main that  *)
(* turns a signal into a cancelled context (cmd/hyperkaehler/main.go), and *)
(* Scheduler.Run with its three tickers (internal/scheduler/scheduler.go). *)
(* What a trading cycle, a collection and a report do is in other modules: *)
(* here they take some time and end.                                       *)
(***************************************************************************)
EXTENDS Naturals

Jobs == {"trade", "collect", "report"}

VARIABLES
    run,        \* where Scheduler.Run is
    tickers,    \* whether the tickers exist
    ticks,      \* job -> whether its ticker's one-slot channel is full
    signal,     \* whether the one-slot sigCh is full
    handler,    \* the goroutine waiting for a signal
    cancelled   \* ctx.Done() is closed

vars == <<run, tickers, ticks, signal, handler, cancelled>>

(* Faulty: the tickers fire at once. *)
InitTicked ==
    /\ run = "refresh"
    /\ tickers = FALSE
    /\ ticks = [j \in Jobs |-> TRUE]
    /\ signal = FALSE
    /\ handler = "waiting"
    /\ cancelled = FALSE

Init ==
    /\ run = "refresh"
    /\ tickers = FALSE
    /\ ticks = [j \in Jobs |-> FALSE]
    /\ signal = FALSE
    /\ handler = "waiting"
    /\ cancelled = FALSE

Alive == run # "returned"

-----------------------------------------------------------------------------
(***************************************************************************)
(* The environment: time passes and signals arrive.                        *)
(***************************************************************************)

(* A ticker whose channel is full drops the tick. *)
TickerFires(j) ==
    /\ tickers
    /\ Alive
    /\ ticks' = [ticks EXCEPT ![j] = TRUE]
    /\ UNCHANGED <<run, tickers, signal, handler, cancelled>>

(* signal.Notify never blocks: a signal that finds the slot full is lost. *)
SignalArrives ==
    /\ Alive
    /\ signal' = TRUE
    /\ UNCHANGED <<run, tickers, ticks, handler, cancelled>>

-----------------------------------------------------------------------------
(***************************************************************************)
(* The goroutine of main: one receive, then cancel.                        *)
(***************************************************************************)

(* Faulty: the signal is logged, the context lives on. *)
ReceivedIgnored ==
    /\ handler = "received"
    /\ handler' = "done"
    /\ UNCHANGED <<run, tickers, ticks, signal, cancelled>>

ReceiveSignal ==
    /\ Alive
    /\ handler = "waiting"
    /\ signal
    /\ signal' = FALSE
    /\ handler' = "received"
    /\ UNCHANGED <<run, tickers, ticks, cancelled>>

Cancel ==
    /\ Alive
    /\ handler = "received"
    /\ cancelled' = TRUE
    /\ handler' = "done"
    /\ UNCHANGED <<run, tickers, ticks, signal>>

-----------------------------------------------------------------------------
(***************************************************************************)
(* Scheduler.Run.                                                          *)
(***************************************************************************)

(* The initial refresh fails: Run returns, and main exits with an error. *)
InitialRefreshFails ==
    /\ run = "refresh"
    /\ run' = "returned"
    /\ UNCHANGED <<tickers, ticks, signal, handler, cancelled>>

(* The first cycle and the first collection come before the tickers exist; *)
(* the context is not looked at.                                           *)
FirstTrade ==
    /\ run = "refresh"
    /\ run' = "first trade"
    /\ UNCHANGED <<tickers, ticks, signal, handler, cancelled>>

FirstCollect ==
    /\ run = "first trade"
    /\ run' = "first collect"
    /\ UNCHANGED <<tickers, ticks, signal, handler, cancelled>>

StartTickers ==
    /\ run = "first collect"
    /\ tickers' = TRUE
    /\ run' = "select"
    /\ UNCHANGED <<ticks, signal, handler, cancelled>>

(* The case of select for ctx.Done(): the deferred Stops end the tickers. *)
Shutdown ==
    /\ run = "select"
    /\ cancelled
    /\ run' = "returned"
    /\ tickers' = FALSE
    /\ UNCHANGED <<ticks, signal, handler, cancelled>>

(* Faulty: the cases are tried in the order they are written. *)
ServeInOrder(j) ==
    /\ run = "select"
    /\ ticks[j]
    /\ j = "collect" => ~ ticks["trade"]
    /\ j = "report" => ~ ticks["trade"] /\ ~ ticks["collect"]
    /\ ticks' = [ticks EXCEPT ![j] = FALSE]
    /\ run' = j
    /\ UNCHANGED <<tickers, signal, handler, cancelled>>

(* The case of select for the ticker of job j; any ready case is chosen. *)
Serve(j) ==
    /\ run = "select"
    /\ ticks[j]
    /\ ticks' = [ticks EXCEPT ![j] = FALSE]
    /\ run' = j
    /\ UNCHANGED <<tickers, signal, handler, cancelled>>

(* The job returns, whatever became of it, to the select. *)
Finish ==
    /\ run \in Jobs
    /\ run' = "select"
    /\ UNCHANGED <<tickers, ticks, signal, handler, cancelled>>

Next ==
    \/ \E j \in Jobs : TickerFires(j) \/ Serve(j)
    \/ SignalArrives \/ ReceiveSignal \/ Cancel
    \/ InitialRefreshFails \/ FirstTrade \/ FirstCollect \/ StartTickers
    \/ Shutdown \/ Finish

(***************************************************************************)
(* Goroutines that can run do run, jobs end, tickers fire.  Among several  *)
(* ready cases select takes one at random, so none is passed over for ever *)
(* although others are ready each time: strong fairness of every case.     *)
(***************************************************************************)
Fairness ==
    /\ WF_vars(ReceiveSignal) /\ WF_vars(Cancel)
    /\ WF_vars(InitialRefreshFails \/ FirstTrade)
    /\ WF_vars(FirstCollect) /\ WF_vars(StartTickers) /\ WF_vars(Finish)
    /\ SF_vars(Shutdown)
    /\ \A j \in Jobs : SF_vars(Serve(j))

Spec == Init /\ [][Next]_vars /\ Fairness

-----------------------------------------------------------------------------
Runs == {"refresh", "first trade", "first collect", "select", "returned"} \cup Jobs

(* Every variable keeps its type, and no tick waits before there are        *)
(* tickers.                                                                 *)
TypeOK ==
    /\ run \in Runs
    /\ tickers \in BOOLEAN
    /\ ticks \in [Jobs -> BOOLEAN]
    /\ signal \in BOOLEAN
    /\ handler \in {"waiting", "received", "done"}
    /\ cancelled \in BOOLEAN
    /\ ~ tickers /\ Alive => \A j \in Jobs : ~ ticks[j]

(* A signal ends the process, however busy the tickers keep the loop: the   *)
(* running job is finished, and ctx.Done() wins a select sooner or later.   *)
SignalStops == signal ~> ~ Alive

(* No job starves: a tick that waits is served, unless the process returns. *)
EveryTickServed ==
    \A j \in Jobs : ticks[j] ~> run = j \/ ~ Alive

=============================================================================
