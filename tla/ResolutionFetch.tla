-------------------------- MODULE ResolutionFetch ---------------------------
(***************************************************************************)
(* Scanner.enrichWithResolution (internal/market/scanner.go): one          *)
(* goroutine per candidate market fetches the market's answers, at most    *)
(* Parallel at a time; the results come back over a buffered channel that  *)
(* a further goroutine closes when all of them are done, and the caller    *)
(* applies them one by one.                                                *)
(***************************************************************************)
EXTENDS Integers, Sequences, FiniteSets

CONSTANTS
    Candidates,   \* the markets whose answers are fetched
    Parallel      \* capacity of sem, 10 in the code

ASSUME FetchAssumption ==
    /\ IsFiniteSet(Candidates)
    /\ Candidates # {}
    /\ Parallel \in Nat \ {0}

VARIABLES
    main,      \* where the calling goroutine is
    worker,    \* candidate -> where its goroutine is
    wg,        \* the WaitGroup's counter
    sem,       \* how many slots of sem are taken
    closer,    \* the goroutine that closes results
    results,   \* the channel, a sequence of candidates
    closed,    \* whether results is closed
    applied,   \* ghost: how often each candidate's result was applied
    failed     \* ghost: candidates whose fetch brought no market

vars == <<main, worker, wg, sem, closer, results, closed, applied, failed>>

(* Faulty: room for the requests in flight only. *)
ParallelCapacity == Parallel

(* The channel has room for one result of each candidate. *)
Capacity == Cardinality(Candidates)

Init ==
    /\ main = "spawn"
    /\ worker = [c \in Candidates |-> "none"]
    /\ wg = 0
    /\ sem = 0
    /\ closer = "none"
    /\ results = << >>
    /\ closed = FALSE
    /\ applied = [c \in Candidates |-> 0]
    /\ failed = {}

-----------------------------------------------------------------------------
(* wg.Add(1), and the goroutine exists. *)
Spawn(c) ==
    /\ main = "spawn"
    /\ worker[c] = "none"
    /\ wg' = wg + 1
    /\ worker' = [worker EXCEPT ![c] = "acquire"]
    /\ UNCHANGED <<main, sem, closer, results, closed, applied, failed>>

(* All are spawned: the closing goroutine is too, and the draining begins. *)
StartCloser ==
    /\ main = "spawn"
    /\ \A c \in Candidates : worker[c] # "none"
    /\ closer' = "wait"
    /\ main' = "drain"
    /\ UNCHANGED <<worker, wg, sem, results, closed, applied, failed>>

(* Faulty: the Wait is forgotten. *)
WaitSkipped ==
    /\ closer = "wait"
    /\ closer' = "close"
    /\ UNCHANGED <<main, worker, wg, sem, results, closed, applied, failed>>

(* wg.Wait() returns. *)
WaitReturns ==
    /\ closer = "wait"
    /\ wg = 0
    /\ closer' = "close"
    /\ UNCHANGED <<main, worker, wg, sem, results, closed, applied, failed>>

CloseResults ==
    /\ closer = "close"
    /\ closed' = TRUE
    /\ closer' = "done"
    /\ UNCHANGED <<main, worker, wg, sem, results, applied, failed>>

-----------------------------------------------------------------------------
(***************************************************************************)
(* The goroutine of candidate c.                                           *)
(***************************************************************************)
Move(c, from, to) ==
    /\ worker[c] = from
    /\ worker' = [worker EXCEPT ![c] = to]

Acquire(c) ==
    /\ Move(c, "acquire", "fetch")
    /\ sem < Parallel
    /\ sem' = sem + 1
    /\ UNCHANGED <<main, wg, closer, results, closed, applied, failed>>

FetchSucceeds(c) ==
    /\ Move(c, "fetch", "send")
    /\ UNCHANGED <<main, wg, sem, closer, results, closed, applied, failed>>

(* Faulty: the early return keeps the slot. *)
FetchFailsHolding(c) ==
    /\ Move(c, "fetch", "finish")
    /\ failed' = failed \cup {c}
    /\ UNCHANGED <<main, wg, sem, closer, results, closed, applied>>

(* GetMarketByID fails, or finds nothing: the candidate stays as it was. *)
FetchFails(c) ==
    /\ Move(c, "fetch", "release")
    /\ failed' = failed \cup {c}
    /\ UNCHANGED <<main, wg, sem, closer, results, closed, applied>>

(* Blocks while the channel is full, and panics when it is closed. *)
Send(c) ==
    /\ Move(c, "send", "release")
    /\ Len(results) < Capacity
    /\ results' = Append(results, c)
    /\ UNCHANGED <<main, wg, sem, closer, closed, applied, failed>>

(* The deferred calls run last to first: the slot is given back ... *)
Release(c) ==
    /\ Move(c, "release", "finish")
    /\ sem' = sem - 1
    /\ UNCHANGED <<main, wg, closer, results, closed, applied, failed>>

(* ... and then wg.Done(). *)
Finish(c) ==
    /\ Move(c, "finish", "done")
    /\ wg' = wg - 1
    /\ UNCHANGED <<main, sem, closer, results, closed, applied, failed>>

-----------------------------------------------------------------------------
(***************************************************************************)
(* The caller ranges over results.                                         *)
(***************************************************************************)

Apply ==
    /\ main = "drain"
    /\ results # << >>
    /\ results' = Tail(results)
    /\ applied' = [applied EXCEPT ![Head(results)] = @ + 1]
    /\ UNCHANGED <<main, worker, wg, sem, closer, closed, failed>>

(* Faulty: what is still buffered is not read. *)
DrainEndsWhenClosed ==
    /\ main = "drain"
    /\ closed
    /\ main' = "done"
    /\ UNCHANGED <<worker, wg, sem, closer, results, closed, applied, failed>>

(* The channel is closed and empty. *)
DrainEnds ==
    /\ main = "drain"
    /\ results = << >>
    /\ closed
    /\ main' = "done"
    /\ UNCHANGED <<worker, wg, sem, closer, results, closed, applied, failed>>

Work(c) ==
    \/ Acquire(c) \/ FetchSucceeds(c) \/ FetchFails(c)
    \/ Send(c) \/ Release(c) \/ Finish(c)

Main == StartCloser \/ Apply \/ DrainEnds \/ \E c \in Candidates : Spawn(c)

Closer == WaitReturns \/ CloseResults

Next == Main \/ Closer \/ \E c \in Candidates : Work(c)

(***************************************************************************)
(* Every goroutine that can run does, and every request is answered or     *)
(* fails: the code sets no deadline of its own.                            *)
(***************************************************************************)
Fairness ==
    /\ WF_vars(Main) /\ WF_vars(Closer)
    /\ \A c \in Candidates : WF_vars(Work(c))

Spec == Init /\ [][Next]_vars /\ Fairness

-----------------------------------------------------------------------------
(* Goroutines that were spawned and have not called Done. *)
Running == {c \in Candidates : worker[c] \notin {"none", "done"}}

(* Goroutines that hold a slot of sem. *)
Holding == {c \in Candidates : worker[c] \in {"fetch", "send", "release"}}

(* Every variable keeps its type, and the two counters count goroutines.    *)
TypeOK ==
    /\ main \in {"spawn", "drain", "done"}
    /\ worker \in [Candidates -> {"none", "acquire", "fetch", "send",
                                  "release", "finish", "done"}]
    /\ wg = Cardinality(Running)
    /\ sem = Cardinality(Holding)
    /\ closer \in {"none", "wait", "close", "done"}
    /\ results \in Seq(Candidates)
    /\ closed \in BOOLEAN
    /\ applied \in [Candidates -> Nat]
    /\ failed \subseteq Candidates

(* No goroutine sends on the closed channel, which would end the process:   *)
(* the closing goroutine waits for every Done, and Done comes after Send.   *)
NoSendOnClosed == \A c \in Candidates : worker[c] = "send" => ~ closed

(* A send never waits for the caller: the buffer has room for all results,  *)
(* so no slot of sem is held by a goroutine that only waits to be read.     *)
SendNeverBlocks ==
    \A c \in Candidates : worker[c] = "send" => Len(results) < Capacity

(* When the scan goes on, every result was applied, once each, and only the *)
(* failed fetches have none: no result is left in the channel or a          *)
(* goroutine (enrichWithResolution).                                        *)
NoResultLost ==
    main = "done" =>
        \A c \in Candidates : applied[c] = IF c \in failed THEN 0 ELSE 1

-----------------------------------------------------------------------------
(***************************************************************************)
(* The goroutines do what AtomicFetch says.  A request counts as answered  *)
(* when GetMarketByID returns.  While the scan waits, its answer is on its *)
(* way or applied; once the scan goes on, only what was applied counts.    *)
(***************************************************************************)
Unanswered == {c \in Candidates : worker[c] \in {"none", "acquire", "fetch"}}

Told ==
    {c \in Candidates :
        IF main = "done" THEN applied[c] = 1
                         ELSE c \notin Unanswered \cup failed}

Requests == INSTANCE AtomicFetch
               WITH unfetched <- Unanswered, told <- Told, over <- main = "done"

(* The spawned goroutines, the semaphore, the channel and its closing are   *)
(* as good as one atomic step per request, after all of which the scan goes *)
(* on with every resolution it was told (enrichWithResolution).             *)
ImplementsAtomicFetch == Requests!Spec

(* The scan comes back from fetching, whatever fails.                       *)
FetchReturns == <>(main = "done")

=============================================================================
