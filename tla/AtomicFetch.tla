---------------------------- MODULE AtomicFetch -----------------------------
(***************************************************************************)
(* What enrichWithResolution (internal/market/scanner.go) promises the     *)
(* scan: every candidate's request is answered once, with the market or    *)
(* with nothing, each answer takes effect in one step, and the scan goes   *)
(* on when all are answered.  SignalScan models the requests like that.    *)
(***************************************************************************)

CONSTANT Candidates

VARIABLES
    unfetched,   \* candidates whose request is still to be answered
    told,        \* candidates whose answers the scan has resolutions for
    over         \* the scan goes on

vars == <<unfetched, told, over>>

Init ==
    /\ unfetched = Candidates
    /\ told = {}
    /\ over = FALSE

Fetch(c) ==
    /\ c \in unfetched
    /\ unfetched' = unfetched \ {c}
    /\ told' \in {told, told \cup {c}}
    /\ UNCHANGED over

GoOn ==
    /\ ~ over
    /\ unfetched = {}
    /\ over' = TRUE
    /\ UNCHANGED <<unfetched, told>>

Next == GoOn \/ \E c \in Candidates : Fetch(c)

Spec == Init /\ [][Next]_vars

=============================================================================
