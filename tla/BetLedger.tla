----------------------------- MODULE BetLedger ------------------------------
(***************************************************************************)
(* What the bot promises about the bets it keeps on its books: in every    *)
(* market the booked mana only grows, one market at a time, and a bet is   *)
(* booked only when the market stays within the limit in force.  The limit *)
(* is a share of an account whose value nobody controls, so it may change  *)
(* at any time, and a market may be found above it: then it gets no more.  *)
(***************************************************************************)
EXTENDS Naturals

CONSTANT Markets

VARIABLES
    ledger,   \* market -> mana booked in it
    limit     \* most mana a market may hold, in hundredths

vars == <<ledger, limit>>

Init ==
    /\ ledger = [m \in Markets |-> 0]
    /\ limit \in Nat

(* The account is valued anew. *)
Observe ==
    /\ limit' \in Nat
    /\ UNCHANGED ledger

(* One bet is booked in market m. *)
Bet(m) ==
    /\ ledger'[m] \in Nat
    /\ ledger'[m] > ledger[m]
    /\ 100 * ledger'[m] <= limit
    /\ ledger' = [ledger EXCEPT ![m] = ledger'[m]]
    /\ UNCHANGED limit

Next == Observe \/ \E m \in Markets : Bet(m)

Spec == Init /\ [][Next]_vars

=============================================================================
