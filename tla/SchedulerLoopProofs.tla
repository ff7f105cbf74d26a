------------------------ MODULE SchedulerLoopProofs -------------------------
(***************************************************************************)
(* What is proved of the bot's main loop: its types, and that no tick      *)
(* waits in a channel before the tickers exist.  The two liveness          *)
(* properties of the loop stay with TLC.                                   *)
(***************************************************************************)
EXTENDS SchedulerLoop, TLAPS

(* The process starts with its channels empty. *)
LEMMA LoopInit == Init => TypeOK
BY DEF Init, TypeOK, Alive, Runs, Jobs

(* Every step of the environment, of main's goroutine and of Scheduler.Run  *)
(* keeps the types; only a ticker that exists fills its channel.            *)
LEMMA LoopStep == TypeOK /\ [Next]_vars => TypeOK'
<1>. SUFFICES ASSUME TypeOK, [Next]_vars  PROVE TypeOK'
  OBVIOUS
<1>. USE DEF TypeOK, Alive, Runs
<1>1. ASSUME NEW j \in Jobs, TickerFires(j)  PROVE TypeOK'
  BY <1>1 DEF TickerFires
<1>2. ASSUME NEW j \in Jobs, Serve(j)  PROVE TypeOK'
  BY <1>2 DEF Serve
<1>3. CASE SignalArrives
  BY <1>3 DEF SignalArrives
<1>4. CASE ReceiveSignal
  BY <1>4 DEF ReceiveSignal
<1>5. CASE Cancel
  BY <1>5 DEF Cancel
<1>6. CASE InitialRefreshFails
  BY <1>6 DEF InitialRefreshFails
<1>7. CASE FirstTrade
  BY <1>7 DEF FirstTrade
<1>8. CASE FirstCollect
  BY <1>8 DEF FirstCollect
<1>9. CASE StartTickers
  BY <1>9 DEF StartTickers
<1>10. CASE Shutdown
  BY <1>10 DEF Shutdown
<1>11. CASE Finish
  BY <1>11 DEF Finish, Jobs
<1>12. CASE UNCHANGED vars
  BY <1>12 DEF vars
<1>. QED
  BY <1>1, <1>2, <1>3, <1>4, <1>5, <1>6, <1>7, <1>8, <1>9, <1>10, <1>11,
     <1>12 DEF Next

(* Scheduler.Run is always at one of its places, and no tick waits for it   *)
(* before the refresh, the first cycle and the first collection are over    *)
(* and the tickers exist.                                                   *)
THEOREM LoopTypeCorrect == Spec => []TypeOK
BY LoopInit, LoopStep, PTL DEF Spec

=============================================================================
