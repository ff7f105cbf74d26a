----------------------- MODULE ResolutionFetchProofs ------------------------
(***************************************************************************)
(* Theorems about ResolutionFetch, for any finite set of candidates and    *)
(* any number of slots.                                                    *)
(***************************************************************************)
EXTENDS ResolutionFetch, FiniteSetTheorems, TLAPS

-----------------------------------------------------------------------------
(* The goroutines past their send.                                          *)
Sent == {c \in Candidates : worker[c] \in {"release", "finish", "done"}}

(* The order of spawning, waiting and closing.                              *)
Order ==
    /\ main # "spawn" => \A c \in Candidates : worker[c] # "none"
    /\ closer # "none" => main # "spawn"
    /\ closer \in {"close", "done"} => wg = 0
    /\ closed => closer = "done"

(* At most one result is buffered per goroutine past its send.              *)
Buffered == Len(results) <= Cardinality(Sent)

IInv == TypeOK /\ Order /\ Buffered

LEMMA Finite ==
    /\ IsFiniteSet(Running) /\ IsFiniteSet(Holding) /\ IsFiniteSet(Sent)
    /\ Cardinality(Running) \in Nat /\ Cardinality(Holding) \in Nat
    /\ Cardinality(Sent) \in Nat
<1>1. Running \subseteq Candidates /\ Holding \subseteq Candidates
      /\ Sent \subseteq Candidates
  BY DEF Running, Holding, Sent
<1>2. IsFiniteSet(Running) /\ IsFiniteSet(Holding) /\ IsFiniteSet(Sent)
  BY <1>1, FetchAssumption, FS_Subset
<1>. QED  BY <1>2, FS_CardinalityType

(* No goroutine is left to count when the counter is zero.                  *)
LEMMA NoneRunning ==
    ASSUME TypeOK, wg = 0
    PROVE  \A c \in Candidates : worker[c] \in {"none", "done"}
<1>1. Running = {}
  BY Finite, FS_EmptySet DEF TypeOK
<1>. QED  BY <1>1 DEF Running

LEMMA InitInv == Init => IInv
<1>. SUFFICES ASSUME Init  PROVE IInv
  OBVIOUS
<1>1. Running = {} /\ Holding = {} /\ Sent = {}
  BY DEF Init, Running, Holding, Sent
<1>2. Cardinality({}) = 0
  BY FS_EmptySet
<1>3. TypeOK
  <2>1. results \in Seq(Candidates)
    BY DEF Init
  <2>. QED  BY <1>1, <1>2, <2>1 DEF Init, TypeOK
<1>4. Order
  BY DEF Init, Order
<1>5. Buffered
  <2>1. Len(results) = 0
    BY DEF Init
  <2>. QED  BY <1>1, <1>2, <2>1 DEF Buffered
<1>. QED  BY <1>3, <1>4, <1>5 DEF IInv

-----------------------------------------------------------------------------
(* The steps of one goroutine.                                              *)
LEMMA WorkStep ==
    ASSUME IInv, NEW c \in Candidates, Spawn(c) \/ Work(c)
    PROVE  IInv'
<1>. USE DEF IInv
<1>1. TypeOK /\ Order /\ Buffered
  OBVIOUS
<1>2. worker \in [Candidates -> {"none", "acquire", "fetch", "send",
                                "release", "finish", "done"}]
  BY DEF TypeOK
<1>3. CASE Spawn(c)
  <2>1. /\ Running' = Running \cup {c} /\ c \notin Running
        /\ Holding' = Holding /\ Sent' = Sent
    BY <1>2, <1>3 DEF Spawn, Running, Holding, Sent
  <2>2. wg' = Cardinality(Running')
    BY <1>3, <2>1, Finite, FS_AddElement DEF Spawn, TypeOK
  <2>3. TypeOK'
    BY <1>3, <2>1, <2>2 DEF Spawn, TypeOK
  <2>4. Order'
    BY <1>3 DEF Spawn, Order
  <2>. QED  BY <1>3, <2>1, <2>3, <2>4 DEF Spawn, Buffered
<1>4. CASE Acquire(c)
  <2>1. /\ Running' = Running /\ Sent' = Sent
        /\ Holding' = Holding \cup {c} /\ c \notin Holding
    BY <1>2, <1>4 DEF Acquire, Move, Running, Holding, Sent
  <2>2. sem' = Cardinality(Holding')
    BY <1>4, <2>1, Finite, FS_AddElement DEF Acquire, TypeOK
  <2>3. TypeOK'
    BY <1>4, <2>1, <2>2 DEF Acquire, Move, TypeOK
  <2>4. Order'
    BY <1>2, <1>4 DEF Acquire, Move, Order
  <2>. QED  BY <1>4, <2>1, <2>3, <2>4 DEF Acquire, Buffered
<1>5. CASE FetchSucceeds(c)
  <2>1. Running' = Running /\ Holding' = Holding /\ Sent' = Sent
    BY <1>2, <1>5 DEF FetchSucceeds, Move, Running, Holding, Sent
  <2>2. TypeOK'
    BY <1>5, <2>1 DEF FetchSucceeds, Move, TypeOK
  <2>3. Order'
    BY <1>2, <1>5 DEF FetchSucceeds, Move, Order
  <2>. QED  BY <1>5, <2>1, <2>2, <2>3 DEF FetchSucceeds, Buffered
<1>6. CASE FetchFails(c) \/ Send(c)
  <2>1. /\ Running' = Running /\ Holding' = Holding
        /\ Sent' = Sent \cup {c} /\ c \notin Sent
    BY <1>2, <1>6 DEF FetchFails, Send, Move, Running, Holding, Sent
  <2>2. Cardinality(Sent') = Cardinality(Sent) + 1
    BY <2>1, Finite, FS_AddElement
  <2>3. /\ results' \in Seq(Candidates)
        /\ Len(results) \in Nat
        /\ Len(results') <= Len(results) + 1
        /\ Len(results') \in Nat
    BY <1>6 DEF FetchFails, Send, TypeOK
  <2>4. TypeOK'
    BY <1>6, <2>1, <2>3 DEF FetchFails, Send, Move, TypeOK
  <2>5. Order'
    BY <1>2, <1>6 DEF FetchFails, Send, Move, Order
  <2>6. Buffered'
    BY <2>2, <2>3, Finite DEF Buffered
  <2>. QED  BY <2>4, <2>5, <2>6
<1>7. CASE Release(c)
  <2>1. /\ Running' = Running /\ Sent' = Sent
        /\ Holding' = Holding \ {c} /\ c \in Holding
    BY <1>2, <1>7 DEF Release, Move, Running, Holding, Sent
  <2>2. sem' = Cardinality(Holding')
    BY <1>7, <2>1, Finite, FS_RemoveElement DEF Release, TypeOK
  <2>3. TypeOK'
    BY <1>7, <2>1, <2>2 DEF Release, Move, TypeOK
  <2>4. Order'
    BY <1>2, <1>7 DEF Release, Move, Order
  <2>. QED  BY <1>7, <2>1, <2>3, <2>4 DEF Release, Buffered
<1>8. CASE Finish(c)
  <2>1. /\ Running' = Running \ {c} /\ c \in Running
        /\ Holding' = Holding /\ Sent' = Sent
    BY <1>2, <1>8 DEF Finish, Move, Running, Holding, Sent
  <2>2. wg' = Cardinality(Running')
    BY <1>8, <2>1, Finite, FS_RemoveElement DEF Finish, TypeOK
  <2>3. TypeOK'
    BY <1>8, <2>1, <2>2 DEF Finish, Move, TypeOK
  <2>4. wg # 0
    BY <1>8, NoneRunning DEF Finish, Move
  <2>5. Order'
    BY <1>2, <1>8, <2>4 DEF Finish, Move, Order
  <2>. QED  BY <1>8, <2>1, <2>3, <2>5 DEF Finish, Buffered
<1>. QED  BY <1>3, <1>4, <1>5, <1>6, <1>7, <1>8 DEF Work

LEMMA Step == IInv /\ [Next]_vars => IInv'
<1>. SUFFICES ASSUME IInv, [Next]_vars  PROVE IInv'
  OBVIOUS
<1>. USE DEF IInv
<1>2. CASE StartCloser
  BY <1>2 DEF StartCloser, TypeOK, Order, Buffered, Running, Holding, Sent
<1>3. CASE WaitReturns \/ CloseResults
  <2>1. UNCHANGED <<main, worker, wg, sem, results, applied, failed>>
    BY <1>3 DEF WaitReturns, CloseResults
  <2>2. Running' = Running /\ Holding' = Holding /\ Sent' = Sent
    BY <2>1 DEF Running, Holding, Sent
  <2>3. closer' \in {"close", "done"} /\ wg = 0 /\ closer # "none"
    BY <1>3 DEF WaitReturns, CloseResults, Order
  <2>4. /\ closed' \in BOOLEAN
        /\ closed' => closer' = "done"
    <3>1. CASE WaitReturns
      <4>1. closed' = closed /\ closer # "done"
        BY <3>1 DEF WaitReturns
      <4>. QED  BY <4>1 DEF Order, TypeOK
    <3>2. CASE CloseResults
      BY <3>2 DEF CloseResults
    <3>. QED  BY <1>3, <3>1, <3>2
  <2>5. TypeOK'
    BY <2>1, <2>2, <2>3, <2>4 DEF TypeOK
  <2>6. Order'
    BY <2>1, <2>3, <2>4 DEF Order
  <2>. QED  BY <2>1, <2>2, <2>5, <2>6 DEF Buffered
<1>4. CASE Apply
  <2>1. /\ results \in Seq(Candidates) /\ results # << >>
        /\ results' = Tail(results) /\ UNCHANGED worker
    BY <1>4 DEF Apply, TypeOK
  <2>2. /\ Head(results) \in Candidates
        /\ results' \in Seq(Candidates)
        /\ Len(results) \in Nat
        /\ Len(results') <= Len(results) /\ Len(results') \in Nat
    BY <2>1
  <2>3. Running' = Running /\ Holding' = Holding /\ Sent' = Sent
    BY <2>1 DEF Running, Holding, Sent
  <2>4. TypeOK'
    BY <1>4, <2>2, <2>3 DEF Apply, TypeOK
  <2>5. Order'
    BY <1>4 DEF Apply, Order
  <2>6. Buffered'
    BY <2>2, <2>3, Finite DEF Buffered
  <2>. QED  BY <2>4, <2>5, <2>6
<1>5. CASE DrainEnds
  BY <1>5 DEF DrainEnds, TypeOK, Order, Buffered, Running, Holding, Sent
<1>6. CASE UNCHANGED vars
  BY <1>6 DEF vars, TypeOK, Order, Buffered, Running, Holding, Sent
<1>. QED
  BY <1>2, <1>3, <1>4, <1>5, <1>6, WorkStep DEF Next, Main, Closer

LEMMA Invariant == Spec => []IInv
BY InitInv, Step, PTL DEF Spec

-----------------------------------------------------------------------------
(* The WaitGroup and the semaphore count exactly the goroutines they are    *)
(* meant to count, however fetches fail.                                    *)
THEOREM TypeCorrect == Spec => []TypeOK
BY Invariant, PTL DEF IInv

(* The results channel is closed only when no goroutine can send any more:  *)
(* no number of candidates or slots makes the scan panic.                   *)
THEOREM NeverSendOnClosed == Spec => []NoSendOnClosed
<1>1. IInv => NoSendOnClosed
  BY NoneRunning DEF IInv, Order, NoSendOnClosed
<1>. QED  BY <1>1, Invariant, PTL

(* A goroutine with a result always finds room in the channel, so it never  *)
(* keeps its slot of sem waiting for the caller.                            *)
THEOREM SendAlwaysFits == Spec => []SendNeverBlocks
<1>1. IInv => SendNeverBlocks
  <2>. SUFFICES ASSUME IInv, NEW c \in Candidates, worker[c] = "send"
                PROVE  Len(results) < Capacity
    BY DEF SendNeverBlocks
  <2>1. Sent \subseteq Candidates /\ c \notin Sent
    BY DEF Sent
  <2>2. /\ Cardinality(Sent) <= Cardinality(Candidates)
        /\ Cardinality(Sent) # Cardinality(Candidates)
    BY <2>1, FetchAssumption, FS_Subset
  <2>3. Cardinality(Candidates) \in Nat /\ Cardinality(Sent) \in Nat
    BY FetchAssumption, FS_CardinalityType, Finite
  <2>4. Len(results) \in Nat
    BY DEF IInv, TypeOK
  <2>. QED  BY <2>2, <2>3, <2>4 DEF IInv, Buffered, Capacity
<1>. QED  BY <1>1, Invariant, PTL

-----------------------------------------------------------------------------
(***************************************************************************)
(* A result is in one place: not sent yet, in the channel, or applied.     *)
(***************************************************************************)
InChannel(c) == \E i \in DOMAIN results : results[i] = c

Delivery ==
    /\ \A i, j \in DOMAIN results : results[i] = results[j] => i = j
    /\ \A c \in Candidates :
          /\ InChannel(c) => c \in Sent /\ c \notin failed /\ applied[c] = 0
          /\ applied[c] # 0 => applied[c] = 1 /\ c \in Sent /\ c \notin failed
          /\ c \in failed => c \in Sent
          /\ c \in Sent /\ c \notin failed /\ applied[c] = 0 => InChannel(c)
    /\ main = "done" => closed /\ results = << >>

(* What leaves the channel is its first result, and the others move up.     *)
LEMMA TailElements ==
    ASSUME NEW S, NEW s \in Seq(S), s # << >>
    PROVE  /\ 1 \in DOMAIN s /\ Head(s) = s[1]
           /\ \A i \in DOMAIN Tail(s) : i + 1 \in DOMAIN s /\ Tail(s)[i] = s[i + 1]
           /\ \A i \in DOMAIN s : i # 1 => i - 1 \in DOMAIN Tail(s) /\ Tail(s)[i - 1] = s[i]
  OBVIOUS

LEMMA SendDelivers ==
    ASSUME IInv, Delivery, NEW c \in Candidates, Send(c)
    PROVE  Delivery'
<1>. USE DEF IInv, TypeOK
<1>1. c \notin Sent /\ Sent' = Sent \cup {c}
  BY DEF Send, Move, Sent
<1>2. ~ InChannel(c) /\ applied[c] = 0 /\ c \notin failed
  BY <1>1 DEF Delivery
<1>3. /\ Len(results) \in Nat /\ DOMAIN results = 1 .. Len(results)
      /\ DOMAIN results' = 1 .. Len(results) + 1
      /\ results'[Len(results) + 1] = c
      /\ \A i \in 1 .. Len(results) : results'[i] = results[i]
  BY DEF Send
<1>4. \A d \in Candidates : InChannel(d)' <=> InChannel(d) \/ d = c
  <2>. TAKE d \in Candidates
  <2>1. ASSUME InChannel(d)'  PROVE InChannel(d) \/ d = c
    <3>. PICK i \in DOMAIN results' : results'[i] = d
      BY <2>1 DEF InChannel
    <3>1. i \in 1 .. Len(results) \/ i = Len(results) + 1
      BY <1>3
    <3>. QED  BY <1>3, <3>1 DEF InChannel
  <2>2. ASSUME InChannel(d)  PROVE InChannel(d)'
    <3>. PICK i \in 1 .. Len(results) : results[i] = d
      BY <1>3, <2>2 DEF InChannel
    <3>1. i \in DOMAIN results' /\ results'[i] = d
      BY <1>3
    <3>. QED  BY <3>1 DEF InChannel
  <2>3. InChannel(c)'
    BY <1>3 DEF InChannel
  <2>. QED  BY <2>1, <2>2, <2>3
<1>5. \A i, j \in DOMAIN results' : results'[i] = results'[j] => i = j
  BY <1>2, <1>3 DEF Delivery, InChannel
<1>6. UNCHANGED <<main, applied, failed>> /\ main # "done"
  <2>1. closed => worker[c] # "send"
    BY NoneRunning DEF Order
  <2>. QED  BY <2>1 DEF Send, Move, Delivery
<1>. QED  BY <1>1, <1>2, <1>4, <1>5, <1>6 DEF Delivery

LEMMA ApplyDelivers ==
    ASSUME IInv, Delivery, Apply
    PROVE  Delivery'
<1>. DEFINE first == Head(results)
<1>. USE DEF IInv, TypeOK
<1>1. /\ results \in Seq(Candidates) /\ results # << >> /\ results' = Tail(results)
      /\ applied' = [applied EXCEPT ![first] = @ + 1]
      /\ UNCHANGED <<worker, failed>> /\ main' # "done"
  BY DEF Apply
<1>2. /\ 1 \in DOMAIN results /\ first = results[1] /\ first \in Candidates
      /\ \A i \in DOMAIN results' : i + 1 \in DOMAIN results /\ results'[i] = results[i + 1]
      /\ \A i \in DOMAIN results : i # 1 =>
            i - 1 \in DOMAIN results' /\ results'[i - 1] = results[i]
  BY <1>1, TailElements
<1>3. /\ DOMAIN results \subseteq Nat \ {0} /\ DOMAIN results' \subseteq Nat \ {0}
  BY <1>1
<1>4. InChannel(first) /\ applied[first] = 0 /\ first \in Sent /\ first \notin failed
  BY <1>2 DEF Delivery, InChannel
<1>5. \A d \in Candidates : InChannel(d)' <=> InChannel(d) /\ d # first
  <2>. TAKE d \in Candidates
  <2>1. ASSUME InChannel(d)'  PROVE InChannel(d) /\ d # first
    BY <1>2, <1>3, <2>1 DEF InChannel, Delivery
  <2>2. ASSUME InChannel(d), d # first  PROVE InChannel(d)'
    BY <1>2, <2>2 DEF InChannel
  <2>. QED  BY <2>1, <2>2
<1>6. \A i, j \in DOMAIN results' : results'[i] = results'[j] => i = j
  BY <1>2, <1>3 DEF Delivery
<1>7. Sent' = Sent
  BY <1>1 DEF Sent
<1>8. /\ applied'[first] = 1
      /\ \A d \in Candidates : d # first => applied'[d] = applied[d]
  BY <1>1, <1>2, <1>4
<1>. QED  BY <1>1, <1>4, <1>5, <1>6, <1>7, <1>8 DEF Delivery

LEMMA DeliveryStep == IInv /\ Delivery /\ [Next]_vars => Delivery'
<1>. SUFFICES ASSUME IInv, Delivery, [Next]_vars  PROVE Delivery'
  OBVIOUS
<1>1. CASE \E c \in Candidates : Send(c)
  BY <1>1, SendDelivers
<1>2. CASE Apply
  BY <1>2, ApplyDelivers
<1>3. CASE \E c \in Candidates : FetchFails(c)
  <2>. PICK c \in Candidates : FetchFails(c)
    BY <1>3
  <2>1. c \notin Sent /\ Sent' = Sent \cup {c} /\ failed' = failed \cup {c}
    BY DEF FetchFails, Move, Sent, IInv, TypeOK
  <2>2. UNCHANGED <<main, results, closed, applied>>
    BY DEF FetchFails
  <2>. QED  BY <2>1, <2>2 DEF Delivery, InChannel
<1>4. CASE \E c \in Candidates :
              Spawn(c) \/ Acquire(c) \/ FetchSucceeds(c) \/ Release(c) \/ Finish(c)
  <2>1. Sent' = Sent
    BY <1>4 DEF Spawn, Acquire, FetchSucceeds, Release, Finish, Move, Sent, IInv, TypeOK
  <2>2. UNCHANGED <<main, results, closed, applied, failed>>
    BY <1>4 DEF Spawn, Acquire, FetchSucceeds, Release, Finish
  <2>. QED  BY <2>1, <2>2 DEF Delivery, InChannel
<1>5. CASE StartCloser \/ WaitReturns \/ CloseResults \/ DrainEnds \/ UNCHANGED vars
  <2>1. Sent' = Sent /\ UNCHANGED <<results, applied, failed>>
    BY <1>5 DEF StartCloser, WaitReturns, CloseResults, DrainEnds, vars, Sent
  <2>2. main' = "done" => closed' /\ results' = << >>
    BY <1>5 DEF StartCloser, WaitReturns, CloseResults, DrainEnds, vars, Delivery
  <2>. QED  BY <2>1, <2>2 DEF Delivery, InChannel
<1>. QED
  BY <1>1, <1>2, <1>3, <1>4, <1>5 DEF Next, Main, Closer, Work

(* When the scan goes on, each candidate's result was applied exactly once  *)
(* if its fetch brought one, and not at all otherwise: nothing is left in   *)
(* the channel, in a goroutine, or counted twice.                           *)
THEOREM NoResultEverLost == Spec => []NoResultLost
<1>1. Init => Delivery
  BY DEF Init, Delivery, InChannel, Sent
<1>2. IInv /\ Delivery => NoResultLost
  <2>. SUFFICES ASSUME IInv, Delivery, main = "done", NEW c \in Candidates
                PROVE  applied[c] = IF c \in failed THEN 0 ELSE 1
    BY DEF NoResultLost
  <2>1. closed /\ results = << >>
    BY DEF Delivery
  <2>2. worker[c] = "done"
    BY <2>1, NoneRunning DEF IInv, Order
  <2>3. c \in Sent /\ ~ InChannel(c)
    BY <2>1, <2>2 DEF Sent, InChannel
  <2>. QED  BY <2>3 DEF Delivery
<1>. QED  BY <1>1, <1>2, Invariant, DeliveryStep, PTL DEF Spec

-----------------------------------------------------------------------------
(***************************************************************************)
(* One request is one step.                                                *)
(***************************************************************************)

(* When the scan goes on, all are answered, and what is applied is what is  *)
(* told.                                                                    *)
LEMMA AllApplied ==
    ASSUME IInv, Delivery, closed, results = << >>
    PROVE  /\ Unanswered = {}
           /\ \A c \in Candidates : applied[c] = 1 <=> c \notin failed
<1>1. \A c \in Candidates : worker[c] = "done"
  BY NoneRunning DEF IInv, Order
<1>2. Unanswered = {}
  BY <1>1 DEF Unanswered
<1>3. ASSUME NEW c \in Candidates  PROVE applied[c] = 1 <=> c \notin failed
  <2>1. c \in Sent /\ ~ InChannel(c)
    BY <1>1 DEF Sent, InChannel
  <2>. QED  BY <2>1 DEF Delivery
<1>. QED  BY <1>2, <1>3

(* The answer of GetMarketByID is the step of AtomicFetch.                  *)
LEMMA AnswerIsFetch ==
    ASSUME IInv, Delivery, NEW c \in Candidates, FetchSucceeds(c) \/ FetchFails(c)
    PROVE  Requests!Fetch(c)
<1>1. /\ worker \in [Candidates -> {"none", "acquire", "fetch", "send",
                                    "release", "finish", "done"}]
      /\ worker[c] = "fetch" /\ UNCHANGED <<main, applied>>
      /\ failed' \in {failed, failed \cup {c}}
  BY DEF FetchSucceeds, FetchFails, Move, IInv, TypeOK
<1>2. main # "done"
  BY <1>1, AllApplied DEF Delivery, Unanswered
<1>3. c \in Unanswered /\ Unanswered' = Unanswered \ {c}
  BY <1>1 DEF FetchSucceeds, FetchFails, Move, Unanswered
<1>4. Told' \in {Told, Told \cup {c}}
  <2>1. Told = Candidates \ (Unanswered \cup failed)
    BY <1>2 DEF Told
  <2>2. Told' = Candidates \ (Unanswered' \cup failed')
    BY <1>1, <1>2 DEF Told
  <2>3. c \notin failed
    BY <1>1 DEF Delivery, Sent
  <2>. QED  BY <1>1, <1>3, <2>1, <2>2, <2>3
<1>. QED  BY <1>1, <1>3, <1>4 DEF Requests!Fetch

(* Every step of the goroutines is one of AtomicFetch or changes nothing    *)
(* that it can see.                                                         *)
LEMMA FetchStep ==
    ASSUME IInv, Delivery, [Next]_vars
    PROVE  [Requests!Next]_(Requests!vars)
<1>. USE DEF Requests!vars
<1>1. worker \in [Candidates -> {"none", "acquire", "fetch", "send",
                                "release", "finish", "done"}]
  BY DEF IInv, TypeOK
<1>2. CASE \E c \in Candidates : FetchSucceeds(c) \/ FetchFails(c)
  BY <1>2, AnswerIsFetch DEF Requests!Next
<1>3. CASE DrainEnds
  <2>1. /\ main = "drain" /\ main' = "done" /\ closed /\ results = << >>
        /\ UNCHANGED <<worker, applied, failed>>
    BY <1>3 DEF DrainEnds
  <2>2. /\ Unanswered = {}
        /\ \A c \in Candidates : applied[c] = 1 <=> c \notin failed
    BY <2>1, AllApplied
  <2>3. UNCHANGED <<Unanswered, Told>>
    BY <2>1, <2>2 DEF Unanswered, Told
  <2>. QED  BY <2>1, <2>2, <2>3 DEF Requests!Next, Requests!GoOn
<1>4. CASE Apply
  <2>1. main = "drain" /\ UNCHANGED <<main, worker, failed>>
    BY <1>4 DEF Apply
  <2>. QED  BY <2>1 DEF Unanswered, Told
<1>5. CASE \E c \in Candidates :
              Spawn(c) \/ Acquire(c) \/ Send(c) \/ Release(c) \/ Finish(c)
  <2>1. UNCHANGED <<main, applied, failed>>
    BY <1>5 DEF Spawn, Acquire, Send, Release, Finish
  <2>2. Unanswered' = Unanswered
    BY <1>1, <1>5 DEF Spawn, Acquire, Send, Release, Finish, Move, Unanswered
  <2>. QED  BY <2>1, <2>2 DEF Told
<1>6. CASE StartCloser \/ WaitReturns \/ CloseResults \/ UNCHANGED vars
  <2>1. UNCHANGED <<worker, applied, failed, main = "done">>
    BY <1>6 DEF StartCloser, WaitReturns, CloseResults, vars
  <2>. QED  BY <2>1 DEF Unanswered, Told
<1>. QED
  BY <1>2, <1>3, <1>4, <1>5, <1>6 DEF Next, Main, Closer, Work

(* enrichWithResolution is as good as one step per request: for any number  *)
(* of candidates and slots, whichever requests fail, the scan goes on after *)
(* all of them and with exactly the resolutions they told.  SignalScan may  *)
(* therefore take each request as one step.                                 *)
THEOREM AtomicFetchImplemented == Spec => ImplementsAtomicFetch
<1>1. Init => Requests!Init
  BY DEF Init, Requests!Init, Unanswered, Told
<1>2. Init => Delivery
  BY DEF Init, Delivery, InChannel, Sent
<1>3. IInv /\ Delivery /\ [Next]_vars => [Requests!Next]_(Requests!vars)
  BY FetchStep
<1>. QED
  BY <1>1, <1>2, <1>3, Invariant, DeliveryStep, PTL
     DEF Spec, ImplementsAtomicFetch, Requests!Spec

=============================================================================
