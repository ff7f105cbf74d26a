----------------------------- MODULE SignalScan -----------------------------
(***************************************************************************)
(* From Manifold to the signals of one trading cycle: Scanner.ScanBinary,  *)
(* ScanMultipleChoice with its two enrichments (internal/market), and the  *)
(* strategies.  A multiple-choice market is read three times: the search   *)
(* gives no prices, a batched request gives prices and no resolutions, and *)
(* a request per candidate gives resolutions.  Manifold does not stand     *)
(* still in between, and each request may fail or leave something out.     *)
(*                                                                         *)
(* ResolutionFetch shows how the requests per candidate run concurrently;  *)
(* here each is one step, at the moment Manifold answers it.               *)
(***************************************************************************)
EXTENDS Strategies

CONSTANTS
    BinaryMarkets,   \* the open binary markets the search gives
    Worlds,          \* what the open multiple-choice markets may be at first
    Answers,         \* the answers a market may have later
    BatchSize,       \* markets per request for prices, 100 in the code
    MaxChanges       \* bound: how often the answers of a market change

ASSUME ScanAssumption ==
    /\ BinaryMarkets \in Seq({BinaryMarkets[i] : i \in DOMAIN BinaryMarkets})
    /\ \A i \in DOMAIN BinaryMarkets : IsMarketData(BinaryMarkets[i])
    /\ \A w \in Worlds : /\ w \in Seq({w[i] : i \in DOMAIN w})
                         /\ \A i \in DOMAIN w : IsMarketData(w[i])
    /\ \A as \in Answers : as \in [DOMAIN as -> AnswerData] /\ IsFiniteSet(DOMAIN as)
    /\ BatchSize \in Nat \ {0}
    /\ MaxChanges \in Nat

(* Each search is for one type of market, and ids are unique on Manifold. *)
ASSUME SearchAssumption ==
    /\ \A i, j \in DOMAIN BinaryMarkets :
          BinaryMarkets[i].id = BinaryMarkets[j].id => i = j
    /\ \A w \in Worlds : \A i \in DOMAIN w :
          /\ w[i].outcomeType = "MULTIPLE_CHOICE"
          /\ \A j \in DOMAIN w : w[i].id = w[j].id => i = j
          /\ \A j \in DOMAIN BinaryMarkets : w[i].id # BinaryMarkets[j].id

VARIABLES
    pc,
    world,      \* the multiple-choice markets, as they are on Manifold
    binary,     \* binaryMarkets
    multi,      \* mcMarkets
    priced,     \* how many markets of multi were in a batch so far
    unfetched,  \* candidates of multi whose request is still to be answered
    signals,    \* allSignals
    partial,    \* ghost: markets of multi of which a reply gave some prices
                \* and not all, or did not tell every resolution
    moved,      \* ghost: markets that changed after their prices were read,
                \* or got an answer after the search listed the others
    late,       \* ghost: answers that resolved when no request was to come
    changes     \* ghost: changes on Manifold so far

scanned == <<binary, multi, priced, unfetched>>
vars == <<pc, world, scanned, signals, partial, moved, late, changes>>

Init ==
    /\ pc = "binary"
    /\ world \in Worlds
    /\ binary = << >>
    /\ multi = << >>
    /\ priced = 0
    /\ unfetched = {}
    /\ signals = {}
    /\ partial = {}
    /\ moved = {}
    /\ late = {}
    /\ changes = 0

-----------------------------------------------------------------------------
(* A failed search is logged, and the cycle goes on without its markets. *)
ScanBinary ==
    /\ pc = "binary"
    /\ binary' \in {BinaryMarkets, << >>}
    /\ pc' = "search"
    /\ UNCHANGED <<world, multi, priced, unfetched, signals, partial, moved,
                   late, changes>>

(* The search gives the answers without prices, or no answers at all. *)
Found(m, listed) ==
    [m EXCEPT !.answers =
        [a \in (IF listed THEN DOMAIN @ ELSE {}) |-> [probability |-> 0, resolution |-> ""]]]

SearchMultipleChoice ==
    /\ pc = "search"
    /\ \/ \E listed \in BOOLEAN :
             multi' = [i \in DOMAIN world |-> Found(world[i], listed)]
       \/ UNCHANGED multi
    /\ pc' = "prices"
    /\ UNCHANGED <<world, binary, priced, unfetched, signals, partial, moved,
                   late, changes>>

-----------------------------------------------------------------------------
(***************************************************************************)
(* enrichWithProbs.                                                        *)
(***************************************************************************)
Batch == priced + 1 .. Lesser(priced + BatchSize, Len(multi))

(* Known answers get the prices reported for them, and reported answers     *)
(* that are not known are dropped; if none are known, the reported ones     *)
(* become the answers.  A single price reported for the market itself is    *)
(* left out, as no strategy reads it of a multiple-choice market.           *)
WithPrices(m, prices, reported) ==
    [m EXCEPT !.answers =
        IF reported = {} THEN @
        ELSE IF DOMAIN @ # {}
        THEN [a \in DOMAIN @ |->
                 IF a \in reported
                 THEN [@[a] EXCEPT !.probability = prices[a].probability]
                 ELSE @[a]]
        ELSE [a \in reported |-> [probability |-> prices[a].probability,
                                  resolution |-> ""]]]

(* One request for a batch.  A market may be missing in the reply, and so   *)
(* may some of its answers.                                                 *)
ReadPrices ==
    /\ pc = "prices"
    /\ Batch # {}
    /\ \E reported \in [Batch -> UNION {SUBSET DOMAIN world[i].answers : i \in Batch}] :
          /\ \A i \in Batch : reported[i] \subseteq DOMAIN world[i].answers
          /\ multi' = [i \in DOMAIN multi |->
                          IF i \in Batch
                          THEN WithPrices(multi[i], world[i].answers, reported[i])
                          ELSE multi[i]]
          /\ partial' = partial \cup
                {i \in Batch : reported[i] \notin {{}, DOMAIN world[i].answers}}
    /\ priced' = priced + BatchSize
    /\ UNCHANGED <<pc, world, binary, unfetched, signals, moved, late, changes>>

(* The request failed or gave nothing. *)
PricesFail ==
    /\ pc = "prices"
    /\ Batch # {}
    /\ priced' = priced + BatchSize
    /\ UNCHANGED <<pc, world, binary, multi, unfetched, signals, partial, moved,
                   late, changes>>

-----------------------------------------------------------------------------
(***************************************************************************)
(* enrichWithResolution.                                                   *)
(***************************************************************************)

(* Faulty: only richer markets are worth a request. *)
RichCandidate(m) ==
    m.liquidity >= 1000 /\ Cardinality(UnpinnedAnswers(m)) >= 2

Candidate(m) == m.liquidity >= 50 /\ Cardinality(UnpinnedAnswers(m)) >= 2

StartFetch ==
    /\ pc = "prices"
    /\ Batch = {}
    /\ unfetched' = {i \in DOMAIN multi : Candidate(multi[i])}
    /\ pc' = "fetch"
    /\ UNCHANGED <<world, binary, multi, priced, signals, partial, moved, late, changes>>

(* GetMarketByID is answered, and the resolutions it tells are copied.  A    *)
(* request that fails tells none, and the answers stay as they were.        *)
Fetch(i) ==
    /\ pc = "fetch"
    /\ i \in unfetched
    /\ \E told \in SUBSET DOMAIN world[i].answers :
          /\ multi' = [multi EXCEPT ![i].answers =
                          [a \in DOMAIN @ |->
                              IF a \in told
                              THEN [@[a] EXCEPT
                                       !.resolution = world[i].answers[a].resolution]
                              ELSE @[a]]]
          /\ partial' = IF told = DOMAIN world[i].answers THEN partial
                                                         ELSE partial \cup {i}
    /\ unfetched' = unfetched \ {i}
    /\ UNCHANGED <<pc, world, binary, priced, signals, moved, late, changes>>

Evaluate ==
    /\ pc = "fetch"
    /\ unfetched = {}
    /\ signals' = StrategySignals(binary \o multi)
    /\ pc' = "done"
    /\ UNCHANGED <<world, scanned, partial, moved, late, changes>>

-----------------------------------------------------------------------------
Resolved(answer) == answer.resolution # ""

Listed(i) == i \in DOMAIN multi /\ DOMAIN multi[i].answers # {}

(* The answers of a market are traded, resolve or get company on Manifold. *)
Change(i) ==
    /\ pc # "done"
    /\ changes < MaxChanges
    /\ changes' = changes + 1
    /\ \E as \in Answers :
          /\ DOMAIN world[i].answers \subseteq DOMAIN as
          /\ \A a \in DOMAIN world[i].answers : Resolved(world[i].answers[a]) =>
                as[a].resolution = world[i].answers[a].resolution
          /\ world' = [world EXCEPT ![i].answers = as]
          /\ late' = IF pc = "fetch" /\ i \notin unfetched
                     THEN late \cup {<<i, a>> : a \in
                             {b \in DOMAIN world[i].answers :
                                 Resolved(as[b]) /\ ~ Resolved(world[i].answers[b])}}
                     ELSE late
          /\ moved' = IF \/ priced >= i
                         \/ Listed(i) /\ DOMAIN as # DOMAIN world[i].answers
                      THEN moved \cup {i} ELSE moved
    /\ UNCHANGED <<pc, scanned, signals, partial>>

Next ==
    \/ ScanBinary \/ SearchMultipleChoice
    \/ ReadPrices \/ PricesFail \/ StartFetch
    \/ \E i \in DOMAIN multi : Fetch(i)
    \/ Evaluate
    \/ \E i \in DOMAIN world : Change(i)

Spec == Init /\ [][Next]_vars

-----------------------------------------------------------------------------
(* Every variable keeps its type: what the scan knows of a market is the    *)
(* market itself but for its answers, and no signal is out of range.        *)
TypeOK ==
    /\ pc \in {"binary", "search", "prices", "fetch", "done"}
    /\ binary \in {BinaryMarkets, << >>}
    /\ multi = << >> \/ DOMAIN multi = DOMAIN world
    /\ \A i \in DOMAIN multi :
          /\ IsMarketData(multi[i])
          /\ multi[i] = [world[i] EXCEPT !.answers = multi[i].answers]
          /\ DOMAIN multi[i].answers \subseteq DOMAIN world[i].answers
    /\ priced \in Nat
    /\ unfetched \cup partial \cup moved \subseteq DOMAIN world
    /\ \A s \in signals : {s.confidence, s.marketProb} \subseteq 0 .. One /\ s.edge >= 0
    /\ changes \in 0 .. MaxChanges

-----------------------------------------------------------------------------
(***************************************************************************)
(* Safety.                                                                 *)
(***************************************************************************)

(* A limit the executor may send lies strictly beyond the market's price,   *)
(* so that the order can be filled, and never beyond what the strategy      *)
(* takes the answer to be worth, whole percents notwithstanding.            *)
KeepsEdge(sig) ==
    IF sig.outcome = "YES"
    THEN /\ One * Rounded(sig.limit) > 100 * sig.marketProb
         /\ One * Rounded(sig.limit) <= 100 * (sig.confidence + 1)
    ELSE /\ One * Rounded(sig.limit) < 100 * sig.marketProb
         /\ 100 * One - One * Rounded(sig.limit) <= 100 * (sig.confidence + 1)

(* Whenever a limit order has an edge for the risk manager, rounding its    *)
(* limit to percents leaves it a limit order, between the price and the     *)
(* estimate (arbitrage, time decay, executeSingle).                         *)
LimitsKeepEdge ==
    \A s \in signals : s.limit # NoLimit /\ HasEdge(s) => SentAsLimit(s) /\ KeepsEdge(s)

(* No two signals the risk manager may approve bet on YES and on NO in the  *)
(* same market, although four strategies judge it on their own and one of   *)
(* them quotes both sides (StrategySignals, sizePosition).                  *)
NoOpposingBets ==
    \A s, t \in signals :
        s.market = t.market /\ HasEdge(s) /\ HasEdge(t) => s.outcome = t.outcome

(* README, Arbitrage: "Filters out resolved answers".  A signal is on a     *)
(* resolved answer only if the scan was not told: the request for its       *)
(* market failed, or it resolved after that request.                        *)
ResolvedOnlyIfUnseen ==
    \A s \in signals, i \in DOMAIN world :
        /\ s.market = world[i].id
        /\ s.answer \in DOMAIN world[i].answers
        /\ Resolved(world[i].answers[s.answer])
        => i \in partial \/ <<i, s.answer>> \in late

(* The answers of a market that are still open, and their prices' sum.      *)
OpenAnswers(m) == {a \in DOMAIN m.answers : ~ Resolved(m.answers[a])}

FairlyPriced(m) ==
    MapThenSumSet(LAMBDA a : m.answers[a].probability, OpenAnswers(m)) = One

(* A market whose open answers sum to 1 gets no signal, whichever request   *)
(* left it out, unless it changed between the two reads, got an answer that *)
(* the search had not listed, or one of the reads told only a part          *)
(* (enrichWithProbs, enrichWithResolution, evaluateMarket).                 *)
FairMarketsLeftAlone ==
    pc = "done" => \A i \in DOMAIN world :
        FairlyPriced(world[i]) /\ i \notin partial \cup moved =>
            \A s \in signals : s.market # world[i].id

(* README, Market Making: "Places limit orders on both sides of active      *)
(* binary markets".  A quote is one the risk manager can size.              *)
QuotesCanBeSized ==
    \A s \in signals : s.strategy = "marketmaking" => HasEdge(s)

=============================================================================
