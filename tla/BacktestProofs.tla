--------------------------- MODULE BacktestProofs ---------------------------
(***************************************************************************)
(* The market tables and the backtest that replays them, for any markets,  *)
(* scans, configuration and signals, any number of faults, and whatever    *)
(* the bot does meanwhile.                                                 *)
(***************************************************************************)
EXTENDS Backtest, SharedLemmas

-----------------------------------------------------------------------------
(***************************************************************************)
(* The market tables (MarketStore).                                        *)
(***************************************************************************)

(***************************************************************************)
(* Between the upsert and the snapshot of a market its row holds a text:   *)
(* EnsureMarketExists does not run then, and would leave it alone.         *)
(***************************************************************************)
UpsertedReadable == upserted => rows[Head(queue).market] = "text"

StoreInv == StoreTypeOK /\ UpsertedReadable /\ SnapshotsReadable

(* Sequences over any set: the empty one, and the parts of another. *)
LEMMA EmptySequence ==
    ASSUME NEW S
    PROVE  << >> \in Seq(S)
OBVIOUS

(* Head and tail of a sequence keep its type. *)
LEMMA SequenceParts ==
    ASSUME NEW S, NEW s \in Seq(S), s # << >>
    PROVE  Head(s) \in S /\ Tail(s) \in Seq(S)
OBVIOUS

(* The head and the tail of the queue are what the scan put there. *)
LEMMA QueueParts ==
    ASSUME StoreTypeOK, Collecting
    PROVE  /\ Head(queue) \in [market : Markets, liquid : BOOLEAN]
           /\ Tail(queue) \in Seq([market : Markets, liquid : BOOLEAN])
BY SequenceParts DEF StoreTypeOK, Collecting

(* A fault that strikes stays within the bound. *)
LEMMA StrikesBounded ==
    ASSUME NEW kind, StoreTypeOK, Strikes(kind)
    PROVE  faults' \in 0 .. MaxFaults
BY StoreAssumption DEF StoreTypeOK, Strikes

(* The empty database satisfies the invariant. *)
LEMMA StoreInvInit == StoreInit => StoreInv
<1> SUFFICES ASSUME StoreInit
             PROVE  StoreInv
    OBVIOUS
<1>1. MaxTime \in Nat /\ MaxFaults \in Nat
    BY StoreAssumption
<1>2. queue \in Seq([market : Markets, liquid : BOOLEAN])
    BY EmptySequence DEF StoreInit
<1>3. rows \in [Markets -> {"absent", "null", "text"}]
    BY DEF StoreInit
<1>4. snapshots \subseteq Snapshot /\ upserted \in BOOLEAN
    BY DEF StoreInit
<1>5. now \in Times /\ faults \in 0 .. MaxFaults
    BY <1>1 DEF StoreInit, Times
<1>6. ~ upserted /\ SnapshotsReadable
    BY DEF StoreInit, SnapshotsReadable
<1> QED BY <1>2, <1>3, <1>4, <1>5, <1>6 DEF StoreInv, StoreTypeOK, UpsertedReadable

(* Every step of the store keeps the invariant. *)
LEMMA StoreInvStep == StoreInv /\ [StoreNext]_storeVars => StoreInv'
<1> SUFFICES ASSUME StoreInv, [StoreNext]_storeVars
             PROVE  StoreInv'
    OBVIOUS
<1> USE DEF StoreInv
<1>1. ASSUME NEW markets \in Scans, Scan(markets)
      PROVE  StoreInv'
    <2>1. StoreTypeOK'
        BY <1>1, StoreAssumption DEF Scan, StoreTypeOK, Collecting
    <2>2. UpsertedReadable'
        BY <1>1 DEF Scan, StoreTypeOK, UpsertedReadable, Collecting
    <2>3. SnapshotsReadable'
        BY <1>1 DEF Scan, SnapshotsReadable
    <2> QED BY <2>1, <2>2, <2>3
<1>2. ASSUME LeaveOut
      PROVE  StoreInv'
    <2>1. StoreTypeOK'
        BY <1>2, QueueParts DEF LeaveOut, NextMarket, StoreTypeOK
    <2>2. UpsertedReadable'
        BY <1>2 DEF LeaveOut, NextMarket, UpsertedReadable
    <2>3. SnapshotsReadable'
        BY <1>2 DEF LeaveOut, SnapshotsReadable
    <2> QED BY <2>1, <2>2, <2>3
<1>3. ASSUME UpsertMarket
      PROVE  StoreInv'
    <2>1. Head(queue).market \in Markets
        BY <1>3, QueueParts DEF UpsertMarket
    <2>2. StoreTypeOK'
        BY <1>3, <2>1 DEF UpsertMarket, StoreTypeOK, Collecting
    <2>3. UpsertedReadable'
        BY <1>3, <2>1 DEF UpsertMarket, StoreTypeOK, UpsertedReadable
    <2>4. SnapshotsReadable'
        BY <1>3, <2>1 DEF UpsertMarket, StoreTypeOK, SnapshotsReadable, Snapshot
    <2> QED BY <2>2, <2>3, <2>4
<1>4. ASSUME UpsertFails
      PROVE  StoreInv'
    <2>1. StoreTypeOK'
        BY <1>4, QueueParts, StrikesBounded DEF UpsertFails, NextMarket, StoreTypeOK
    <2>2. UpsertedReadable'
        BY <1>4 DEF UpsertFails, NextMarket, UpsertedReadable
    <2>3. SnapshotsReadable'
        BY <1>4 DEF UpsertFails, SnapshotsReadable
    <2> QED BY <2>1, <2>2, <2>3
<1>5. ASSUME TakeSnapshot
      PROVE  StoreInv'
    <2> DEFINE new == [market |-> Head(queue).market, at |-> now]
    <2>1. new \in Snapshot
        BY <1>5, QueueParts DEF TakeSnapshot, StoreTypeOK, Snapshot
    <2>2. rows[new.market] = "text"
        BY <1>5 DEF TakeSnapshot, UpsertedReadable
    <2>3. snapshots' = snapshots \cup {new} /\ rows' = rows
        BY <1>5 DEF TakeSnapshot
    <2>4. StoreTypeOK'
        BY <1>5, <2>1, <2>3, QueueParts DEF TakeSnapshot, NextMarket, StoreTypeOK
    <2>5. UpsertedReadable'
        BY <1>5 DEF TakeSnapshot, NextMarket, UpsertedReadable
    <2>6. SnapshotsReadable'
        BY <2>2, <2>3 DEF SnapshotsReadable
    <2> QED BY <2>4, <2>5, <2>6
<1>6. ASSUME SnapshotFails
      PROVE  StoreInv'
    <2>1. StoreTypeOK'
        BY <1>6, QueueParts, StrikesBounded DEF SnapshotFails, NextMarket, StoreTypeOK
    <2>2. UpsertedReadable'
        BY <1>6 DEF SnapshotFails, NextMarket, UpsertedReadable
    <2>3. SnapshotsReadable'
        BY <1>6 DEF SnapshotFails, SnapshotsReadable
    <2> QED BY <2>1, <2>2, <2>3
<1>7. ASSUME CollectorDies
      PROVE  StoreInv'
    <2>1. StoreTypeOK'
        BY <1>7, StrikesBounded, EmptySequence DEF CollectorDies, StoreTypeOK
    <2>2. UpsertedReadable'
        BY <1>7 DEF CollectorDies, UpsertedReadable
    <2>3. SnapshotsReadable'
        BY <1>7 DEF CollectorDies, SnapshotsReadable
    <2> QED BY <2>1, <2>2, <2>3
<1>8. ASSUME NEW m \in Markets, EnsureMarketExists(m)
      PROVE  StoreInv'
    <2>1. StoreTypeOK'
        BY <1>8 DEF EnsureMarketExists, StoreTypeOK, Collecting
    <2>2. UpsertedReadable'
        BY <1>8 DEF EnsureMarketExists, StoreTypeOK, UpsertedReadable
    <2>3. SnapshotsReadable'
        BY <1>8 DEF EnsureMarketExists, StoreTypeOK, SnapshotsReadable, Snapshot
    <2> QED BY <2>1, <2>2, <2>3
<1>9. ASSUME TrimSnapshots
      PROVE  StoreInv'
    <2>1. StoreTypeOK'
        BY <1>9 DEF TrimSnapshots, StoreTypeOK, Collecting
    <2>2. UpsertedReadable'
        BY <1>9 DEF TrimSnapshots, UpsertedReadable
    <2>3. SnapshotsReadable'
        BY <1>9 DEF TrimSnapshots, SnapshotsReadable
    <2> QED BY <2>1, <2>2, <2>3
<1>10. ASSUME TimePasses
       PROVE  StoreInv'
    <2>1. StoreTypeOK'
        BY <1>10, StoreAssumption DEF TimePasses, StoreTypeOK, Times, Collecting
    <2>2. UpsertedReadable'
        BY <1>10 DEF TimePasses, UpsertedReadable
    <2>3. SnapshotsReadable'
        BY <1>10 DEF TimePasses, SnapshotsReadable
    <2> QED BY <2>1, <2>2, <2>3
<1>11. CASE UNCHANGED storeVars
    BY <1>11 DEF storeVars, StoreTypeOK, UpsertedReadable, SnapshotsReadable, Collecting
<1> QED
    BY <1>1, <1>2, <1>3, <1>4, <1>5, <1>6, <1>7, <1>8, <1>9, <1>10, <1>11
       DEF StoreNext

(* The invariant holds in every state of the store. *)
LEMMA StoreInvariant == StoreSpec => []StoreInv
BY StoreInvInit, StoreInvStep, PTL DEF StoreSpec

(* The variables of the store keep their types, whatever is scanned, fails  *)
(* or is trimmed.                                                           *)
THEOREM StoreTypeCorrect == StoreSpec => []StoreTypeOK
<1>1. StoreInv => StoreTypeOK
    BY DEF StoreInv
<1> QED BY <1>1, StoreInvariant, PTL

(* A snapshot can always be read together with its market: the backtest     *)
(* never meets a NULL resolution, whatever statements failed before.        *)
THEOREM SnapshotsAlwaysReadable == StoreSpec => []SnapshotsReadable
<1>1. StoreInv => SnapshotsReadable
    BY DEF StoreInv
<1> QED BY <1>1, StoreInvariant, PTL

-----------------------------------------------------------------------------
(***************************************************************************)
(* The market cap over a whole replay.                                     *)
(***************************************************************************)
Bet == [market : Markets, amount : Nat]

Cap == MaxMarketExposurePct * StartBalance

Share(m, bet) == IF bet.market = m THEN bet.amount ELSE 0

(* Recording the bets of the queue one by one takes the exposure of market  *)
(* m from "exposure" to "total", and never over the cap.                    *)
Leads(m, exposure, bets, total) ==
    \E f \in [0 .. Len(bets) -> Nat] :
        /\ f[0] = exposure
        /\ \A i \in 1 .. Len(bets) : f[i] = f[i - 1] + Share(m, bets[i])
        /\ \A i \in 0 .. Len(bets) : 100 * f[i] <= Cap
        /\ f[Len(bets)] = total

(* Without bets a market stays where it is. *)
LEMMA LeadsNowhere ==
    ASSUME NEW m, NEW exposure \in Nat, 100 * exposure <= Cap
    PROVE  Leads(m, exposure, << >>, exposure)
<1>. DEFINE f == [i \in 0 .. 0 |-> exposure]
<1>1. f \in [0 .. Len(<< >>) -> Nat] /\ Len(<< >>) = 0
  OBVIOUS
<1>2. /\ f[0] = exposure /\ f[Len(<< >>)] = exposure
      /\ \A i \in 1 .. Len(<< >>) : f[i] = f[i - 1] + Share(m, << >>[i])
      /\ \A i \in 0 .. Len(<< >>) : 100 * f[i] <= Cap
  OBVIOUS
<1>. HIDE DEF f
<1>. QED  BY <1>1, <1>2 DEF Leads

(* One more bet under the cap leads further. *)
LEMMA LeadsFurther ==
    ASSUME NEW m, NEW exposure \in Nat, NEW bets \in Seq(Bet), NEW total \in Nat,
           NEW bet \in Bet, Leads(m, exposure, bets, total),
           100 * (total + Share(m, bet)) <= Cap
    PROVE  Leads(m, exposure, Append(bets, bet), total + Share(m, bet))
<1>. DEFINE n == Len(bets)
            longer == Append(bets, bet)
<1>1. PICK f \in [0 .. n -> Nat] :
         /\ f[0] = exposure
         /\ \A i \in 1 .. n : f[i] = f[i - 1] + Share(m, bets[i])
         /\ \A i \in 0 .. n : 100 * f[i] <= Cap
         /\ f[n] = total
  BY DEF Leads
<1>2. /\ n \in Nat /\ Len(longer) = n + 1 /\ longer[n + 1] = bet
      /\ \A i \in 1 .. n : longer[i] = bets[i]
  OBVIOUS
<1>3. Share(m, bet) \in Nat
  BY DEF Share, Bet
<1>. DEFINE g == [i \in 0 .. n + 1 |-> IF i = n + 1 THEN total + Share(m, bet) ELSE f[i]]
<1>. HIDE DEF n, longer
<1>4. g \in [0 .. n + 1 -> Nat]
  BY <1>2, <1>3
<1>5. /\ \A i \in 0 .. n : g[i] = f[i]
      /\ g[n + 1] = total + Share(m, bet)
  BY <1>2
<1>. HIDE DEF g
<1>6. \A i \in 1 .. n + 1 : g[i] = g[i - 1] + Share(m, longer[i])
  <2>1. ASSUME NEW i \in 1 .. n  PROVE g[i] = g[i - 1] + Share(m, longer[i])
    BY <1>1, <1>2, <1>5
  <2>2. g[n + 1] = g[n] + Share(m, longer[n + 1])
    BY <1>1, <1>2, <1>5
  <2>3. \A i \in 1 .. n + 1 : i \in 1 .. n \/ i = n + 1
    BY <1>2
  <2>4. (n + 1) - 1 = n
    BY <1>2
  <2>. QED  BY <2>1, <2>2, <2>3, <2>4
<1>7. \A i \in 0 .. n + 1 : 100 * g[i] <= Cap
  <2>1. \A i \in 0 .. n + 1 : i \in 0 .. n \/ i = n + 1
    BY <1>2
  <2>. QED  BY <1>1, <1>5, <2>1
<1>8. g[0] = exposure
  BY <1>1, <1>2, <1>5
<1>9. Leads(m, exposure, longer, total + Share(m, bet))
  BY <1>2, <1>4, <1>5, <1>6, <1>7, <1>8 DEF Leads
<1>. QED  BY <1>9 DEF longer

(* Recording the first bet leaves the rest of the way, and stays capped. *)
LEMMA LeadsOn ==
    ASSUME NEW m, NEW exposure \in Nat, NEW bets \in Seq(Bet), NEW total \in Nat,
           bets # << >>, Leads(m, exposure, bets, total)
    PROVE  /\ Leads(m, exposure + Share(m, Head(bets)), Tail(bets), total)
           /\ 100 * (exposure + Share(m, Head(bets))) <= Cap
<1>. DEFINE n == Len(bets)
            rest == Tail(bets)
<1>1. PICK f \in [0 .. n -> Nat] :
         /\ f[0] = exposure
         /\ \A i \in 1 .. n : f[i] = f[i - 1] + Share(m, bets[i])
         /\ \A i \in 0 .. n : 100 * f[i] <= Cap
         /\ f[n] = total
  BY DEF Leads
<1>2. /\ n \in Nat /\ n >= 1 /\ Len(rest) = n - 1 /\ Head(bets) = bets[1]
      /\ \A i \in 1 .. n - 1 : rest[i] = bets[i + 1]
  OBVIOUS
<1>. DEFINE g == [i \in 0 .. n - 1 |-> f[i + 1]]
<1>. HIDE DEF n, rest
<1>3. g \in [0 .. n - 1 -> Nat] /\ \A i \in 0 .. n - 1 : g[i] = f[i + 1]
  BY <1>2
<1>. HIDE DEF g
<1>4. f[1] = exposure + Share(m, Head(bets)) /\ 100 * f[1] <= Cap
  BY <1>1, <1>2
<1>5. \A i \in 1 .. n - 1 : g[i] = g[i - 1] + Share(m, rest[i])
  <2>. SUFFICES ASSUME NEW i \in 1 .. n - 1
                PROVE  g[i] = g[i - 1] + Share(m, rest[i])
    OBVIOUS
  <2>1. /\ i \in 0 .. n - 1 /\ i - 1 \in 0 .. n - 1 /\ i + 1 \in 1 .. n
        /\ (i - 1) + 1 = i /\ (i + 1) - 1 = i
    BY <1>2
  <2>2. g[i] = f[i + 1] /\ g[i - 1] = f[i] /\ rest[i] = bets[i + 1]
    BY <1>2, <1>3, <2>1
  <2>3. f[i + 1] = f[i] + Share(m, bets[i + 1])
    BY <1>1, <2>1
  <2>. QED  BY <2>2, <2>3
<1>6. \A i \in 0 .. n - 1 : 100 * g[i] <= Cap
  BY <1>1, <1>2, <1>3
<1>7. g[0] = f[1] /\ g[n - 1] = total
  BY <1>1, <1>2, <1>3
<1>8. Leads(m, exposure + Share(m, Head(bets)), rest, total)
  BY <1>2, <1>3, <1>4, <1>5, <1>6, <1>7 DEF Leads
<1>. QED  BY <1>4, <1>8 DEF rest

-----------------------------------------------------------------------------
(***************************************************************************)
(* The invariant: outside of a timestamp nothing is under way, and the     *)
(* bets approved but not recorded lead to the exposures the pass counts    *)
(* with, without ever exceeding the cap.                                   *)
(***************************************************************************)
BookOK ==
    /\ totalExposure \in Nat
    /\ marketExposure \in [Markets -> Nat]
    /\ cycleExposure \in [Markets -> Nat]
    /\ wagered = marketExposure
    /\ pending \in Seq(Signals)
    /\ sized \in Seq(Bet)
    /\ pc # "size" => pending = << >> /\ sized = << >>

(* The bets of the queue lead market m to a total within the cap, which,    *)
(* while signals are left, is the total the next one is sized against.      *)
Within(m) ==
    \E total \in Nat :
        /\ Leads(m, marketExposure[m], sized, total)
        /\ pending # << >> => total = marketExposure[m] + cycleExposure[m]

CapInvariant == BookOK /\ (MarketCapOn => \A m \in Markets : Within(m))

(* The products the bounds compare are numbers.                             *)
LEMMA CapNatural == Cap \in Nat /\ portfolio \in PortfolioRecord
  BY RiskConfigAssumption, BacktestAssumption DEF Cap, portfolio, PortfolioRecord

(* What is recorded already is within the cap.                              *)
LEMMA LeadsFromWithin ==
    ASSUME NEW m, NEW exposure \in Nat, NEW bets \in Seq(Bet), NEW total \in Nat,
           Leads(m, exposure, bets, total)
    PROVE  100 * exposure <= Cap
  BY DEF Leads

(* A backtest starts with an empty book.                                    *)
LEMMA CapInit == Init => CapInvariant
<1>. SUFFICES ASSUME Init  PROVE CapInvariant
  OBVIOUS
<1>1. Nothing \in [Markets -> Nat] /\ \A m \in Markets : Nothing[m] = 0
  BY DEF Nothing
<1>2. BookOK
  BY <1>1 DEF Init, BookOK
<1>3. ASSUME NEW m \in Markets  PROVE Within(m)
  <2>1. Leads(m, 0, << >>, 0)
    BY CapNatural, LeadsNowhere
  <2>. QED  BY <1>1, <2>1 DEF Init, Within
<1>. QED  BY <1>2, <1>3 DEF CapInvariant

(* A new timestamp starts from the recorded bets: the book of the pass is   *)
(* empty, and so is its queue.                                              *)
LEMMA CapReplay ==
    ASSUME CapInvariant, NEW batch \in Batches, Replay(batch)
    PROVE  CapInvariant'
<1>1. sized = << >> /\ sized' = << >>
  BY DEF CapInvariant, BookOK, Replay, Loading
<1>2. /\ marketExposure' = marketExposure /\ wagered' = wagered
      /\ cycleExposure' = Nothing /\ pc' = "size"
      /\ totalExposure' = portfolio.investment
      /\ pending' \in {batch, << >>}
  BY DEF Replay, Refresh
<1>3. Nothing \in [Markets -> Nat] /\ \A m \in Markets : Nothing[m] = 0
  BY DEF Nothing
<1>4. batch \in Seq(Signals) /\ portfolio.investment \in Nat
  BY CapNatural, BacktestAssumption DEF PortfolioRecord
<1>5. BookOK'
  <2>0. << >> \in Seq(Signals) /\ << >> \in Seq(Bet)
    OBVIOUS
  <2>1. pending' \in Seq(Signals) /\ sized' \in Seq(Bet)
    BY <1>1, <1>2, <1>4, <2>0
  <2>2. /\ totalExposure' \in Nat /\ cycleExposure' \in [Markets -> Nat]
        /\ marketExposure' \in [Markets -> Nat] /\ wagered' = marketExposure'
    BY <1>2, <1>3, <1>4 DEF CapInvariant, BookOK
  <2>. QED  BY <1>2, <2>1, <2>2 DEF BookOK
<1>6. ASSUME MarketCapOn, NEW m \in Markets  PROVE Within(m)'
  <2>1. marketExposure[m] \in Nat
    BY DEF CapInvariant, BookOK
  <2>2. 100 * marketExposure[m] <= Cap
    BY <1>6, <2>1, LeadsFromWithin DEF CapInvariant, BookOK, Within
  <2>3. Leads(m, marketExposure[m], << >>, marketExposure[m])
    BY <2>1, <2>2, LeadsNowhere
  <2>4. marketExposure[m] + Nothing[m] = marketExposure[m]
    BY <1>3, <2>1
  <2>. QED  BY <1>1, <1>2, <2>1, <2>3, <2>4 DEF Within
<1>. QED  BY <1>5, <1>6 DEF CapInvariant, MarketCapOn

(* A signal is approved for no more than the cap has left over all that was *)
(* recorded and approved before it.                                         *)
LEMMA CapSizeNext ==
    ASSUME CapInvariant, SizeNext
    PROVE  CapInvariant'
<1>. DEFINE sig == Head(pending)
            existing == marketExposure[sig.market] + cycleExposure[sig.market]
            amount == ApprovedAmount(sig, portfolio, totalExposure, existing)
            bet == [market |-> sig.market, amount |-> amount]
<1>1. /\ pc = "size" /\ pc' = pc /\ pending # << >> /\ pending' = Tail(pending)
      /\ marketExposure' = marketExposure /\ totalExposure' = totalExposure
      /\ wagered' = wagered
  BY DEF SizeNext, manager
<1>2. sig \in Signals /\ Tail(pending) \in Seq(Signals)
  BY <1>1 DEF CapInvariant, BookOK
<1>3. /\ sig.market \in Markets /\ sig.confidence \in Int
  BY <1>2, BacktestAssumption, RiskConfigAssumption
<1>4. existing \in Nat /\ totalExposure \in Nat
  BY <1>3 DEF CapInvariant, BookOK
<1>5. CASE UNCHANGED <<cycleExposure, sized>>
  <2>1. BookOK'
    BY <1>1, <1>2, <1>5 DEF CapInvariant, BookOK
  <2>2. ASSUME MarketCapOn, NEW m \in Markets  PROVE Within(m)'
    BY <1>1, <1>5, <2>2 DEF CapInvariant, Within
  <2>. QED  BY <2>1, <2>2 DEF CapInvariant, MarketCapOn
<1>6. CASE /\ ~ MarketCapReached(portfolio.total, existing)
           /\ cycleExposure' = Plus(cycleExposure, sig.market, amount)
           /\ sized' = Append(sized, bet)
  <2>1. /\ amount \in Nat
        /\ MarketCapOn => 100 * (existing + amount)
                             <= MaxMarketExposurePct * portfolio.total
    <3>. HIDE DEF sig, existing
    <3>. QED  BY <1>3, <1>4, <1>6, CapNatural, ApprovedAmountBounds
  <2>2. bet \in Bet /\ bet.market = sig.market /\ bet.amount = amount
    BY <1>3, <2>1 DEF Bet
  <2>. HIDE DEF amount, bet
  <2>3. /\ cycleExposure' \in [Markets -> Nat]
        /\ \A m \in Markets : cycleExposure'[m] = cycleExposure[m] + Share(m, bet)
    BY <1>3, <1>6, <2>1, <2>2 DEF CapInvariant, BookOK, Plus, Share
  <2>4. BookOK'
    <3>1. sized' \in Seq(Bet)
      BY <1>6, <2>2 DEF CapInvariant, BookOK
    <3>. QED  BY <1>1, <1>2, <2>3, <3>1 DEF CapInvariant, BookOK
  <2>5. ASSUME MarketCapOn, NEW m \in Markets  PROVE Within(m)'
    <3>1. PICK total \in Nat :
             /\ Leads(m, marketExposure[m], sized, total)
             /\ total = marketExposure[m] + cycleExposure[m]
      BY <1>1, <2>5 DEF CapInvariant, Within
    <3>2. 100 * (total + Share(m, bet)) <= Cap
      <4>1. CASE m = sig.market
        <5>1. total = existing /\ Share(m, bet) = amount
          BY <2>2, <3>1, <4>1 DEF Share
        <5>. QED  BY <2>1, <2>5, <5>1 DEF Cap, portfolio
      <4>2. CASE m # sig.market
        <5>1. Share(m, bet) = 0
          BY <2>2, <4>2 DEF Share
        <5>2. 100 * total <= Cap
          BY <3>1 DEF Leads
        <5>. QED  BY <5>1, <5>2
      <4>. QED  BY <4>1, <4>2
    <3>3. /\ marketExposure[m] \in Nat /\ cycleExposure[m] \in Nat
          /\ sized \in Seq(Bet) /\ Share(m, bet) \in Nat
      BY <2>1, <2>2 DEF CapInvariant, BookOK, Share
    <3>4. Leads(m, marketExposure[m], sized', total + Share(m, bet))
      BY <1>6, <2>2, <3>1, <3>2, <3>3, LeadsFurther
    <3>5. total + Share(m, bet) = marketExposure[m] + cycleExposure'[m]
      BY <2>3, <3>1, <3>3
    <3>6. total + Share(m, bet) \in Nat
      BY <3>3
    <3>. QED  BY <1>1, <3>4, <3>5, <3>6 DEF Within
  <2>. QED  BY <2>4, <2>5 DEF CapInvariant, MarketCapOn
<1>. QED  BY <1>5, <1>6 DEF SizeNext

(* Recording a bet takes it from the queue to the book.                     *)
LEMMA CapRecord ==
    ASSUME CapInvariant, RecordBacktestBet
    PROVE  CapInvariant'
<1>. DEFINE bet == Head(sized)
<1>1. /\ pc = "size" /\ pc' = pc /\ pending = << >> /\ pending' = pending
      /\ cycleExposure' = cycleExposure
      /\ sized # << >> /\ sized' = Tail(sized)
      /\ totalExposure' = totalExposure + bet.amount
      /\ marketExposure' = Plus(marketExposure, bet.market, bet.amount)
      /\ wagered' = Plus(wagered, bet.market, bet.amount)
  BY DEF RecordBacktestBet
<1>2. bet \in Bet /\ Tail(sized) \in Seq(Bet)
  BY <1>1 DEF CapInvariant, BookOK
<1>. HIDE DEF bet
<1>3. bet.market \in Markets /\ bet.amount \in Nat
  BY <1>2 DEF Bet
<1>4. /\ marketExposure' \in [Markets -> Nat]
      /\ \A m \in Markets : marketExposure'[m] = marketExposure[m] + Share(m, bet)
  BY <1>1, <1>3 DEF CapInvariant, BookOK, Plus, Share
<1>5. BookOK'
  BY <1>1, <1>2, <1>3, <1>4 DEF CapInvariant, BookOK
<1>6. ASSUME MarketCapOn, NEW m \in Markets  PROVE Within(m)'
  <2>1. PICK total \in Nat : Leads(m, marketExposure[m], sized, total)
    BY <1>6 DEF CapInvariant, Within
  <2>2. Leads(m, marketExposure[m] + Share(m, bet), Tail(sized), total)
    BY <1>1, <2>1, LeadsOn DEF CapInvariant, BookOK, bet
  <2>. QED  BY <1>1, <1>4, <2>2 DEF Within
<1>. QED  BY <1>5, <1>6 DEF CapInvariant, MarketCapOn

(* No other step touches the book while it is in use.                       *)
LEMMA CapElsewhere ==
    ASSUME CapInvariant, UNCHANGED <<manager, pass, wagered>>,
           pc' # "size" => pending = << >> /\ sized = << >>
    PROVE  CapInvariant'
<1>1. BookOK'
  BY DEF CapInvariant, BookOK, manager, pass
<1>2. ASSUME MarketCapOn, NEW m \in Markets  PROVE Within(m)'
  BY <1>2 DEF CapInvariant, Within, manager, pass
<1>. QED  BY <1>1, <1>2 DEF CapInvariant, MarketCapOn

(* Every step of the backtest and of the bot keeps the invariant.           *)
LEMMA CapStep == CapInvariant /\ [Next]_vars => CapInvariant'
<1>. SUFFICES ASSUME CapInvariant, [Next]_vars  PROVE CapInvariant'
  OBVIOUS
<1>0. pc # "size" => pending = << >> /\ sized = << >>
  BY DEF CapInvariant, BookOK
<1>1. CASE LoadSnapshotTimestamps
  BY <1>0, <1>1, CapElsewhere DEF LoadSnapshotTimestamps
<1>2. ASSUME NEW batch \in Batches, Replay(batch)  PROVE CapInvariant'
  BY <1>2, CapReplay
<1>3. CASE LoadMarketsFails
  BY <1>0, <1>3, CapElsewhere DEF LoadMarketsFails
<1>4. CASE SizeNext
  BY <1>4, CapSizeNext
<1>5. CASE RecordBacktestBet
  BY <1>5, CapRecord
<1>6. CASE TimestampDone
  BY <1>6, CapElsewhere DEF TimestampDone
<1>7. CASE Report
  BY <1>0, <1>7, CapElsewhere DEF Report
<1>8. CASE Live
  BY <1>0, <1>8, CapElsewhere DEF Live
<1>9. ASSUME NEW m \in Markets, RecordLiveBet(m)  PROVE CapInvariant'
  BY <1>0, <1>9, CapElsewhere DEF RecordLiveBet
<1>10. CASE UNCHANGED vars
  BY <1>0, <1>10, CapElsewhere DEF vars
<1>. QED
  BY <1>1, <1>2, <1>3, <1>4, <1>5, <1>6, <1>7, <1>8, <1>9, <1>10 DEF Next, Run

(* The invariant gives the property: what was bet is what the manager has   *)
(* on its book, and the book is within the cap.                             *)
LEMMA CapSuffices == CapInvariant => SimulatedMarketCapped
<1>. SUFFICES ASSUME CapInvariant, MarketCapOn, NEW m \in Markets
              PROVE  100 * wagered[m] <= MaxMarketExposurePct * StartBalance
  BY DEF SimulatedMarketCapped
<1>1. wagered[m] = marketExposure[m] /\ marketExposure[m] \in Nat
  BY DEF CapInvariant, BookOK
<1>2. 100 * marketExposure[m] <= Cap
  BY <1>1, LeadsFromWithin DEF CapInvariant, BookOK, Within
<1>. QED  BY <1>1, <1>2 DEF Cap

(* Over a replay of any length, with any signals and while the bot goes on  *)
(* collecting, betting and being trimmed, no market gets more than its      *)
(* share of the starting balance (RecordTrade's and SizeSignals' maps).     *)
THEOREM SimulatedMarketAlwaysCapped == Spec => []SimulatedMarketCapped
<1>1. Init => CapInvariant
  BY CapInit
<1>2. CapInvariant /\ [Next]_vars => CapInvariant'
  BY CapStep
<1>3. CapInvariant => SimulatedMarketCapped
  BY CapSuffices
<1>. QED  BY <1>1, <1>2, <1>3, PTL DEF Spec

-----------------------------------------------------------------------------
(***************************************************************************)
(* The timestamps of a backtest.                                           *)
(***************************************************************************)
Ascending(q) == \A i, j \in DOMAIN q : i < j => q[i] < q[j]

Elements(q) == {q[i] : i \in DOMAIN q}

(* q is what the query for the seconds T gives. *)
Sorts(q, T) ==
    /\ q \in [1 .. Cardinality(T) -> T]
    /\ \A t \in T : \E i \in DOMAIN q : q[i] = t
    /\ Ascending(q)

(* The numbers below n. *)
Below(n) == {i \in Nat : i < n}

(* The last one goes to the end. *)
LEMMA SortedFurther ==
    ASSUME NEW n \in Nat, NEW T, IsFiniteSet(T), n \in T, T \ {n} \subseteq Below(n),
           NEW r, Sorts(r, T \ {n})
    PROVE  \E q : Sorts(q, T)
<1>. DEFINE rest == T \ {n}
            k == Cardinality(T)
            q == [i \in 1 .. k |-> IF i = k THEN n ELSE r[i]]
<1>1. Cardinality(rest) = k - 1 /\ k \in Nat /\ k # 0
  BY FS_RemoveElement, FS_CardinalityType, FS_EmptySet
<1>2. /\ r \in [1 .. k - 1 -> rest] /\ Ascending(r)
      /\ \A t \in rest : \E i \in 1 .. k - 1 : r[i] = t
  BY <1>1 DEF Sorts
<1>3. \A t \in rest : t \in Nat /\ t < n /\ t \in T
  BY DEF Below
<1>. HIDE DEF rest, k
<1>4. /\ q \in [1 .. k -> T] /\ q[k] = n
      /\ \A i \in 1 .. k - 1 : q[i] = r[i] /\ q[i] \in rest
  BY <1>1, <1>2, <1>3
<1>. HIDE DEF q
<1>5. \A t \in T : \E i \in 1 .. k : q[i] = t
  <2>. SUFFICES ASSUME NEW t \in T  PROVE \E i \in 1 .. k : q[i] = t
    OBVIOUS
  <2>1. CASE t = n
    BY <1>1, <1>4, <2>1
  <2>2. CASE t # n
    <3>1. PICK i \in 1 .. k - 1 : r[i] = t
      BY <1>2, <2>2 DEF rest
    <3>2. i \in 1 .. k /\ q[i] = t
      BY <1>1, <1>4, <3>1
    <3>. QED  BY <3>2
  <2>. QED  BY <2>1, <2>2
<1>6. ASSUME NEW i \in 1 .. k, NEW j \in 1 .. k, i < j
      PROVE  q[i] < q[j]
  <2>1. i \in 1 .. k - 1
    BY <1>1, <1>6
  <2>2. CASE j = k
    BY <1>3, <1>4, <2>1, <2>2
  <2>3. CASE j # k
    <3>1. j \in 1 .. k - 1 /\ DOMAIN r = 1 .. k - 1
      BY <1>1, <1>2, <2>3
    <3>. QED  BY <1>2, <1>4, <1>6, <2>1, <3>1 DEF Ascending
  <2>. QED  BY <2>2, <2>3
<1>7. Sorts(q, T)
  BY <1>4, <1>5, <1>6 DEF Sorts, Ascending, k
<1>. QED  BY <1>7

(* Every finite set of numbers can be sorted. *)
LEMMA SortsExist ==
    ASSUME NEW n \in Nat, NEW T \in SUBSET Below(n), IsFiniteSet(T)
    PROVE  \E q : Sorts(q, T)
<1>. DEFINE N == {k \in Nat : \A S \in SUBSET Below(k) :
                                 IsFiniteSet(S) => \E q : Sorts(q, S)}
<1>1. 0 \in N
  <2>. SUFFICES ASSUME NEW S \in SUBSET Below(0)  PROVE \E q : Sorts(q, S)
    OBVIOUS
  <2>1. S = {}
    BY DEF Below
  <2>2. Cardinality(S) = 0
    BY <2>1, FS_EmptySet
  <2>3. Sorts(<< >>, S)
    BY <2>1, <2>2 DEF Sorts, Ascending
  <2>. QED  BY <2>3
<1>2. ASSUME NEW k \in N  PROVE k + 1 \in N
  <2>. SUFFICES ASSUME NEW S \in SUBSET Below(k + 1), IsFiniteSet(S)
                PROVE  \E q : Sorts(q, S)
    OBVIOUS
  <2>1. S \ {k} \in SUBSET Below(k) /\ IsFiniteSet(S \ {k})
    BY FS_Subset DEF Below
  <2>2. PICK r : Sorts(r, S \ {k})
    BY <2>1
  <2>3. CASE k \in S
    BY <2>1, <2>2, <2>3, SortedFurther
  <2>4. CASE k \notin S
    BY <2>2, <2>4, S \ {k} = S
  <2>. QED  BY <2>3, <2>4
<1>3. N = Nat
  <2>. HIDE DEF N
  <2>1. N \in SUBSET Nat
    BY DEF N
  <2>. QED  BY <1>1, <1>2, <2>1, NaturalsReached
<1>. QED  BY <1>3

(* The query gives every second once, in order. *)
LEMMA TimestampsSorted ==
    ASSUME NEW read, read \subseteq Snapshot
    PROVE  /\ Timestamps(read) \in Seq(Times)
           /\ Ascending(Timestamps(read))
           /\ Elements(Timestamps(read)) = Seconds(read)
<1>. DEFINE T == Seconds(read)
            q == Timestamps(read)
<1>1. MaxTime \in Nat /\ T \subseteq Times
  BY StoreAssumption DEF Seconds, Snapshot
<1>. HIDE DEF T
<1>a. IsFiniteSet(0 .. MaxTime)
  <2>1. 0 \in Int /\ MaxTime \in Int
    BY <1>1
  <2>. QED  BY <2>1, FS_Interval
<1>2. IsFiniteSet(T)
  <2>1. T \subseteq 0 .. MaxTime
    BY <1>1 DEF Times
  <2>. QED  BY <1>a, <2>1, FS_Subset
<1>3. T \in SUBSET Below(MaxTime + 1)
  BY <1>1 DEF Times, Below
<1>4. \E p : Sorts(p, T)
  BY <1>1, <1>2, <1>3, SortsExist
<1>5. q = CHOOSE p \in [1 .. Cardinality(T) -> T] :
             /\ \A t \in T : \E i \in DOMAIN p : p[i] = t
             /\ \A i, j \in DOMAIN p : i < j => p[i] < p[j]
  BY DEF Timestamps, T
<1>. HIDE DEF q
<1>6. Sorts(q, T)
  BY <1>4, <1>5 DEF Sorts, Ascending
<1>7. Cardinality(T) \in Nat
  BY <1>2, FS_CardinalityType
<1>8. q \in Seq(Times)
  BY <1>1, <1>6, <1>7 DEF Sorts
<1>9. Elements(q) = T
  BY <1>6 DEF Sorts, Elements
<1>. QED  BY <1>6, <1>8, <1>9 DEF Sorts, q, T

(* One timestamp is done: it does not come again. *)
LEMMA TailFacts ==
    ASSUME NEW q \in Seq(Times), q # << >>, Ascending(q)
    PROVE  /\ Tail(q) \in Seq(Times) /\ Ascending(Tail(q)) /\ Head(q) \in Times
           /\ Elements(q) = {Head(q)} \cup Elements(Tail(q))
           /\ Head(q) \notin Elements(Tail(q))
<1>. DEFINE n == Len(q)
            r == Tail(q)
<1>1. /\ n \in Nat /\ n >= 1 /\ DOMAIN q = 1 .. n /\ \A i \in 1 .. n : q[i] \in Times
      /\ DOMAIN r = 1 .. n - 1 /\ \A i \in 1 .. n - 1 : r[i] = q[i + 1]
      /\ r \in Seq(Times) /\ Head(q) = q[1]
  OBVIOUS
<1>2. \A i \in 1 .. n : q[i] \in Int
  BY <1>1, StoreAssumption DEF Times
<1>. HIDE DEF n, r
<1>3. Ascending(r)
  <2>. SUFFICES ASSUME NEW i \in 1 .. n - 1, NEW j \in 1 .. n - 1, i < j
                PROVE  r[i] < r[j]
    BY <1>1 DEF Ascending
  <2>1. i + 1 \in 1 .. n /\ j + 1 \in 1 .. n /\ i + 1 < j + 1
    BY <1>1
  <2>2. q[i + 1] < q[j + 1]
    BY <1>1, <2>1 DEF Ascending
  <2>. QED  BY <1>1, <2>2
<1>4. ASSUME NEW i \in 1 .. n, i # 1
      PROVE  q[i] \in Elements(r)
  <2>1. i - 1 \in 1 .. n - 1 /\ (i - 1) + 1 = i
    BY <1>1, <1>4
  <2>2. r[i - 1] = q[i]
    BY <1>1, <2>1
  <2>. QED  BY <1>1, <2>1, <2>2 DEF Elements
<1>5. ASSUME NEW i \in 1 .. n - 1
      PROVE  q[1] < r[i] /\ r[i] \in Elements(q)
  <2>1. i + 1 \in 1 .. n /\ 1 \in 1 .. n /\ 1 < i + 1 /\ r[i] = q[i + 1]
    BY <1>1
  <2>2. q[1] < q[i + 1]
    BY <1>1, <2>1 DEF Ascending
  <2>. QED  BY <1>1, <2>1, <2>2 DEF Elements
<1>6. Elements(q) \subseteq {Head(q)} \cup Elements(r)
  BY <1>1, <1>4 DEF Elements
<1>7. Head(q) \in Elements(q) /\ Elements(r) \subseteq Elements(q)
  <2>1. 1 \in 1 .. n
    BY <1>1
  <2>2. Head(q) \in Elements(q)
    BY <1>1, <2>1 DEF Elements
  <2>3. Elements(r) \subseteq Elements(q)
    BY <1>1, <1>5 DEF Elements
  <2>. QED  BY <2>2, <2>3
<1>8. Head(q) \notin Elements(r)
  <2>1. \A i \in 1 .. n - 1 : q[1] # r[i]
    <3>. SUFFICES ASSUME NEW i \in 1 .. n - 1  PROVE q[1] # r[i]
      OBVIOUS
    <3>1. q[1] < r[i] /\ q[1] \in Int
      BY <1>1, <1>2, <1>5
    <3>. QED  BY <3>1
  <2>. QED  BY <1>1, <2>1 DEF Elements
<1>9. Head(q) \in Times
  BY <1>1
<1>. QED  BY <1>1, <1>3, <1>6, <1>7, <1>8, <1>9 DEF r

-----------------------------------------------------------------------------
(***************************************************************************)
(* The invariant of the replay: a snapshot is replayed when its second is  *)
(* done, and no second is done twice.  What is gone from the database is   *)
(* of an earlier second, and does not come back.                           *)
(***************************************************************************)
Ahead == Elements(IF pc = "size" THEN Tail(timestamps) ELSE timestamps)

TimesOK ==
    /\ pc \in {"off", "load", "size", "done"}
    /\ timestamps \in Seq(Times) /\ Ascending(timestamps)
    /\ pc = "size" => timestamps # << >>
    /\ pc = "done" => timestamps = << >>
    /\ pc = "off" => known = {}

CountsOK ==
    /\ replays \in [Snapshot -> Nat]
    /\ known \subseteq Snapshot /\ skipped \subseteq Times
    /\ \A s \in Snapshot : /\ replays[s] <= 1
                           /\ s.at \in Ahead \/ pc = "off" => replays[s] = 0
    /\ \A s \in known \cap snapshots : s.at \in Ahead \cup skipped \/ replays[s] = 1

PastOK ==
    /\ \A s \in known \cup snapshots : s.at <= now
    /\ \A s \in known \ snapshots : s.at < now

LedgerOK ==
    /\ totalWagered \in Nat
    /\ botBets \in [Markets -> Nat]
    /\ liveBets \in [Markets -> Nat]

ReplayInv ==
    StoreInv /\ BookOK /\ TimesOK /\ CountsOK /\ PastOK /\ LedgerOK

(* Before the backtest starts nothing was replayed. *)
LEMMA ReplayInit == Init => ReplayInv
<1>. SUFFICES ASSUME Init  PROVE ReplayInv
  OBVIOUS
<1>1. StoreInv
  BY StoreInvInit DEF Init
<1>2. BookOK
  BY CapInit DEF CapInvariant
<1>3. TimesOK
  BY DEF Init, TimesOK, Ascending
<1>4. CountsOK /\ PastOK
  BY DEF Init, StoreInit, CountsOK, PastOK, Ahead, Elements
<1>5. LedgerOK
  BY DEF Init, Nothing, LedgerOK
<1>. QED  BY <1>1, <1>2, <1>3, <1>4, <1>5 DEF ReplayInv

(* The steps of the backtest leave the tables alone, but for a fault.       *)
LEMMA StoreKept ==
    ASSUME StoreInv, UNCHANGED <<rows, snapshots, now, queue, upserted>>,
           UNCHANGED faults \/ \E kind : Strikes(kind)
    PROVE  StoreInv'
<1>1. faults' \in 0 .. MaxFaults
  BY StrikesBounded DEF StoreInv, StoreTypeOK
<1>2. StoreTypeOK'
  BY <1>1 DEF StoreInv, StoreTypeOK, Collecting
<1>3. UpsertedReadable' /\ SnapshotsReadable'
  BY DEF StoreInv, UpsertedReadable, SnapshotsReadable
<1>. QED  BY <1>2, <1>3 DEF StoreInv

(* The bot meanwhile adds snapshots of the present second, and trims those  *)
(* of earlier ones.                                                         *)
LEMMA PastLive ==
    ASSUME StoreInv, PastOK, StoreNext, UNCHANGED known, known \subseteq Snapshot
    PROVE  PastOK' /\ known \cap snapshots' \subseteq known \cap snapshots
<1>0. now \in Nat /\ now' \in {now, now + 1} /\ snapshots \subseteq Snapshot
  BY DEF StoreInv, StoreTypeOK, Times, StoreNext, Scan, LeaveOut, UpsertMarket,
     UpsertFails, TakeSnapshot, SnapshotFails, CollectorDies, EnsureMarketExists,
     TrimSnapshots, TimePasses
<1>1. \A s \in known \cup snapshots : s.at \in Nat
  BY <1>0 DEF Snapshot, Times
<1>2. CASE UNCHANGED snapshots
  <2>1. ASSUME NEW s \in known \cup snapshots  PROVE s.at <= now'
    BY <1>0, <1>1, <2>1 DEF PastOK
  <2>2. ASSUME NEW s \in known \ snapshots  PROVE s.at < now'
    BY <1>0, <1>1, <2>2 DEF PastOK
  <2>. QED  BY <1>2, <2>1, <2>2 DEF PastOK
<1>3. CASE TakeSnapshot
  <2>. DEFINE new == [market |-> Head(queue).market, at |-> now]
  <2>1. snapshots' = snapshots \cup {new} /\ now' = now /\ new.at = now
    BY <1>3 DEF TakeSnapshot
  <2>. HIDE DEF new
  <2>2. new \in known => new \in snapshots
    BY <1>0, <2>1 DEF PastOK
  <2>3. ASSUME NEW s \in known \cup snapshots'  PROVE s.at <= now'
    BY <1>0, <2>1 DEF PastOK
  <2>4. ASSUME NEW s \in known \ snapshots'  PROVE s.at < now'
    BY <2>1 DEF PastOK
  <2>. QED  BY <2>1, <2>2, <2>3, <2>4 DEF PastOK
<1>4. CASE TrimSnapshots
  <2>1. snapshots' = {s \in snapshots : s.at + KeepTime >= now} /\ now' = now
    BY <1>4 DEF TrimSnapshots
  <2>2. KeepTime \in Nat
    BY StoreAssumption
  <2>3. ASSUME NEW s \in known \cup snapshots'  PROVE s.at <= now'
    BY <2>1 DEF PastOK
  <2>4. ASSUME NEW s \in known \ snapshots'  PROVE s.at < now'
    <3>1. CASE s \in snapshots
      BY <1>0, <1>1, <2>1, <2>2, <2>4, <3>1
    <3>2. CASE s \notin snapshots
      BY <2>1, <2>4, <3>2 DEF PastOK
    <3>. QED  BY <3>1, <3>2
  <2>. QED  BY <2>1, <2>3, <2>4 DEF PastOK
<1>. QED
  BY <1>2, <1>3, <1>4 DEF StoreNext, Scan, LeaveOut, UpsertMarket, UpsertFails,
     SnapshotFails, CollectorDies, EnsureMarketExists, TimePasses

(* The timestamps are those of the snapshots in range, each once. *)
LEMMA ReplayLoads ==
    ASSUME ReplayInv, LoadSnapshotTimestamps
    PROVE  TimesOK' /\ CountsOK' /\ PastOK'
<1>1. PICK from \in Times, to \in Times :
         /\ timestamps' = Timestamps(InRange(from, to))
         /\ known' = InRange(from, to)
  BY DEF LoadSnapshotTimestamps
<1>. DEFINE read == InRange(from, to)
<1>2. /\ pc = "off" /\ pc' = "load"
      /\ UNCHANGED <<rows, snapshots, now, queue, upserted, faults, replays, skipped>>
  BY DEF LoadSnapshotTimestamps, storeVars
<1>3. read \subseteq snapshots /\ read \subseteq Snapshot
  BY DEF InRange, ReplayInv, StoreInv, StoreTypeOK
<1>. HIDE DEF read
<1>4. /\ timestamps' \in Seq(Times) /\ Ascending(timestamps')
      /\ Elements(timestamps') = Seconds(read)
  BY <1>1, <1>3, TimestampsSorted DEF read
<1>5. TimesOK'
  BY <1>2, <1>4 DEF TimesOK
<1>6. Ahead' = Seconds(known') /\ known' = read
  BY <1>1, <1>2, <1>4 DEF Ahead, read
<1>7. \A s \in Snapshot : replays[s] = 0
  BY <1>2 DEF ReplayInv, CountsOK
<1>8. CountsOK'
  <2>1. \A s \in known' : s.at \in Ahead'
    BY <1>6 DEF Seconds
  <2>. QED  BY <1>2, <1>3, <1>6, <1>7, <2>1 DEF ReplayInv, CountsOK
<1>9. PastOK'
  BY <1>2, <1>3, <1>6 DEF ReplayInv, PastOK
<1>. QED  BY <1>5, <1>8, <1>9

(* The snapshots of the second at the front had not been replayed. *)
LEMMA ReplayReplays ==
    ASSUME ReplayInv, NEW batch \in Batches, Replay(batch)
    PROVE  TimesOK' /\ CountsOK' /\ PastOK'
<1>1. /\ pc = "load" /\ pc' = "size" /\ timestamps # << >>
      /\ UNCHANGED <<timestamps, known, skipped, snapshots, now>>
      /\ replays' = [s \in Snapshot |-> replays[s] + IF s \in Current THEN 1 ELSE 0]
  BY DEF Replay, Loading, storeVars
<1>. DEFINE head == Head(timestamps)
<1>2. /\ Ahead = {head} \cup Ahead' /\ head \notin Ahead'
  BY <1>1, TailFacts DEF ReplayInv, TimesOK, Ahead
<1>3. \A s \in Snapshot : s \in Current <=> s \in snapshots /\ s.at = head
  BY DEF Current
<1>. HIDE DEF head
<1>4. ASSUME NEW s \in Snapshot
      PROVE  /\ replays[s] \in Nat /\ replays[s] <= 1
             /\ s.at \in Ahead => replays[s] = 0
             /\ replays'[s] = replays[s] + IF s \in Current THEN 1 ELSE 0
  BY <1>1 DEF ReplayInv, CountsOK
<1>5. ASSUME NEW s \in Snapshot
      PROVE  /\ replays'[s] \in Nat /\ replays'[s] <= 1
             /\ s.at \in Ahead' => replays'[s] = 0
             /\ s \in Current => replays'[s] = 1
             /\ s \notin Current => replays'[s] = replays[s]
  BY <1>2, <1>3, <1>4
<1>6. replays' \in [Snapshot -> Nat]
  BY <1>1, <1>5
<1>7. ASSUME NEW s \in known' \cap snapshots'
      PROVE  s.at \in Ahead' \cup skipped' \/ replays'[s] = 1
  <2>1. s \in known \cap snapshots /\ s \in Snapshot
    BY <1>1, <1>7 DEF ReplayInv, CountsOK
  <2>2. s.at \in Ahead \cup skipped \/ replays[s] = 1
    BY <2>1 DEF ReplayInv, CountsOK
  <2>3. CASE s \in Current
    BY <1>5, <2>1, <2>3
  <2>4. CASE s \notin Current
    BY <1>1, <1>2, <1>3, <1>5, <2>1, <2>2, <2>4
  <2>. QED  BY <2>3, <2>4
<1>8. CountsOK'
  <2>1. known' \subseteq Snapshot /\ skipped' \subseteq Times
    BY <1>1 DEF ReplayInv, CountsOK
  <2>. QED  BY <1>1, <1>5, <1>6, <1>7, <2>1 DEF CountsOK
<1>9. TimesOK' /\ PastOK'
  BY <1>1 DEF ReplayInv, TimesOK, PastOK
<1>. QED  BY <1>8, <1>9

(* A second that could not be loaded is remembered, and over. *)
LEMMA ReplaySkips ==
    ASSUME ReplayInv, LoadMarketsFails
    PROVE  TimesOK' /\ CountsOK' /\ PastOK'
<1>1. /\ pc = "load" /\ pc' = pc /\ timestamps # << >> /\ timestamps' = Tail(timestamps)
      /\ UNCHANGED <<known, snapshots, now, replays>>
      /\ skipped' = skipped \cup {Head(timestamps)}
  BY DEF LoadMarketsFails, Loading
<1>. DEFINE head == Head(timestamps)
<1>2. /\ Ahead = {head} \cup Ahead' /\ head \in Times
      /\ Tail(timestamps) \in Seq(Times) /\ Ascending(Tail(timestamps))
  BY <1>1, TailFacts DEF ReplayInv, TimesOK, Ahead
<1>. HIDE DEF head
<1>3. skipped' = skipped \cup {head}
  BY <1>1 DEF head
<1>4. TimesOK' /\ PastOK'
  BY <1>1, <1>2 DEF ReplayInv, TimesOK, PastOK
<1>5. CountsOK'
  BY <1>1, <1>2, <1>3 DEF ReplayInv, CountsOK
<1>. QED  BY <1>4, <1>5

(* A second that was replayed is over. *)
LEMMA ReplayMovesOn ==
    ASSUME ReplayInv, TimestampDone
    PROVE  TimesOK' /\ CountsOK' /\ PastOK'
<1>1. /\ pc = "size" /\ pc' = "load" /\ timestamps' = Tail(timestamps)
      /\ UNCHANGED <<known, skipped, replays, snapshots, now>>
  BY DEF TimestampDone, history, storeVars
<1>2. timestamps \in Seq(Times) /\ timestamps # << >> /\ Ascending(timestamps)
  BY <1>1 DEF ReplayInv, TimesOK
<1>3. Tail(timestamps) \in Seq(Times) /\ Ascending(Tail(timestamps))
  BY <1>2, TailFacts
<1>4. Ahead' = Ahead
  BY <1>1 DEF Ahead
<1>5. TimesOK' /\ PastOK'
  BY <1>1, <1>3 DEF ReplayInv, TimesOK, PastOK
<1>6. CountsOK'
  BY <1>1, <1>4 DEF ReplayInv, CountsOK
<1>. QED  BY <1>5, <1>6

(* What is still ahead depends on pc and timestamps alone. *)
LEMMA ReplayElsewhere ==
    ASSUME ReplayInv, UNCHANGED <<pc, timestamps, history>>
    PROVE  TimesOK' /\ Ahead' = Ahead
BY DEF ReplayInv, TimesOK, Ahead, history

(* Steps that change neither the tables nor the timestamps.                 *)
LEMMA ReplayStays ==
    ASSUME ReplayInv, UNCHANGED <<pc, timestamps, history, snapshots, now>>
    PROVE  TimesOK' /\ CountsOK' /\ PastOK'
<1>1. TimesOK' /\ Ahead' = Ahead
  BY ReplayElsewhere
<1>2. CountsOK' /\ PastOK'
  BY <1>1 DEF ReplayInv, CountsOK, PastOK, history
<1>. QED  BY <1>1, <1>2

(* Every step of the backtest and of the bot keeps the invariant.           *)
LEMMA ReplayStep == ReplayInv /\ CapInvariant /\ [Next]_vars => ReplayInv'
<1>. SUFFICES ASSUME ReplayInv, CapInvariant, [Next]_vars  PROVE ReplayInv'
  OBVIOUS
<1>0. BookOK'
  BY CapStep DEF CapInvariant
<1>1. CASE LoadSnapshotTimestamps
  <2>1. TimesOK' /\ CountsOK' /\ PastOK'
    BY <1>1, ReplayLoads
  <2>2. StoreInv'
    BY <1>1, StoreKept DEF LoadSnapshotTimestamps, storeVars, ReplayInv
  <2>3. LedgerOK'
    BY <1>1 DEF LoadSnapshotTimestamps, ledger, ReplayInv, LedgerOK
  <2>. QED  BY <1>0, <2>1, <2>2, <2>3 DEF ReplayInv
<1>2. ASSUME NEW batch \in Batches, Replay(batch)  PROVE ReplayInv'
  <2>1. TimesOK' /\ CountsOK' /\ PastOK'
    BY <1>2, ReplayReplays
  <2>2. StoreInv'
    BY <1>2, StoreKept DEF Replay, storeVars, ReplayInv
  <2>3. LedgerOK'
    BY <1>2 DEF Replay, ledger, ReplayInv, LedgerOK
  <2>. QED  BY <1>0, <2>1, <2>2, <2>3 DEF ReplayInv
<1>3. CASE LoadMarketsFails
  <2>1. TimesOK' /\ CountsOK' /\ PastOK'
    BY <1>3, ReplaySkips
  <2>2. UNCHANGED faults \/ \E kind : Strikes(kind)
    BY <1>3 DEF LoadMarketsFails
  <2>3. StoreInv'
    BY <1>3, <2>2, StoreKept DEF LoadMarketsFails, ReplayInv
  <2>4. LedgerOK'
    BY <1>3 DEF LoadMarketsFails, ledger, ReplayInv, LedgerOK
  <2>. QED  BY <1>0, <2>1, <2>3, <2>4 DEF ReplayInv
<1>4. CASE SizeNext
  <2>0. UNCHANGED <<storeVars, pc, timestamps, totalWagered, ledger, history>>
    BY <1>4 DEF SizeNext
  <2>1. TimesOK' /\ CountsOK' /\ PastOK'
    BY <2>0, ReplayStays DEF storeVars
  <2>2. StoreInv'
    BY <2>0, StoreKept DEF storeVars, ReplayInv
  <2>3. LedgerOK'
    BY <2>0 DEF ledger, ReplayInv, LedgerOK
  <2>. QED  BY <1>0, <2>1, <2>2, <2>3 DEF ReplayInv
<1>5. CASE RecordBacktestBet
  <2>. DEFINE bet == Head(sized)
  <2>0. /\ UNCHANGED <<rows, snapshots, now, queue, upserted, pc, timestamps, liveBets,
                       history>>
        /\ sized # << >> /\ totalWagered' = totalWagered + bet.amount
        /\ \/ botBets' = Plus(botBets, bet.market, bet.amount)
           \/ UNCHANGED botBets
        /\ UNCHANGED faults \/ \E kind : Strikes(kind)
    BY <1>5 DEF RecordBacktestBet
  <2>1. TimesOK' /\ CountsOK' /\ PastOK'
    BY <2>0, ReplayStays
  <2>2. StoreInv'
    BY <2>0, StoreKept DEF ReplayInv
  <2>3. bet \in Bet
    BY <2>0 DEF ReplayInv, BookOK
  <2>. HIDE DEF bet
  <2>4. LedgerOK'
    BY <2>0, <2>3 DEF ReplayInv, LedgerOK, Plus, Bet
  <2>. QED  BY <1>0, <2>1, <2>2, <2>4 DEF ReplayInv
<1>6. CASE TimestampDone
  <2>1. TimesOK' /\ CountsOK' /\ PastOK'
    BY <1>6, ReplayMovesOn
  <2>2. StoreInv'
    BY <1>6, StoreKept DEF TimestampDone, storeVars, ReplayInv
  <2>3. LedgerOK'
    BY <1>6 DEF TimestampDone, ledger, ReplayInv, LedgerOK
  <2>. QED  BY <1>0, <2>1, <2>2, <2>3 DEF ReplayInv
<1>7. CASE Report
  <2>0. /\ pc = "load" /\ timestamps = << >> /\ pc' = "done"
        /\ UNCHANGED <<storeVars, timestamps, totalWagered, ledger, history>>
    BY <1>7 DEF Report
  <2>1. Ahead' = Ahead
    BY <2>0 DEF Ahead
  <2>2. TimesOK' /\ CountsOK' /\ PastOK'
    BY <2>0, <2>1 DEF ReplayInv, TimesOK, CountsOK, PastOK, history, storeVars
  <2>3. StoreInv'
    BY <2>0, StoreKept DEF storeVars, ReplayInv
  <2>4. LedgerOK'
    BY <2>0 DEF ledger, ReplayInv, LedgerOK
  <2>. QED  BY <1>0, <2>2, <2>3, <2>4 DEF ReplayInv
<1>8. CASE Live
  <2>0. StoreNext /\ UNCHANGED <<pc, timestamps, totalWagered, ledger, history>>
    BY <1>8 DEF Live
  <2>1. TimesOK' /\ Ahead' = Ahead
    BY <2>0, ReplayElsewhere
  <2>2. PastOK' /\ known \cap snapshots' \subseteq known \cap snapshots
    BY <2>0, PastLive DEF ReplayInv, CountsOK, history
  <2>3. CountsOK'
    BY <2>0, <2>1, <2>2 DEF ReplayInv, CountsOK, history
  <2>4. StoreInv'
    BY <2>0, StoreInvStep DEF ReplayInv
  <2>5. LedgerOK'
    BY <2>0 DEF ledger, ReplayInv, LedgerOK
  <2>. QED  BY <1>0, <2>1, <2>2, <2>3, <2>4, <2>5 DEF ReplayInv
<1>9. ASSUME NEW m \in Markets, RecordLiveBet(m)  PROVE ReplayInv'
  <2>0. /\ UNCHANGED <<storeVars, pc, timestamps, totalWagered, history>>
        /\ botBets' = Plus(botBets, m, 1) /\ liveBets' = Plus(liveBets, m, 1)
    BY <1>9 DEF RecordLiveBet
  <2>1. TimesOK' /\ CountsOK' /\ PastOK'
    BY <2>0, ReplayStays DEF storeVars
  <2>2. StoreInv'
    BY <2>0, StoreKept DEF storeVars, ReplayInv
  <2>3. LedgerOK'
    BY <2>0 DEF ReplayInv, LedgerOK, Plus
  <2>. QED  BY <1>0, <2>1, <2>2, <2>3 DEF ReplayInv
<1>10. CASE UNCHANGED vars
  <2>0. UNCHANGED <<storeVars, pc, timestamps, totalWagered, ledger, history>>
    BY <1>10 DEF vars
  <2>1. TimesOK' /\ CountsOK' /\ PastOK'
    BY <2>0, ReplayStays DEF storeVars
  <2>2. StoreInv'
    BY <2>0, StoreKept DEF storeVars, ReplayInv
  <2>3. LedgerOK'
    BY <2>0 DEF ledger, ReplayInv, LedgerOK
  <2>. QED  BY <1>0, <2>1, <2>2, <2>3 DEF ReplayInv
<1>. QED
  BY <1>1, <1>2, <1>3, <1>4, <1>5, <1>6, <1>7, <1>8, <1>9, <1>10 DEF Next, Run

(* The replay invariant holds of every behaviour. *)
LEMMA ReplayInvariant == Spec => []ReplayInv
BY CapInit, CapStep, ReplayInit, ReplayStep, PTL DEF Spec

(* The variables of the backtest keep their types, and outside of a         *)
(* timestamp no signal and no bet is left over (Run).                       *)
THEOREM BacktestTypeCorrect == Spec => []TypeOK
<1>1. ReplayInv => TypeOK
  <2>. SUFFICES ASSUME ReplayInv  PROVE TypeOK
    OBVIOUS
  <2>1. [market : Markets, amount : Nat] = Bet
    BY DEF Bet
  <2>2. wagered \in [Markets -> Nat]
    BY DEF ReplayInv, BookOK
  <2>. QED
    BY <2>1, <2>2 DEF ReplayInv, StoreInv, BookOK, TimesOK, CountsOK, LedgerOK, TypeOK
<1>. QED  BY <1>1, ReplayInvariant, PTL

(* However many snapshots are added and trimmed while it runs, a backtest   *)
(* replays none twice, and in the end it replayed all it set out with that  *)
(* are still there and whose second could be read (loadSnapshotTimestamps,  *)
(* loadMarketsAtTimestamp).                                                 *)
THEOREM AlwaysReplayedOnce == Spec => []ReplayedOnce
<1>1. ReplayInv => ReplayedOnce
  <2>. SUFFICES ASSUME ReplayInv  PROVE ReplayedOnce
    OBVIOUS
  <2>1. pc = "done" => Ahead = {}
    BY DEF ReplayInv, TimesOK, Ahead, Elements
  <2>. QED  BY <2>1 DEF ReplayInv, CountsOK, ReplayedOnce
<1>. QED  BY <1>1, ReplayInvariant, PTL

(* While a backtest runs, too, every snapshot can be read with its market:  *)
(* a second is skipped for a query that fails, never for a row of it.       *)
THEOREM BacktestSnapshotsReadable == Spec => []SnapshotsReadable
<1>1. ReplayInv => SnapshotsReadable
  BY DEF ReplayInv, StoreInv
<1>. QED  BY <1>1, ReplayInvariant, PTL

=============================================================================
