----------------------------- MODULE AlertProofs -----------------------------
(***************************************************************************)
(* Theorems of module Ingest that need what its tables hold, not only how  *)
(* they relate: the types of rows and alerts, the refresh that makes the   *)
(* newest payload current, the alerts a retry computes again, and the      *)
(* agreement of the digest with the site.                                  *)
(***************************************************************************)
EXTENDS IngestProofs

-----------------------------------------------------------------------------
(* Lemmas about the operators of AlertRules and PriceSummary.              *)

(* A finite set of things with a natural measure has a greatest: one whose *)
(* set of things no smaller is minimal.                                    *)
LEMMA Greatest ==
  ASSUME NEW S, IsFiniteSet(S), S # {}, NEW f \in [S -> Nat]
  PROVE  \E m \in S : \A x \in S : f[x] <= f[m]
<1> DEFINE From(x) == {y \in S : f[y] >= f[x]}
           Tails == {From(x) : x \in S}
<1>1. \A x \in S : From(x) \in FiniteSubsetsOf(S)
  BY FS_Subset DEF FiniteSubsetsOf
<1>2. Tails \subseteq FiniteSubsetsOf(S) /\ Tails # {}
  <2> HIDE DEF From
  <2>1. QED
    BY <1>1
<1>3. PICK U \in Tails : \A V \in Tails : ~(<<V, U>> \in StrictSubsetOrdering(S))
  <2> HIDE DEF Tails
  <2>1. IsWellFoundedOn(StrictSubsetOrdering(S), FiniteSubsetsOf(S))
    BY FS_StrictSubsetOrderingWellFounded
  <2>2. QED
    BY <1>2, <2>1, WFMin
<1>4. PICK m \in S : U = From(m)
  OBVIOUS
<1>5. ASSUME NEW x \in S, f[x] > f[m]
      PROVE  FALSE
  <2>1. From(x) \subseteq From(m) /\ m \in From(m) /\ m \notin From(x)
    BY <1>5
  <2>2. <<From(x), U>> \in StrictSubsetOrdering(S)
    BY <1>4, <2>1 DEF StrictSubsetOrdering
  <2>3. QED
    BY <1>3, <2>2
<1>6. QED
  BY <1>5

(* The latest of some observations is one of them.                         *)
LEMMA LatestIsLatest ==
  ASSUME NEW S, IsFiniteSet(S), S # {}, \A o \in S : o.at \in Nat
  PROVE  LatestOf(S) \in S /\ \A q \in S : q.at <= LatestOf(S).at
<1> DEFINE f == [o \in S |-> o.at]
<1>1. PICK m \in S : \A q \in S : f[q] <= f[m]
  BY Greatest
<1>2. m \in S /\ \A q \in S : q.at <= m.at
  BY <1>1
<1>3. QED
  BY <1>2 DEF LatestOf

(* The peak of a history is the price of one of its observations, and no   *)
(* price of the window is higher.                                          *)
LEMMA PeakIsHighest ==
  ASSUME NEW S, IsFiniteSet(S), S # {}, \A o \in S : o.at \in Nat /\ o.price \in Nat,
         NEW at \in Nat, NEW window \in Nat
  PROVE  /\ \E o \in S : PeakPrice(S, at, window) = o.price
         /\ \A o \in S : o.at >= at - window => o.price <= PeakPrice(S, at, window)
<1> DEFINE inWindow == {o \in S : o.at >= at - window}
           from == IF inWindow = {} THEN {LatestOf(S)} ELSE inWindow
           top == CHOOSE o \in from : \A q \in from : q.price <= o.price
<1>1. from \subseteq S /\ from # {}
  BY LatestIsLatest
<1>2. IsFiniteSet(from)
  BY <1>1, FS_Subset
<1>3. top \in from /\ \A q \in from : q.price <= top.price
  <2> HIDE DEF from
  <2> DEFINE f == [o \in from |-> o.price]
  <2>1. f \in [from -> Nat]
    BY <1>1
  <2>2. PICK m \in from : \A q \in from : f[q] <= f[m]
    BY <1>1, <1>2, <2>1, Greatest
  <2>3. m \in from /\ \A q \in from : q.price <= m.price
    BY <2>2
  <2>4. QED
    BY <2>3
<1>4. PeakPrice(S, at, window) = top.price
  BY DEF PeakPrice
<1>5. inWindow \subseteq from
  OBVIOUS
<1>6. QED
  <2> HIDE DEF from, top
  <2>1. QED
    BY <1>1, <1>3, <1>4, <1>5

(* A percentage is an integer.                                             *)
LEMMA PctType ==
  ASSUME NEW price \in Nat, NEW reference \in Nat \cup {NoPrice}
  PROVE  DiscountPct(price, reference) \in Int
<1>1. CASE reference = NoPrice \/ reference <= price \/ reference = 0
  BY <1>1 DEF DiscountPct
<1>2. CASE ~(reference = NoPrice \/ reference <= price \/ reference = 0)
  <2>1. /\ 2000 * (reference - price) + reference \in Int
        /\ 2 * reference \in Int /\ 2 * reference > 0
    BY <1>2
  <2>2. (2000 * (reference - price) + reference) \div (2 * reference) \in Int
    BY <2>1
  <2>3. QED
    BY <1>2, <2>2 DEF DiscountPct
<1>3. QED
  BY <1>1, <1>2

(* The alerts of a product depend on its history through the observations  *)
(* older than the payload only.                                            *)
LEMMA ClassifyByPrior ==
  ASSUME NEW p, NEW snap, NEW g, NEW h, NEW at, NEW w, Prior(g, at) = Prior(h, at)
  PROVE  ClassifyAlerts(p, snap, g, at, w, Threshold, PeakWindow)
           = ClassifyAlerts(p, snap, h, at, w, Threshold, PeakWindow)
  BY DEF ClassifyAlerts

-----------------------------------------------------------------------------
(* The observations: finitely many, whole payloads.                        *)

(* The observation of p that the payload k makes, as history shows it.     *)
Own(p, k) ==
  [at |-> FetchedAt[k], run |-> k, price |-> Payload[k][p].price, list |-> Payload[k][p].list,
   flag |-> Payload[k][p].flag]

(* Everything k lists has an observation of k.                             *)
Whole(k) == \A p \in Listed(k) : \E o \in obs : o.run = k /\ o.product = p

TablesInv ==
  /\ AlertInv
  /\ IsFiniteSet(obs)
  /\ obs \subseteq [product : Product, at : Nat, run : Key]
  /\ \A k \in Key : Stored(k) => Whole(k)

(* The parts of the invariant that lie deep in it.                         *)
LEMMA TablesParts ==
  ASSUME TablesInv
  PROVE  /\ AlertInv /\ ResultInv /\ StoreInv /\ CatalogInv /\ ControlInv /\ TypeOK
         /\ DraftsOfHandlers /\ applied \subseteq Key /\ ObservationsMatch
         /\ \A k \in applied : Publishable(k) /\ k \notin Malformed
  BY DEF TablesInv, AlertInv, ResultInv, StoreInv, CatalogInv, ControlInv, Publishable

(* Two payloads of one time that list a product are one.                   *)
LEMMA SameTimeSameRun ==
  ASSUME NEW k \in Key, NEW l \in Key, NEW p, p \in Listed(k), p \in Listed(l),
         FetchedAt[k] = FetchedAt[l]
  PROVE  k = l
  BY DistinctTimes DEF Listed

(* What a payload adds is a finite set of observations of its run.         *)
LEMMA NewOnes ==
  ASSUME NEW k \in Key
  PROVE  /\ IsFiniteSet(NewObservations(k))
         /\ NewObservations(k) \subseteq [product : Product, at : Nat, run : Key]
<1> DEFINE Q == {q \in Listed(k) : ~\E o \in obs : o.product = q /\ o.at = FetchedAt[k]}
           f == [q \in Q |-> [product |-> q, at |-> FetchedAt[k], run |-> k]]
<1>1. IsFiniteSet(Q)
  BY IngestAssumption, FS_Subset DEF Listed
<1>2. f \in Surjection(Q, NewObservations(k))
  BY DEF NewObservations, Surjection
<1>3. IsFiniteSet(NewObservations(k))
  BY <1>1, <1>2, FS_Surjection
<1>4. QED
  BY <1>3, IngestAssumption DEF NewObservations, Listed

LEMMA TablesInit == Init => TablesInv
  BY AlertInit, FS_EmptySet DEF Init, TablesInv, Stored

LEMMA TablesStep == TablesInv /\ [NextWithOperator]_vars => TablesInv'
<1> SUFFICES ASSUME TablesInv, [NextWithOperator]_vars
             PROVE  TablesInv'
  OBVIOUS
<1>1. AlertInv' /\ TypeOK /\ DraftsOfHandlers /\ ObservationsMatch /\ applied \subseteq Key
  BY AlertStep, TablesParts DEF TablesInv
<1>2. CASE UNCHANGED obs
  BY <1>1, <1>2 DEF TablesInv, Stored, Whole
<1>3. ASSUME NEW i \in Invocation, StoreRun(i)
      PROVE  TablesInv'
  <2> DEFINE k == job[i]
  <2>1. k \in Key /\ obs' = obs \cup NewObservations(k)
    BY <1>1, <1>3 DEF StoreRun, TypeOK
  <2>2. /\ IsFiniteSet(obs')
        /\ obs' \subseteq [product : Product, at : Nat, run : Key]
    BY <2>1, NewOnes, FS_Union DEF TablesInv
  <2>3. ASSUME NEW p \in Listed(k)
        PROVE  \E o \in obs' : o.run = k /\ o.product = p
    <3>1. CASE \E o \in obs : o.product = p /\ o.at = FetchedAt[k]
      BY <1>1, <2>1, <3>1, SameTimeSameRun DEF ObservationsMatch
    <3>2. CASE ~\E o \in obs : o.product = p /\ o.at = FetchedAt[k]
      <4>1. [product |-> p, at |-> FetchedAt[k], run |-> k] \in obs'
        BY <2>1, <3>2 DEF NewObservations
      <4>2. QED
        BY <4>1
    <3>3. QED
      BY <3>1, <3>2
  <2>4. ASSUME NEW l \in Key, Stored(l)'
        PROVE  Whole(l)'
    <3>1. Stored(l) \/ l = k
      BY <2>1, <2>4 DEF Stored, NewObservations
    <3>2. QED
      BY <2>1, <2>3, <3>1 DEF TablesInv, Whole
  <2>5. QED
    BY <1>1, <2>2, <2>4 DEF TablesInv
<1>4. ASSUME NEW i \in Invocation, Prune(i)
      PROVE  TablesInv'
  <2>1. obs' = {o \in obs : o.at >= Retention}
    BY <1>4 DEF Prune
  <2>2. IsFiniteSet(obs') /\ obs' \subseteq obs
    BY <2>1, FS_Subset DEF TablesInv
  <2>3. ASSUME NEW l \in Key, Stored(l)'
        PROVE  Whole(l)'
    <3>1. PICK u \in obs : u.run = l /\ u.at >= Retention
      BY <2>1, <2>3 DEF Stored
    <3>2. Whole(l)
      BY <3>1 DEF Stored, TablesInv
    <3>3. \A o \in obs : o.run = l => o.at = u.at
      BY <1>1, <3>1 DEF ObservationsMatch
    <3>4. QED
      BY <2>1, <3>1, <3>2, <3>3 DEF Whole
  <2>4. QED
    BY <1>1, <2>2, <2>3 DEF TablesInv
<1>5. QED
  BY <1>1, <1>2, <1>3, <1>4, IngestCases DEF TableStep, QuietStep, Refresh, Return, Skip

LEMMA TablesInvariant == SpecWithOperator => []TablesInv
  BY TablesInit, TablesStep, PTL DEF SpecWithOperator

(* The history of a product: finitely many observations, each the one its  *)
(* run's payload makes, with the prices the table accepts.                 *)
LEMMA HistoryIs ==
  ASSUME TablesInv, NEW p
  PROVE  /\ IsFiniteSet(History(p))
         /\ \A h \in History(p) : /\ h.run \in applied /\ p \in Listed(h.run) /\ h = Own(p, h.run)
                                  /\ h.at \in Nat /\ h.price \in Nat /\ h.flag \in BOOLEAN
         /\ \A o \in obs : o.product = p => Own(p, o.run) \in History(p)
<1> DEFINE Q == {q \in obs : q.product = p}
           f == [o \in Q |-> Own(p, o.run)]
<1>1. \A o \in Q : o.run \in applied /\ p \in Listed(o.run) /\ o.at = FetchedAt[o.run]
  BY TablesParts DEF ObservationsMatch
<1>2. History(p) = {Own(p, o.run) : o \in Q}
  BY <1>1 DEF History, Own
<1>3. IsFiniteSet(History(p))
  <2>1. IsFiniteSet(Q)
    BY FS_Subset DEF TablesInv
  <2>2. f \in Surjection(Q, History(p))
    BY <1>2 DEF Surjection
  <2>3. QED
    BY <2>1, <2>2, FS_Surjection
<1>4. ASSUME NEW o \in Q
      PROVE  /\ Own(p, o.run).run = o.run
             /\ Own(p, o.run).at \in Nat /\ Own(p, o.run).price \in Nat
             /\ Own(p, o.run).flag \in BOOLEAN
  <2>1. o.run \in Key \ Malformed /\ p \in DOMAIN Payload[o.run]
    BY <1>1, TablesParts DEF Listed
  <2>2. Payload[o.run][p] \in Snapshot /\ FetchedAt[o.run] \in Nat
    BY <2>1, IngestAssumption
  <2>3. QED
    BY <2>2 DEF Own, Snapshot
<1>5. QED
  BY <1>1, <1>2, <1>3, <1>4

(* What the history of p holds from before a time.                         *)
LEMMA PriorIs ==
  ASSUME TablesInv, NEW p, NEW at \in Nat
  PROVE  /\ Prior(History(p), at) \subseteq History(p)
         /\ IsFiniteSet(Prior(History(p), at))
         /\ \A h \in Prior(History(p), at) : h.at \in Nat /\ h.price \in Nat
  BY HistoryIs, FS_Subset DEF Prior

-----------------------------------------------------------------------------
(* Types.                                                                  *)

LEMMA AlertsTyped ==
  ASSUME TablesInv, NEW k \in Key, k \notin Malformed, NEW a \in Alerts(k)
  PROVE  /\ a.product \in Product /\ a.old \in Int /\ a.pct \in Int
         /\ a.kind \in {"new_deal", "price_drop", "retailer_flag", "watch_hit"}
<1>1. PICK p \in Listed(k) :
        a \in ClassifyAlerts(p, Payload[k][p], History(p), FetchedAt[k], watches, Threshold,
                             PeakWindow)
  BY DEF Alerts
<1> DEFINE snap == Payload[k][p]
           prior == Prior(History(p), FetchedAt[k])
           before == LatestOf(prior)
           peak == PeakPrice(prior, FetchedAt[k], PeakWindow)
<1>2. p \in Product /\ snap.price \in Nat /\ snap.list \in Nat \cup {NoPrice}
  BY IngestAssumption DEF Listed, Snapshot
<1>3. FetchedAt[k] \in Nat /\ PeakWindow \in Nat
  BY IngestAssumption
<1>4. CASE prior = {}
  <2>1. a \in NewDeals(p, snap, Threshold)
    BY <1>1, <1>4 DEF ClassifyAlerts
  <2>2. DiscountPct(snap.price, snap.list) \in Int /\ snap.list \in Int
    BY <1>2, PctType DEF NoPrice
  <2>3. QED
    BY <1>2, <2>1, <2>2 DEF NewDeals, Alert
<1>5. CASE prior # {}
  <2> HIDE DEF prior
  <2>1. IsFiniteSet(prior) /\ \A h \in prior : h.at \in Nat /\ h.price \in Nat
    BY <1>3, PriorIs DEF prior
  <2>2. before \in prior
    BY <1>5, <2>1, LatestIsLatest
  <2>3. peak \in Nat
    <3>1. \E o \in prior : peak = o.price
      BY <1>3, <1>5, <2>1, PeakIsHighest
    <3>2. QED
      BY <2>1, <3>1
  <2>4. before.price \in Int /\ peak \in Int
    BY <2>1, <2>2, <2>3
  <2> HIDE DEF before, peak
  <2>5. a \in PriceDrops(p, snap, before, peak, Threshold)
              \cup RetailerFlags(p, snap, before, peak)
              \cup WatchHits(p, snap, before, peak, watches)
    BY <1>1, <1>5 DEF ClassifyAlerts, prior, before, peak
  <2>6. CASE a \in PriceDrops(p, snap, before, peak, Threshold)
    BY <1>2, <2>3, <2>4, <2>6, PctType DEF PriceDrops, Alert
  <2>7. CASE a \in RetailerFlags(p, snap, before, peak)
    <3> DEFINE reference == IF snap.list \in {NoPrice, 0} THEN peak ELSE snap.list
    <3>1. reference \in Nat \cup {NoPrice}
      BY <1>2, <2>3
    <3>2. DiscountPct(snap.price, reference) \in Int
      BY <1>2, <3>1, PctType
    <3>3. QED
      BY <1>2, <2>4, <2>7, <3>2 DEF RetailerFlags, Alert
  <2>8. CASE a \in WatchHits(p, snap, before, peak, watches)
    <3>1. DiscountPct(snap.price, peak) \in Int
      BY <1>2, <2>3, PctType
    <3>2. a.product = p /\ a.old = peak /\ a.kind = "watch_hit"
            /\ a.pct = DiscountPct(snap.price, peak)
      BY <2>8 DEF WatchHits, Alert
    <3>3. QED
      BY <1>2, <2>4, <3>1, <3>2
  <2>9. QED
    BY <2>5, <2>6, <2>7, <2>8
<1>6. QED
  BY <1>4, <1>5

TypeInv ==
  /\ TablesInv
  /\ alertRows \subseteq AlertRow
  /\ watches \subseteq Subscription
  /\ \A p \in Product : summary[p].current \in BOOLEAN

LEMMA IngestTypeInit == Init => TypeInv
<1>1. Init => \A p \in Product : summary[p].current = FALSE
  BY DEF Init, NotSummarized
<1>2. Init => alertRows = {} /\ watches = {}
  BY DEF Init
<1>3. QED
  BY <1>1, <1>2, TablesInit DEF TypeInv

(* A row of the product table carries the times of payloads.               *)
LEMMA CatalogTyped ==
  ASSUME TablesInv
  PROVE  catalog \in [Product -> [shows : Key \cup {NoKey}, first : Nat, last : Nat]]
<1>1. catalog \in [Product -> CatalogPromise!Row] /\ CatalogPromise!Faithful
  BY TablesParts DEF CatalogInv
<1>2. ASSUME NEW p \in Product
      PROVE  catalog[p] \in [shows : Key \cup {NoKey}, first : Nat, last : Nat]
  <2>1. catalog[p] \in CatalogPromise!Row /\ CatalogPromise!Follows(catalog[p], p)
    BY <1>1 DEF CatalogPromise!Faithful
  <2>2. \A k \in CatalogPromise!Listing(p) : FetchedAt[k] \in Nat
    BY TablesParts, IngestAssumption DEF CatalogPromise!Listing
  <2>3. catalog[p].first \in Nat /\ catalog[p].last \in Nat
    BY <2>1, <2>2 DEF CatalogPromise!Follows, CatalogPromise!Unlisted
  <2>4. QED
    BY <2>1, <2>3 DEF CatalogPromise!Row
<1>3. QED
  BY <1>1, <1>2

LEMMA IngestTypeStep == TypeInv /\ [NextWithOperator]_vars => TypeInv'
<1> SUFFICES ASSUME TypeInv, [NextWithOperator]_vars
             PROVE  TypeInv'
  OBVIOUS
<1> USE DEF TypeInv
<1>1. TablesInv' /\ ControlInv
  BY TablesStep, TablesParts
<1>2. watches' \subseteq Subscription
  BY DEF NextWithOperator, Next, Wait, Subscribe, Arrive, Proceed, LoseWork,
     StoreRun, Refresh, Prune, Return, Skip, dataVars, vars
<1>3. alertRows' \subseteq AlertRow
  <2>1. CASE UNCHANGED alertRows
    BY <2>1
  <2>2. ASSUME NEW i \in Invocation, StoreRun(i)
        PROVE  alertRows' \subseteq AlertRow
    <3> DEFINE k == job[i]
    <3>1. k \in Key /\ k \notin Malformed /\ alertRows' = InsertAlerts(k, Alerts(k))
      BY <1>1, <2>2 DEF StoreRun, Publishable, ControlInv, TypeOK
    <3>2. ASSUME NEW a \in Alerts(k)
          PROVE  [run |-> k, product |-> a.product, kind |-> a.kind, old |-> a.old,
                  pct |-> a.pct] \in AlertRow
      BY <3>1, AlertsTyped DEF AlertRow
    <3>3. QED
      BY <3>1, <3>2 DEF InsertAlerts
  <2>3. QED
    BY <1>1, <2>1, <2>2, IngestCases DEF ControlInv, TableStep, QuietStep, Refresh, Prune, Return,
       Skip
<1>4. \A p \in Product : summary'[p].current \in BOOLEAN
  <2>1. CASE UNCHANGED summary
    BY <2>1
  <2>2. ASSUME NEW i \in Invocation, Refresh(i)
        PROVE  \A p \in Product : summary'[p].current \in BOOLEAN
    <3>1. \A k : IsLastRun(k) \in BOOLEAN
      BY DEF IsLastRun
    <3>2. \A p \in Product : SummaryRow(p).current \in BOOLEAN
      BY <3>1 DEF SummaryRow, NotSummarized
    <3>3. QED
      BY <2>2, <3>2 DEF Refresh
  <2>3. QED
    BY <1>1, <2>1, <2>2, IngestCases DEF ControlInv, TableStep, QuietStep, StoreRun, Prune, Return,
       Skip
<1>5. QED
  BY <1>1, <1>2, <1>3, <1>4

(* Every row that is written has the columns' types; that the percentage   *)
(* and the old price of an alert are numbers takes the history it was      *)
(* classified against: finite, of whole payloads, of prices not below 0.   *)
THEOREM IngestTypeCorrect == SpecWithOperator => []IngestTypeOK
<1>1. ASSUME TypeInv
      PROVE  IngestTypeOK
  <2>1. /\ TypeOK /\ applied \subseteq Key /\ DOMAIN drafts = Invocation
        /\ catalog \in [Product -> [shows : Key \cup {NoKey}, first : Nat, last : Nat]]
    BY <1>1, TablesParts, CatalogTyped DEF TypeInv, DraftsOfHandlers
  <2>2. /\ \A r \in results : r.key \in Key
        /\ \A p \in Product : summary[p].cur \in Key \cup {NoKey}
    BY <1>1, <2>1, TablesParts DEF TypeInv, ResultInv
  <2>3. QED
    BY <1>1, <2>1, <2>2 DEF TypeInv, TablesInv, IngestTypeOK
<1>2. QED
  BY <1>1, IngestTypeInit, IngestTypeStep, PTL DEF SpecWithOperator

-----------------------------------------------------------------------------
(* What a refresh makes current.                                           *)

(* The row of a product with a history shows its latest observation.       *)
LEMMA RowShowsLatest ==
  ASSUME TablesInv, NEW p, NEW o \in obs, o.product = p
  PROVE  \E h \in History(p) :
           /\ \A g \in History(p) : g.at <= h.at
           /\ h = LatestOf(History(p))
           /\ SummaryRow(p) = [cur |-> h.run, current |-> IsLastRun(h.run),
                               prices |-> PriceColumns(History(p), BaselineFrom)]
<1>1. IsFiniteSet(History(p)) /\ History(p) # {} /\ \A h \in History(p) : h.at \in Nat
  BY HistoryIs
<1>2. LatestOf(History(p)) \in History(p)
      /\ \A g \in History(p) : g.at <= LatestOf(History(p)).at
  BY <1>1, LatestIsLatest
<1>3. QED
  BY <1>1, <1>2 DEF SummaryRow

LEMMA RefreshShowsNewest ==
  ASSUME TablesInv, NEW k \in Key, NewestStored(k), status[k] = "succeeded"
  PROVE  \A p \in ProductsOf(SourceOf[k]) : SummaryRow(p).current <=> p \in Listed(k)
<1> SUFFICES ASSUME NEW p \in ProductsOf(SourceOf[k])
             PROVE  SummaryRow(p).current <=> p \in Listed(k)
  OBVIOUS
<1>1. /\ applied \subseteq Key /\ ObservationsMatch /\ k \in applied
      /\ \A l \in Key : status[l] = "succeeded" => l \in applied
      /\ \A l \in Key : FetchedAt[l] \in Nat
  BY TablesParts, IngestAssumption DEF ControlInv, NewestStored
<1>2. PICK s \in Key : SourceOf[s] = SourceOf[k] /\ p \in Listed(s)
  BY DEF ProductsOf
(* Every payload that lists p is of the source of k, hence not newer.      *)
<1>3. ASSUME NEW l \in applied, p \in Listed(l), l # k
      PROVE  SourceOf[l] = SourceOf[k] /\ FetchedAt[l] < FetchedAt[k]
  <2>1. SourceOf[l] = SourceOf[s]
    BY <1>1, <1>2, <1>3, DistinctTimes DEF Listed
  <2>2. QED
    BY <1>2, <1>3, <2>1 DEF NewestStored
<1>4. CASE ~\E o \in obs : o.product = p
  <2>1. History(p) = {}
    BY <1>4 DEF History
  <2>2. ~SummaryRow(p).current
    BY <2>1 DEF SummaryRow, NotSummarized
  <2>3. p \notin Listed(k)
    BY <1>4 DEF NewestStored, TablesInv, Whole
  <2>4. QED
    BY <2>2, <2>3
<1>5. ASSUME NEW o \in obs, o.product = p
      PROVE  SummaryRow(p).current <=> p \in Listed(k)
  <2>1. PICK h \in History(p) :
          /\ \A g \in History(p) : g.at <= h.at
          /\ SummaryRow(p) = [cur |-> h.run, current |-> IsLastRun(h.run),
                              prices |-> PriceColumns(History(p), BaselineFrom)]
    BY <1>5, RowShowsLatest
  <2>2. h.run \in applied /\ p \in Listed(h.run) /\ h.at = FetchedAt[h.run]
    BY HistoryIs DEF Own
  <2>3. SummaryRow(p).current = IsLastRun(h.run)
    BY <2>1
  <2>4. CASE p \in Listed(k)
    <3>1. PICK u \in obs : u.run = k /\ u.product = p
      BY <2>4 DEF NewestStored, TablesInv, Whole
    <3>2. Own(p, k) \in History(p)
      BY <3>1, HistoryIs
    <3>3. FetchedAt[k] <= FetchedAt[h.run]
      BY <2>1, <2>2, <3>2 DEF Own
    <3>4. h.run = k
      BY <1>1, <1>3, <2>2, <3>3
    <3>5. IsLastRun(k)
      BY <1>1 DEF IsLastRun, LaterRun, NewestStored
    <3>6. QED
      BY <2>3, <2>4, <3>4, <3>5
  <2>5. CASE p \notin Listed(k)
    <3>1. h.run # k /\ h.run \in Key
      BY <1>1, <2>2, <2>5
    <3>2. SourceOf[h.run] = SourceOf[k] /\ FetchedAt[h.run] < FetchedAt[k]
      BY <1>3, <2>2, <3>1
    <3>3. ~LaterRun(h.run, k)
      BY <1>1, <3>1, <3>2 DEF LaterRun
    <3>4. ~IsLastRun(h.run)
      BY <3>1, <3>2, <3>3 DEF IsLastRun
    <3>5. QED
      BY <2>3, <2>5, <3>4
  <2>6. QED
    BY <2>4, <2>5
<1>6. QED
  BY <1>4, <1>5

(* A refresh makes current exactly what the newest payload of the source   *)
(* lists, whichever run refreshes and in whatever order the payloads were  *)
(* stored: the row of a product shows its latest observation, that one is  *)
(* of the newest payload if the payload lists the product and of an older  *)
(* one otherwise, and no older run is the last of its source.              *)
THEOREM NewestPayloadIsCurrent == SpecWithOperator => CurrentIsNewestPayload
<1>1. ASSUME TablesInv, [NextWithOperator]_vars
      PROVE  [(\E i \in Invocation : Refresh(i)) =>
                \A k \in Key : NewestStored(k) /\ status[k] = "succeeded" =>
                  {p \in ProductsOf(SourceOf[k]) : summary'[p].current} = Listed(k)]_vars
  <2> SUFFICES ASSUME NEW i \in Invocation, Refresh(i),
                      NEW k \in Key, NewestStored(k), status[k] = "succeeded"
               PROVE  {p \in ProductsOf(SourceOf[k]) : summary'[p].current} = Listed(k)
    OBVIOUS
  <2>1. Listed(k) \subseteq ProductsOf(SourceOf[k])
    BY DEF ProductsOf
  <2>2. ProductsOf(SourceOf[k]) \subseteq Product
    BY IngestAssumption DEF ProductsOf, Listed
  <2>3. \A p \in ProductsOf(SourceOf[k]) : summary'[p].current <=> p \in Listed(k)
    BY <1>1, <2>2, RefreshShowsNewest DEF Refresh
  <2>4. QED
    BY <2>1, <2>3
<1>2. QED
  BY <1>1, TablesInvariant, PTL DEF SpecWithOperator, CurrentIsNewestPayload

-----------------------------------------------------------------------------
(* Payloads in order.  A payload with an older one of the same products    *)
(* arrives when that one has succeeded, and the older one's partition      *)
(* stays.                                                                  *)

(* l is history for k: it will be compared with it.                        *)
Precedes(l, k) ==
  Publishable(l) /\ Listed(k) \cap Listed(l) # {} /\ FetchedAt[l] < FetchedAt[k]

InOrder ==
  \A k, l \in Key : Publishable(k) /\ Precedes(l, k) =>
    k \in Punctual /\ FetchedAt[l] >= Retention

(* All the history of k has been stored.                                   *)
Preceded(k) == \A l \in Key : Publishable(k) /\ Precedes(l, k) => l \in applied

(* The history of p when it is complete: what every older payload says.    *)
Past(p, k) ==
  {Own(p, l) : l \in {m \in Key : Publishable(m) /\ p \in Listed(m) /\ FetchedAt[m] < FetchedAt[k]}}

(* The alerts the payload k should yield when the watches are ws: beyond   *)
(* the watches, a function of the payloads.                                *)
Due(k, ws) ==
  UNION {ClassifyAlerts(p, Payload[k][p], Past(p, k), FetchedAt[k], ws, Threshold, PeakWindow) :
           p \in Listed(k)}

Digest(alerts) ==
  {[product |-> a.product, kind |-> a.kind, old |-> a.old, pct |-> a.pct] : a \in alerts}

(* When its past is stored, what the tables hold from before k is exactly  *)
(* that past.                                                              *)
LEMMA PriorIsPast ==
  ASSUME TablesInv, InOrder, NEW k \in Key, Publishable(k), Preceded(k), NEW p \in Listed(k)
  PROVE  Prior(History(p), FetchedAt[k]) = Past(p, k)
<1>1. /\ applied \subseteq Key /\ ObservationsMatch /\ StoreInv
      /\ \A l \in applied : Publishable(l)
  BY TablesParts
<1>2. ASSUME NEW h \in Prior(History(p), FetchedAt[k])
      PROVE  h \in Past(p, k)
  <2>1. /\ h.run \in applied /\ p \in Listed(h.run) /\ h = Own(p, h.run)
        /\ h.at < FetchedAt[k]
    BY HistoryIs DEF Prior
  <2>2. h.at = FetchedAt[h.run]
    BY <2>1 DEF Own
  <2>3. QED
    BY <1>1, <2>1, <2>2 DEF Past
<1>3. ASSUME NEW l \in Key, Publishable(l), p \in Listed(l), FetchedAt[l] < FetchedAt[k]
      PROVE  Own(p, l) \in Prior(History(p), FetchedAt[k])
  <2>1. Precedes(l, k)
    BY <1>3 DEF Precedes
  <2>2. l \in applied /\ FetchedAt[l] >= Retention
    BY <2>1 DEF Preceded, InOrder
  <2>3. PICK o \in obs : o.product = p /\ o.at = FetchedAt[l]
    BY <1>3, <1>1, <2>2, IngestAssumption DEF StoreInv, Observed
  <2>4. o.run = l
    BY <1>1, <1>3, <2>3, SameTimeSameRun DEF ObservationsMatch
  <2>5. Own(p, l) \in History(p)
    BY <2>3, <2>4, HistoryIs
  <2>6. QED
    BY <1>3, <2>5 DEF Prior, Own
<1>4. QED
  BY <1>2, <1>3 DEF Past

(* So the alerts classified then are the ones due.                         *)
LEMMA AlertsAreDue ==
  ASSUME TablesInv, InOrder, NEW k \in Key, Publishable(k), Preceded(k)
  PROVE  Alerts(k) = Due(k, watches)
<1>1. ASSUME NEW p \in Listed(k)
      PROVE  ClassifyAlerts(p, Payload[k][p], History(p), FetchedAt[k], watches, Threshold,
                            PeakWindow)
               = ClassifyAlerts(p, Payload[k][p], Past(p, k), FetchedAt[k], watches, Threshold,
                                PeakWindow)
  <2>1. Prior(History(p), FetchedAt[k]) = Past(p, k)
    BY PriorIsPast
  <2>2. Prior(Past(p, k), FetchedAt[k]) = Past(p, k)
    BY <2>1 DEF Prior
  <2>3. QED
    BY <2>1, <2>2, ClassifyByPrior
<1>2. QED
  BY <1>1 DEF Alerts, Due

(* What a worker holds, or has returned, is due for the watches it read.   *)
OrderInv ==
  /\ TypeInv
  /\ InOrder
  /\ \A i \in Invocation : pc[i] # "idle" => Preceded(job[i])
  /\ \A k \in applied : Preceded(k)
  /\ \A i \in Invocation : pc[i] \in Handled =>
       \E ws \in SUBSET Subscription : drafts[i] = Due(job[i], ws)
  /\ \A r \in results :
       IF r.skipped THEN r.alerts = {}
       ELSE \E ws \in SUBSET Subscription : r.alerts = Due(r.key, ws)

LEMMA OrderParts ==
  ASSUME OrderInv
  PROVE  TablesInv /\ AlertInv /\ ControlInv /\ TypeOK /\ DraftsOfHandlers
  BY TablesParts DEF OrderInv, TypeInv

LEMMA OrderInit == Init /\ InOrder => OrderInv
  BY IngestTypeInit DEF Init, LedgerInit, OrderInv, Handled

(* A job is taken by an idle invocation, and only when its past is stored. *)
LEMMA JobsArePreceded ==
  ASSUME OrderInv, [NextWithOperator]_vars, NEW i \in Invocation, pc'[i] # "idle"
  PROVE  /\ Preceded(job'[i])
         /\ job'[i] = job[i] \/ pc'[i] \notin Handled
<1>1. ControlInv /\ TypeOK
  BY OrderParts
<1>2. CASE job'[i] = job[i] /\ pc[i] # "idle"
  BY <1>2 DEF OrderInv
<1>3. CASE \E j \in Invocation : Arrive(j)
  <2>1. PICK j \in Invocation, k \in Key : Arrived(k) /\ (Deliver(j, k) \/ RerunByHand(j, k))
    BY <1>3 DEF Arrive
  <2>2. /\ job' = [job EXCEPT ![j] = k]
        /\ pc' = [pc EXCEPT ![j] = "queued"] \/ pc' = [pc EXCEPT ![j] = "started"]
    BY <2>1 DEF Deliver, RerunByHand
  <2>3. CASE i # j
    BY <1>1, <1>2, <2>2, <2>3 DEF TypeOK
  <2>4. CASE i = j
    <3>1. job'[i] = k /\ pc'[i] \notin Handled
      BY <1>1, <2>2, <2>4 DEF TypeOK, Handled
    <3>2. ASSUME NEW l \in Key, Publishable(k), Precedes(l, k)
          PROVE  l \in applied
      <4>1. k \in Punctual /\ SourceOf[l] = SourceOf[k] /\ FetchedAt[l] < FetchedAt[k]
        BY <3>2, DistinctTimes DEF OrderInv, InOrder, Precedes, Listed
      <4>2. status[l] = "succeeded"
        BY <2>1, <4>1 DEF Arrived
      <4>3. QED
        BY <1>1, <4>2 DEF ControlInv
    <3>3. QED
      BY <3>1, <3>2 DEF Preceded
  <2>5. QED
    BY <2>3, <2>4
<1>4. CASE ~\E j \in Invocation : Arrive(j)
  <2>1. job'[i] = job[i] /\ pc[i] # "idle"
    <3>1. ASSUME NEW j \in Invocation, Proceed(j) \/ LoseWork(j) \/ TableStep(j)
          PROVE  job' = job /\ pc[i] # "idle"
      BY <1>1, <3>1 DEF Proceed, LoseWork, TableStep, StoreRun, Refresh, Prune, Return, Skip,
         Dispatch, Retry, ClaimRun, RefuseRun, RaiseBeforeClaim, Raise, FailRun, Crash, Kill,
         LoseAttempt, FinishRun, RefreshSummary, PrunePartitions, ReturnResult, SkipRun, eventVars,
         TypeOK, Live, Owning
    <3>2. Wait \/ (\E w \in Subscription : Subscribe(w)) \/ UNCHANGED vars
            \/ (\E k \in Key : ForceFailed(k))
            => UNCHANGED <<job, pc>>
      BY DEF Wait, Tick, Aged, Subscribe, vars, ledgerVars, eventVars, ForceFailed
    <3>3. QED
      BY <1>4, <3>1, <3>2 DEF NextWithOperator, Next, TableStep
  <2>2. QED
    BY <1>2, <2>1
<1>5. QED
  BY <1>3, <1>4

LEMMA OrderStep == OrderInv /\ [NextWithOperator]_vars => OrderInv'
<1> SUFFICES ASSUME OrderInv, [NextWithOperator]_vars
             PROVE  OrderInv'
  OBVIOUS
<1>1. /\ TypeInv' /\ InOrder'
      /\ TablesInv /\ InOrder /\ ControlInv /\ TypeOK /\ DraftsOfHandlers
  BY IngestTypeStep, OrderParts DEF OrderInv, InOrder, Precedes, Publishable, Listed
<1>2. applied \subseteq applied'
  BY <1>1, IngestCases DEF TableStep, QuietStep, StoreRun, Refresh, Prune, Return, Skip
<1>3. ASSUME NEW k, Preceded(k)
      PROVE  Preceded(k)'
  BY <1>2, <1>3 DEF Preceded, Precedes, Publishable, Listed
<1>4. \A i \in Invocation : pc'[i] # "idle" => Preceded(job[i])'
  BY <1>3, JobsArePreceded DEF Preceded, Precedes, Publishable, Listed
<1>5. CASE QuietStep
  <2>1. UNCHANGED <<applied, results>>
    BY <1>5 DEF QuietStep
  <2>2. \A i \in Invocation : pc'[i] \in Handled =>
          \E ws \in SUBSET Subscription : drafts'[i] = Due(job'[i], ws)
    BY <1>5 DEF QuietStep, OrderInv
  <2>3. QED
    BY <1>1, <1>3, <1>4, <2>1, <2>2 DEF OrderInv
<1>6. ASSUME NEW i \in Invocation, StoreRun(i)
      PROVE  OrderInv'
  <2> DEFINE k == job[i]
  <2>1. /\ k \in Key /\ Publishable(k)
        /\ pc[i] = "claimed" /\ pc' = [pc EXCEPT ![i] = "stored"]
        /\ UNCHANGED <<job, results>>
        /\ applied' = applied \cup {k}
        /\ drafts' = [drafts EXCEPT ![i] = Alerts(k)]
    BY <1>1, <1>6 DEF StoreRun, FinishRun, eventVars, TypeOK
  <2>2. Preceded(k)
    BY <2>1 DEF OrderInv
  <2>3. Alerts(k) = Due(k, watches) /\ watches \in SUBSET Subscription
    BY <1>1, <2>1, <2>2, AlertsAreDue DEF OrderInv, TypeInv
  <2>4. \A l \in applied' : Preceded(l)'
    BY <1>3, <2>1, <2>2 DEF OrderInv
  <2>5. \A j \in Invocation : pc'[j] \in Handled =>
          \E ws \in SUBSET Subscription : drafts'[j] = Due(job'[j], ws)
    BY <1>1, <2>1, <2>3 DEF OrderInv, DraftsOfHandlers, TypeOK
  <2>6. QED
    BY <1>1, <1>4, <2>1, <2>4, <2>5 DEF OrderInv
<1>7. ASSUME NEW i \in Invocation, Refresh(i) \/ Prune(i)
      PROVE  OrderInv'
  <2>1. /\ UNCHANGED <<applied, results, job, drafts>>
        /\ \A j \in Invocation : pc'[j] \in Handled => pc[j] \in Handled
    BY <1>1, <1>7 DEF Refresh, RefreshSummary, Prune, PrunePartitions, eventVars, TypeOK, Handled
  <2>2. QED
    BY <1>1, <1>3, <1>4, <2>1 DEF OrderInv
<1>8. ASSUME NEW i \in Invocation, Return(i) \/ Skip(i)
      PROVE  OrderInv'
  <2>1. /\ UNCHANGED <<applied, job>>
        /\ pc' = [pc EXCEPT ![i] = "done"]
        /\ \A j \in Invocation \ {i} : drafts'[j] = drafts[j]
        /\ \/ results' = results \cup {Result(job[i], TRUE, {})}
           \/ results' = results \cup {Result(job[i], FALSE, drafts[i])} /\ pc[i] = "pruned"
    BY <1>1, <1>8 DEF Return, ReturnResult, Skip, SkipRun, eventVars, TypeOK, DraftsOfHandlers
  <2>2. \A j \in Invocation : pc'[j] \in Handled =>
          \E ws \in SUBSET Subscription : drafts'[j] = Due(job'[j], ws)
    BY <1>1, <2>1 DEF OrderInv, Handled, TypeOK
  <2>3. \A r \in results' :
          IF r.skipped THEN r.alerts = {}
          ELSE \E ws \in SUBSET Subscription : r.alerts = Due(r.key, ws)
    BY <2>1 DEF OrderInv, Result, Handled
  <2>4. QED
    BY <1>1, <1>3, <1>4, <2>1, <2>2, <2>3 DEF OrderInv
<1>9. QED
  BY <1>1, <1>5, <1>6, <1>7, <1>8, IngestCases DEF TableStep

LEMMA OrderInvariant == SpecWithOperator /\ InOrder => []OrderInv
  BY OrderInit, OrderStep, PTL DEF SpecWithOperator

-----------------------------------------------------------------------------
(* A retry yields the same alerts.                                         *)

(* The rows of a run are those of its alerts once they are inserted, and   *)
(* inserting the same alerts again adds none.                              *)
LEMMA RowsInserted ==
  ASSUME NEW k, NEW alerts, alertRows' = InsertAlerts(k, alerts),
         RowsOf(k) = Digest(alerts) \/ \A row \in alertRows : row.run # k
  PROVE  /\ RowsOf(k)' = Digest(alerts)
         /\ \A l : l # k => RowsOf(l)' = RowsOf(l)
<1> DEFINE RowOf(a) == [run |-> k, product |-> a.product, kind |-> a.kind, old |-> a.old,
                        pct |-> a.pct]
           New == {b \in alerts : ~\E row \in alertRows : SameAlert(row, k, b)}
<1>1. alertRows' = alertRows \cup {RowOf(a) : a \in New}
  BY DEF InsertAlerts
<1>2. \A a : RowOf(a).run = k
  OBVIOUS
<1>3. ASSUME NEW l, l # k
      PROVE  RowsOf(l)' = RowsOf(l)
  <2>1. {q \in alertRows' : q.run = l} = {q \in alertRows : q.run = l}
    BY <1>1, <1>2, <1>3
  <2>2. QED
    BY <2>1 DEF RowsOf
<1>4. CASE RowsOf(k) = Digest(alerts)
  <2>1. ASSUME NEW a \in alerts
        PROVE  \E row \in alertRows : SameAlert(row, k, a)
    <3>1. [product |-> a.product, kind |-> a.kind, old |-> a.old, pct |-> a.pct] \in RowsOf(k)
      BY <1>4 DEF Digest
    <3>2. PICK row \in alertRows :
            /\ row.run = k
            /\ [product |-> row.product, kind |-> row.kind, old |-> row.old, pct |-> row.pct]
                 = [product |-> a.product, kind |-> a.kind, old |-> a.old, pct |-> a.pct]
      BY <3>1 DEF RowsOf
    <3>3. QED
      BY <3>2 DEF SameAlert
  <2>2. alertRows' = alertRows
    BY <1>1, <2>1
  <2>3. QED
    BY <1>3, <1>4, <2>2 DEF RowsOf
<1>5. CASE \A row \in alertRows : row.run # k
  <2>1. New = alerts
    BY <1>5 DEF SameAlert
  <2>2. {q \in alertRows' : q.run = k} = {RowOf(a) : a \in alerts}
    BY <1>1, <1>2, <1>5, <2>1
  <2> DEFINE Columns(x) == [product |-> x.product, kind |-> x.kind, old |-> x.old, pct |-> x.pct]
             Rows == {q \in alertRows' : q.run = k}
  <2>3. /\ \A a : Columns(RowOf(a)) = Columns(a)
        /\ RowsOf(k)' = {Columns(x) : x \in Rows}
        /\ Digest(alerts) = {Columns(a) : a \in alerts}
    BY DEF RowsOf, Digest
  <2>4. RowsOf(k)' = Digest(alerts)
    <3> HIDE DEF RowOf, Columns, Rows
    <3>1. Rows = {RowOf(a) : a \in alerts}
      BY <2>2 DEF Rows
    <3>2. QED
      BY <2>3, <3>1
  <2>5. QED
    BY <1>3, <2>4
<1>6. QED
  BY <1>4, <1>5

(* The rows of a run that was stored are of the alerts due, when no watch  *)
(* can change them.                                                        *)
ReplayInv ==
  /\ OrderInv
  /\ Subscription = {}
  /\ \A k \in applied : RowsOf(k) = Digest(Due(k, {}))

LEMMA RetryInit == Init /\ InOrder /\ Subscription = {} => ReplayInv
  BY OrderInit DEF Init, ReplayInv

LEMMA RetryStep == ReplayInv /\ [NextWithOperator]_vars => ReplayInv'
<1> SUFFICES ASSUME ReplayInv, [NextWithOperator]_vars
             PROVE  ReplayInv'
  OBVIOUS
<1>1. /\ OrderInv' /\ Subscription' = {} /\ OrderInv
      /\ TablesInv /\ AlertInv /\ TypeOK /\ DraftsOfHandlers
  BY OrderStep, OrderParts DEF ReplayInv
<1>2. CASE UNCHANGED <<alertRows, applied>>
  BY <1>1, <1>2 DEF ReplayInv, RowsOf
<1>3. ASSUME NEW i \in Invocation, StoreRun(i)
      PROVE  ReplayInv'
  <2> DEFINE k == job[i]
  <2>1. /\ k \in Key /\ Publishable(k) /\ pc[i] = "claimed"
        /\ job' = job
        /\ applied' = applied \cup {k}
        /\ alertRows' = InsertAlerts(k, Alerts(k))
    BY <1>1, <1>3 DEF StoreRun, FinishRun, eventVars, TypeOK
  <2>2. Preceded(k) /\ InOrder /\ watches = {}
    BY <1>1, <2>1 DEF ReplayInv, OrderInv, TypeInv
  <2>3. Alerts(k) = Due(k, {})
    BY <1>1, <2>1, <2>2, AlertsAreDue
  <2>4. RowsOf(k) = Digest(Due(k, {})) \/ \A row \in alertRows : row.run # k
    BY <1>1 DEF ReplayInv, AlertInv
  <2>5. RowsOf(k)' = Digest(Due(k, {})) /\ \A l : l # k => RowsOf(l)' = RowsOf(l)
    BY <2>1, <2>3, <2>4, RowsInserted
  <2>6. QED
    BY <1>1, <2>1, <2>5 DEF ReplayInv
<1>4. QED
  BY <1>1, <1>2, <1>3, IngestCases DEF TableStep, QuietStep, Refresh, Prune, Return, Skip

LEMMA ReplayInvariant ==
  SpecWithOperator /\ InOrder /\ Subscription = {} => []ReplayInv
  BY RetryInit, RetryStep, PTL DEF SpecWithOperator

(* When payloads arrive in order and no watch changes meanwhile, every     *)
(* attempt at a payload classifies the same alerts: what a retry returns   *)
(* is what the rows of the run say, and both depend on the payloads alone, *)
(* on no crash, retry or forced re-run, and on none of the rows that the   *)
(* first attempt left.                                                     *)
THEOREM RetriesYieldSameAlerts ==
  SpecWithOperator /\ InOrder /\ Subscription = {} => []RetryYieldsSameAlerts
<1>1. ASSUME ReplayInv
      PROVE  RetryYieldsSameAlerts
  <2>1. ASSUME NEW r \in results, ~r.skipped
        PROVE  Digest(r.alerts) = RowsOf(r.key)
    <3>1. r.alerts = Due(r.key, {})
      BY <1>1, <2>1 DEF ReplayInv, OrderInv
    <3>2. r.key \in applied
      BY <1>1, OrderParts DEF ReplayInv, AlertInv, ResultInv
    <3>3. QED
      BY <1>1, <3>1, <3>2 DEF ReplayInv
  <2>2. QED
    BY <2>1 DEF RetryYieldsSameAlerts, Digest
<1>2. QED
  BY <1>1, ReplayInvariant, PTL

(* With watches, a retry can only yield the same alerts if none changes    *)
(* before it: from the first commit of a payload until its run has         *)
(* succeeded and no worker is at it, nobody confirms or removes a watch.   *)
Handling(k) == \E i \in Invocation : Owns(i, k)

Unsettled(k) == k \in applied /\ (status[k] # "succeeded" \/ Handling(k))

WatchesRest == (\E k \in Key : Unsettled(k)) => watches' = watches

(* What the attempts at k wrote, hold and returned is due for ws.          *)
Agreed(k, ws) ==
  /\ RowsOf(k) = Digest(Due(k, ws))
  /\ \A i \in Invocation : pc[i] \in Handled /\ job[i] = k => drafts[i] = Due(k, ws)
  /\ \A r \in results : r.key = k /\ ~r.skipped => r.alerts = Due(k, ws)

RestInv ==
  /\ OrderInv
  /\ \A k \in applied : \E ws : Agreed(k, ws) /\ (Unsettled(k) => ws = watches)

LEMMA RestInit == Init /\ InOrder => RestInv
  BY OrderInit DEF Init, RestInv

(* A run that has settled stays so: its row is never claimed again.        *)
LEMMA SettledForGood ==
  ASSUME ControlInv, [Next]_vars, NEW k \in applied, Unsettled(k)'
  PROVE  Unsettled(k)
<1> SUFFICES ASSUME k \in Key, status[k] = "succeeded", ~Handling(k)
             PROVE  status'[k] = "succeeded" /\ ~Handling(k)'
  BY DEF Unsettled, ControlInv
<1> USE DEF ControlInv, Handling, Owns, Owning, TypeOK
<1>1. ASSUME NEW i \in Invocation, Arrive(i) \/ Proceed(i)
      PROVE  status'[k] = "succeeded" /\ ~Handling(k)'
  BY <1>1 DEF Arrive, Proceed, Deliver, RerunByHand, Dispatch, Retry, ClaimRun, Claimable,
     runVars, eventVars
<1>2. ASSUME NEW i \in Invocation, LoseWork(i)
      PROVE  status'[k] = "succeeded" /\ ~Handling(k)'
  BY <1>2 DEF LoseWork, RefuseRun, RaiseBeforeClaim, Raise, FailRun, Crash, Kill, LoseAttempt,
     runVars, eventVars
<1>3. ASSUME NEW i \in Invocation, TableStep(i)
      PROVE  status'[k] = "succeeded" /\ ~Handling(k)'
  BY <1>3 DEF TableStep, StoreRun, Refresh, Prune, Return, Skip, FinishRun, RefreshSummary,
     PrunePartitions, ReturnResult, SkipRun, runVars, eventVars
<1>4. CASE Wait \/ (\E w \in Subscription : Subscribe(w)) \/ UNCHANGED vars
  BY <1>4 DEF Wait, Tick, Aged, Subscribe, vars, ledgerVars, runVars, eventVars
<1>5. QED
  BY <1>1, <1>2, <1>3, <1>4 DEF Next, TableStep

(* A step that stores nothing.                                             *)
LEMMA AgreedUnlessStored ==
  ASSUME RestInv, OrderInv', [Next]_vars, NEW k \in applied, NEW ws, Agreed(k, ws),
         \A i \in Invocation : ~StoreRun(i)
  PROVE  Agreed(k, ws)'
<1> USE DEF Agreed
<1>1. TypeOK /\ DraftsOfHandlers /\ ControlInv
  BY OrderParts DEF RestInv
<1>2. RowsOf(k)' = RowsOf(k) /\ Digest(Due(k, ws))' = Digest(Due(k, ws))
  BY <1>1, IngestCases DEF TableStep, QuietStep, Refresh, Prune, Return, Skip, RowsOf,
     NextWithOperator
<1>3. CASE QuietStep
  BY <1>2, <1>3 DEF QuietStep
<1>4. ASSUME NEW i \in Invocation, Refresh(i) \/ Prune(i)
      PROVE  Agreed(k, ws)'
  <2>1. /\ UNCHANGED <<results, job, drafts>>
        /\ \A j \in Invocation : pc'[j] \in Handled => pc[j] \in Handled
    BY <1>1, <1>4 DEF Refresh, RefreshSummary, Prune, PrunePartitions, eventVars, TypeOK, Handled
  <2>2. QED
    BY <1>2, <2>1
<1>5. ASSUME NEW i \in Invocation, Return(i) \/ Skip(i)
      PROVE  Agreed(k, ws)'
  <2>1. /\ UNCHANGED job
        /\ pc' = [pc EXCEPT ![i] = "done"]
        /\ \A j \in Invocation \ {i} : drafts'[j] = drafts[j]
        /\ \/ results' = results \cup {Result(job[i], TRUE, {})}
           \/ results' = results \cup {Result(job[i], FALSE, drafts[i])} /\ pc[i] = "pruned"
    BY <1>1, <1>5 DEF Return, ReturnResult, Skip, SkipRun, eventVars, TypeOK, DraftsOfHandlers
  <2>2. \A j \in Invocation : pc'[j] \in Handled /\ job'[j] = k => drafts'[j] = Due(k, ws)
    BY <1>1, <2>1 DEF Handled, TypeOK
  <2>3. \A r \in results' : r.key = k /\ ~r.skipped => r.alerts = Due(k, ws)
    BY <2>1 DEF Result, Handled
  <2>4. QED
    BY <1>2, <2>2, <2>3
<1>6. QED
  BY <1>1, <1>3, <1>4, <1>5, IngestCases DEF TableStep, NextWithOperator

LEMMA RestStep == RestInv /\ [Next]_vars /\ [WatchesRest]_vars => RestInv'
<1> SUFFICES ASSUME RestInv, [Next]_vars, [WatchesRest]_vars
             PROVE  RestInv'
  OBVIOUS
<1>1. /\ OrderInv' /\ OrderInv
      /\ TablesInv /\ AlertInv /\ ControlInv /\ TypeOK /\ DraftsOfHandlers
  BY OrderStep, OrderParts DEF RestInv, NextWithOperator
<1>2. ASSUME \A i \in Invocation : ~StoreRun(i)
      PROVE  RestInv'
  <2>1. applied' = applied
    BY <1>1, <1>2, IngestCases DEF TableStep, QuietStep, Refresh, Prune, Return, Skip,
       NextWithOperator
  <2>2. ASSUME NEW k \in applied
        PROVE  \E ws : Agreed(k, ws)' /\ (Unsettled(k)' => ws = watches')
    <3>1. PICK ws : Agreed(k, ws) /\ (Unsettled(k) => ws = watches)
      BY DEF RestInv
    <3>2. Unsettled(k)' => ws = watches'
      BY <1>1, <3>1, SettledForGood DEF WatchesRest, ControlInv, vars, dataVars
    <3>3. QED
      BY <1>1, <1>2, <3>1, <3>2, AgreedUnlessStored
  <2>3. QED
    BY <1>1, <2>1, <2>2 DEF RestInv
<1>3. ASSUME NEW i \in Invocation, StoreRun(i)
      PROVE  RestInv'
  <2> DEFINE k == job[i]
  <2>1. /\ k \in Key /\ Publishable(k) /\ pc[i] = "claimed" /\ pc' = [pc EXCEPT ![i] = "stored"]
        /\ UNCHANGED <<job, results, watches>>
        /\ status' = [status EXCEPT ![k] = "succeeded"]
        /\ applied' = applied \cup {k}
        /\ drafts' = [drafts EXCEPT ![i] = Alerts(k)]
        /\ alertRows' = InsertAlerts(k, Alerts(k))
    BY <1>1, <1>3 DEF StoreRun, FinishRun, eventVars, TypeOK
  <2>2. Alerts(k) = Due(k, watches)
    BY <1>1, <2>1, AlertsAreDue DEF OrderInv
  <2>3. k \in applied => Agreed(k, watches)
    BY <2>1 DEF RestInv, Unsettled, Handling, Owns, Owning
  <2>4. k \notin applied =>
          /\ \A row \in alertRows : row.run # k
          /\ \A j \in Invocation : pc[j] \in Handled => job[j] # k
          /\ \A r \in results : ~r.skipped => r.key # k
    BY <1>1 DEF AlertInv, ControlInv, ResultInv
  <2>5. RowsOf(k)' = Digest(Due(k, watches)) /\ \A l : l # k => RowsOf(l)' = RowsOf(l)
    BY <2>1, <2>2, <2>3, <2>4, RowsInserted DEF Agreed
  <2>6. Agreed(k, watches)'
    <3>1. ASSUME NEW j \in Invocation, pc'[j] \in Handled, job'[j] = k
          PROVE  drafts'[j] = Due(k, watches)
      BY <1>1, <2>1, <2>2, <2>3, <2>4, <3>1 DEF Agreed, TypeOK, DraftsOfHandlers
    <3>2. \A r \in results : r.key = k /\ ~r.skipped => r.alerts = Due(k, watches)
      BY <2>3, <2>4 DEF Agreed
    <3>3. QED
      BY <2>1, <2>5, <3>1, <3>2 DEF Agreed
  <2>7. ASSUME NEW l \in applied, l # k
        PROVE  \E ws : Agreed(l, ws)' /\ (Unsettled(l)' => ws = watches')
    <3>1. PICK ws : Agreed(l, ws) /\ (Unsettled(l) => ws = watches)
      BY DEF RestInv
    <3>2. Agreed(l, ws)'
      BY <1>1, <2>1, <2>5, <2>7, <3>1 DEF Agreed, TypeOK, DraftsOfHandlers
    <3>3. Unsettled(l)' => Unsettled(l)
      BY <1>1, SettledForGood
    <3>4. QED
      BY <2>1, <3>1, <3>2, <3>3
  <2>8. QED
    BY <1>1, <2>1, <2>6, <2>7 DEF RestInv
<1>4. QED
  BY <1>2, <1>3

LEMMA RestInvariant == Spec /\ InOrder /\ [][WatchesRest]_vars => []RestInv
  BY RestInit, RestStep, PTL DEF Spec

(* The same with subscribers, who may confirm and remove watches at any    *)
(* time but between the attempts at a payload.                             *)
THEOREM RetriesSeeTheSameWatches ==
  Spec /\ InOrder /\ [][WatchesRest]_vars => []RetryYieldsSameAlerts
<1>1. ASSUME RestInv
      PROVE  RetryYieldsSameAlerts
  <2>1. ASSUME NEW r \in results, ~r.skipped
        PROVE  Digest(r.alerts) = RowsOf(r.key)
    <3>1. r.key \in applied
      BY <1>1, <2>1, OrderParts DEF RestInv, AlertInv, ResultInv
    <3>2. PICK ws : Agreed(r.key, ws)
      BY <1>1, <3>1 DEF RestInv
    <3>3. QED
      BY <2>1, <3>2 DEF Agreed
  <2>2. QED
    BY <2>1 DEF RetryYieldsSameAlerts, Digest
<1>2. QED
  BY <1>1, RestInvariant, PTL

-----------------------------------------------------------------------------
(* The site and the digest.                                                *)

(* The summary counts its 90 days from now, the digest from the payload's  *)
(* time, which is not later.                                               *)
FetchedBeforeNow == \A k \in Key : FetchedAt[k] <= BaselineFrom + PeakWindow

SiteColumns(p, k) == PriceColumns(Past(p, k) \cup {Own(p, k)}, BaselineFrom)

SiteInv ==
  /\ OrderInv
  /\ FetchedBeforeNow
  /\ \A p \in Product : summary[p].cur # NoKey =>
       /\ summary[p].cur \in applied
       /\ p \in Listed(summary[p].cur)
       /\ summary[p].prices = SiteColumns(p, summary[p].cur)

(* The past of a payload that was stored, and the payload's place in it.   *)
LEMMA PastIs ==
  ASSUME OrderInv, NEW k \in applied, NEW p \in Listed(k)
  PROVE  /\ Prior(History(p), FetchedAt[k]) = Past(p, k)
         /\ IsFiniteSet(Past(p, k))
         /\ \A o \in Past(p, k) : o.at \in Nat /\ o.price \in Nat /\ o.at < FetchedAt[k]
         /\ Own(p, k).at = FetchedAt[k] /\ FetchedAt[k] \in Nat
         /\ Own(p, k).price = Payload[k][p].price /\ Own(p, k).list = Payload[k][p].list
         /\ Payload[k][p] \in Snapshot
<1>1. TablesInv /\ InOrder /\ k \in Key /\ Publishable(k) /\ k \notin Malformed /\ Preceded(k)
  BY OrderParts, TablesParts DEF OrderInv
<1>2. FetchedAt[k] \in Nat /\ Payload[k][p] \in Snapshot
  BY <1>1, IngestAssumption DEF Listed
<1>3. Prior(History(p), FetchedAt[k]) = Past(p, k)
  BY <1>1, PriorIsPast
<1>4. IsFiniteSet(Past(p, k)) /\ \A o \in Past(p, k) : o.at \in Nat /\ o.price \in Nat
  BY <1>1, <1>2, <1>3, PriorIs
<1>5. \A o \in Past(p, k) : o.at < FetchedAt[k]
  BY <1>3 DEF Prior
<1>6. QED
  BY <1>2, <1>3, <1>4, <1>5 DEF Own

(* A refresh shows a product's latest payload after that payload's past.   *)
LEMMA RefreshShowsSite ==
  ASSUME OrderInv, NEW p \in Product, SummaryRow(p).cur # NoKey
  PROVE  /\ SummaryRow(p).cur \in applied
         /\ p \in Listed(SummaryRow(p).cur)
         /\ SummaryRow(p).prices = SiteColumns(p, SummaryRow(p).cur)
<1>1. TablesInv /\ applied \subseteq Key /\ \A l \in Key : FetchedAt[l] \in Nat
  BY OrderParts, TablesParts, IngestAssumption
<1>2. PICK o \in obs : o.product = p
  BY SummaryShowsNothing
<1>3. PICK h \in History(p) :
        /\ \A g \in History(p) : g.at <= h.at
        /\ SummaryRow(p) = [cur |-> h.run, current |-> IsLastRun(h.run),
                            prices |-> PriceColumns(History(p), BaselineFrom)]
  BY <1>1, <1>2, RowShowsLatest
<1> DEFINE k == h.run
<1>4. k \in applied /\ k \in Key /\ p \in Listed(k) /\ h = Own(p, k) /\ h.at = FetchedAt[k]
  BY <1>1, HistoryIs DEF Own
<1>5. Prior(History(p), FetchedAt[k]) = Past(p, k)
  BY <1>4, PastIs
<1>6. ASSUME NEW g \in History(p)
      PROVE  g \in Past(p, k) \cup {Own(p, k)}
  <2>1. /\ g.run \in Key /\ p \in Listed(g.run) /\ g = Own(p, g.run) /\ g.at = FetchedAt[g.run]
        /\ g.at \in Nat /\ g.at <= FetchedAt[k]
    BY <1>1, <1>3, <1>4, HistoryIs DEF Own
  <2>2. CASE g.at < FetchedAt[k]
    BY <1>5, <2>2 DEF Prior
  <2>3. CASE g.at = FetchedAt[k]
    BY <1>4, <2>1, <2>3, SameTimeSameRun
  <2>4. QED
    BY <1>1, <1>4, <2>1, <2>2, <2>3
<1>7. History(p) = Past(p, k) \cup {Own(p, k)}
  BY <1>4, <1>5, <1>6 DEF Prior
<1>8. QED
  BY <1>3, <1>4, <1>7 DEF SiteColumns

LEMMA SiteInit == Init /\ InOrder /\ FetchedBeforeNow => SiteInv
<1>1. Init => \A p \in Product : summary[p].cur = NoKey
  BY DEF Init, NotSummarized
<1>2. QED
  BY <1>1, OrderInit DEF SiteInv

LEMMA SiteStep == SiteInv /\ [NextWithOperator]_vars => SiteInv'
<1> SUFFICES ASSUME SiteInv, [NextWithOperator]_vars
             PROVE  SiteInv'
  OBVIOUS
<1>1. OrderInv' /\ OrderInv /\ ControlInv /\ FetchedBeforeNow'
  BY OrderStep, OrderParts DEF SiteInv, FetchedBeforeNow
<1>2. applied \subseteq applied'
  BY <1>1, IngestCases DEF ControlInv, TableStep, QuietStep, StoreRun, Refresh, Prune, Return, Skip
<1>3. CASE UNCHANGED summary
  BY <1>1, <1>2, <1>3 DEF SiteInv
<1>4. ASSUME NEW i \in Invocation, Refresh(i)
      PROVE  SiteInv'
  <2>1. \A p \in Product : summary'[p] = SummaryRow(p)
    BY <1>4 DEF Refresh
  <2>2. QED
    BY <1>1, <1>2, <2>1, RefreshShowsSite DEF SiteInv
<1>5. QED
  BY <1>1, <1>3, <1>4, IngestCases DEF ControlInv, TableStep, QuietStep, StoreRun, Prune, Return,
     Skip

LEMMA SiteInvariant ==
  SpecWithOperator /\ InOrder /\ FetchedBeforeNow => []SiteInv
  BY SiteInit, SiteStep, PTL DEF SpecWithOperator

(* The highest of finitely many prices is one of them.                     *)
LEMMA HighestIs ==
  ASSUME NEW S, IsFiniteSet(S), S # {}, \A o \in S : o.price \in Nat
  PROVE  \E o \in S : Highest(Prices(S)) = o.price
<1> DEFINE f == [o \in S |-> o.price]
<1>1. PICK m \in S : \A q \in S : f[q] <= f[m]
  BY Greatest
<1>2. m.price \in Prices(S) /\ \A v \in Prices(S) : v <= m.price
  BY <1>1 DEF Prices
<1>3. Highest(Prices(S)) \in Prices(S)
  BY <1>2 DEF Highest
<1>4. QED
  BY <1>3 DEF Prices

(* The columns of a product whose latest payload is k.                     *)
LEMMA ColumnsOf ==
  ASSUME OrderInv, NEW k \in applied, NEW p \in Listed(k)
  PROVE  LET site == SiteColumns(p, k)
             recent == {o \in Past(p, k) : o.at >= BaselineFrom}
             snap == Payload[k][p]
         IN  /\ site.price = snap.price
             /\ site.previous = IF Past(p, k) = {} THEN NoPrice ELSE LatestOf(Past(p, k)).price
             /\ site.highest = Highest(Prices(recent))
             /\ snap.list # NoPrice => site.discount = DiscountPct(snap.price, snap.list)
<1> DEFINE all == Past(p, k) \cup {Own(p, k)}
<1>1. /\ \A o \in Past(p, k) : o.at \in Nat /\ o.at < FetchedAt[k]
      /\ Own(p, k).at = FetchedAt[k] /\ FetchedAt[k] \in Nat
      /\ Own(p, k).price = Payload[k][p].price /\ Own(p, k).list = Payload[k][p].list
  BY PastIs
<1>2. LatestOf(all) = Own(p, k)
  BY <1>1 DEF LatestOf
<1>3. Earlier(all, Own(p, k)) = Past(p, k)
  BY <1>1 DEF Earlier
<1>4. QED
  BY <1>1, <1>2, <1>3 DEF SiteColumns, PriceColumns, Baseline, PreviousPrice, ReferencePrice

(* A new deal is one on the site, with its percentage.                     *)
LEMMA DealsAgree ==
  ASSUME OrderInv, NEW k \in applied, NEW p \in Listed(k), Past(p, k) = {},
         NEW a \in NewDeals(p, Payload[k][p], Threshold)
  PROVE  /\ SiteColumns(p, k).discount = a.pct /\ SiteColumns(p, k).previous = NoPrice
         /\ a.kind = "new_deal" /\ a.product = p
  BY ColumnsOf DEF NewDeals, Alert

(* A drop is one on the site, from no more than the price announced.       *)
LEMMA DropsAgree ==
  ASSUME OrderInv, FetchedBeforeNow, NEW k \in applied, NEW p \in Listed(k), Past(p, k) # {},
         Dropped(Payload[k][p], LatestOf(Past(p, k)))
  PROVE  /\ SiteColumns(p, k).price < SiteColumns(p, k).previous
         /\ SiteColumns(p, k).highest <= PeakPrice(Past(p, k), FetchedAt[k], PeakWindow)
<1> DEFINE past == Past(p, k)
           recent == {o \in past : o.at >= BaselineFrom}
           peak == PeakPrice(past, FetchedAt[k], PeakWindow)
<1>1. /\ SiteColumns(p, k).price = Payload[k][p].price
      /\ SiteColumns(p, k).previous = LatestOf(past).price
      /\ SiteColumns(p, k).highest = Highest(Prices(recent))
  BY ColumnsOf
<1>2. /\ IsFiniteSet(past) /\ \A o \in past : o.at \in Nat /\ o.price \in Nat
      /\ FetchedAt[k] \in Nat
  BY PastIs
<1>3. /\ \E o \in past : peak = o.price
      /\ \A o \in past : o.at >= FetchedAt[k] - PeakWindow => o.price <= peak
  <2> HIDE DEF past
  <2>1. QED
    BY <1>2, IngestAssumption, PeakIsHighest DEF past
<1>4. FetchedAt[k] - PeakWindow <= BaselineFrom
  BY <1>2, IngestAssumption, OrderParts, TablesParts DEF FetchedBeforeNow
<1>5. \A o \in recent : o.price <= peak
  BY <1>2, <1>3, <1>4, IngestAssumption
<1>6. CASE recent = {}
  <2>1. Highest(Prices(recent)) = NoPrice
    BY <1>6 DEF Highest, Prices
  <2>2. QED
    BY <1>1, <1>2, <1>3, <2>1 DEF Dropped, NoPrice
<1>7. CASE recent # {}
  <2>1. IsFiniteSet(recent)
    BY <1>2, FS_Subset
  <2>2. \E o \in recent : Highest(Prices(recent)) = o.price
    <3> HIDE DEF recent
    <3>1. QED
      BY <1>2, <1>7, <2>1, HighestIs DEF recent
  <2>3. QED
    BY <1>1, <1>5, <2>2 DEF Dropped
<1>8. QED
  BY <1>6, <1>7

(* What the digest of a payload says of a product, the site says of it as  *)
(* long as its row comes from that payload.                                *)
LEMMA DueAgrees ==
  ASSUME OrderInv, FetchedBeforeNow, NEW k \in applied, NEW ws, NEW a \in Due(k, ws)
  PROVE  LET site == SiteColumns(a.product, k) IN
         /\ a.kind = "new_deal" => site.discount = a.pct /\ site.previous = NoPrice
         /\ a.kind \in {"price_drop", "watch_hit"} =>
              site.price < site.previous /\ site.highest <= a.old
<1>1. PICK p \in Listed(k) :
        a \in ClassifyAlerts(p, Payload[k][p], Past(p, k), FetchedAt[k], ws, Threshold, PeakWindow)
  BY DEF Due
<1> DEFINE snap == Payload[k][p]
           before == LatestOf(Past(p, k))
           peak == PeakPrice(Past(p, k), FetchedAt[k], PeakWindow)
<1>2. Prior(Past(p, k), FetchedAt[k]) = Past(p, k)
  BY PastIs DEF Prior
<1>3. CASE Past(p, k) = {}
  <2>1. a \in NewDeals(p, snap, Threshold)
    BY <1>1, <1>2, <1>3 DEF ClassifyAlerts
  <2>2. QED
    BY <1>3, <2>1, DealsAgree
<1>4. CASE Past(p, k) # {}
  <2>1. a \in PriceDrops(p, snap, before, peak, Threshold)
              \cup RetailerFlags(p, snap, before, peak)
              \cup WatchHits(p, snap, before, peak, ws)
    BY <1>1, <1>2, <1>4 DEF ClassifyAlerts
  <2>2. CASE a \in PriceDrops(p, snap, before, peak, Threshold)
    <3>1. a.kind = "price_drop" /\ a.product = p /\ a.old = peak /\ Dropped(snap, before)
      BY <2>2 DEF PriceDrops, Alert
    <3>2. QED
      BY <1>4, <3>1, DropsAgree
  <2>3. CASE a \in RetailerFlags(p, snap, before, peak)
    <3>1. a.kind = "retailer_flag"
      BY <2>3 DEF RetailerFlags, Alert
    <3>2. QED
      BY <3>1
  <2>4. CASE a \in WatchHits(p, snap, before, peak, ws)
    <3>1. a.kind = "watch_hit" /\ a.product = p /\ a.old = peak /\ Dropped(snap, before)
      BY <2>4 DEF WatchHits, Alert
    <3>2. QED
      BY <1>4, <3>1, DropsAgree
  <2>5. QED
    BY <2>1, <2>2, <2>3, <2>4
<1>5. QED
  BY <1>3, <1>4

(* The digest and the site agree, though Python and SQL compute them from  *)
(* windows of their own, in different transactions and perhaps attempts,   *)
(* when payloads arrive in order: both see the payload and its whole past. *)
THEOREM DigestAgreesWithSite ==
  SpecWithOperator /\ InOrder /\ FetchedBeforeNow => []SiteAgreesWithDigest
<1>1. ASSUME SiteInv
      PROVE  SiteAgreesWithDigest
  <2> SUFFICES ASSUME NEW r \in results, NEW a \in r.alerts, summary[a.product].cur = r.key
               PROVE  LET site == summary[a.product] IN
                      /\ a.kind = "new_deal" =>
                           site.prices.discount = a.pct /\ site.prices.previous = NoPrice
                      /\ a.kind \in {"price_drop", "watch_hit"} =>
                           site.prices.price < site.prices.previous /\ site.prices.highest <= a.old
    BY DEF SiteAgreesWithDigest
  <2>1. OrderInv /\ r.key \in applied /\ applied \subseteq Key
    BY <1>1, OrderParts, TablesParts DEF SiteInv, ResultInv
  <2> PICK ws \in SUBSET Subscription : a \in Due(r.key, ws)
    BY <2>1 DEF OrderInv
  <2>2. a.product \in Product
    <3>1. PICK p \in Listed(r.key) :
            a \in ClassifyAlerts(p, Payload[r.key][p], Past(p, r.key), FetchedAt[r.key], ws,
                                 Threshold, PeakWindow)
      BY <2>1 DEF Due
    <3>2. a.product = p
      BY <3>1 DEF ClassifyAlerts, NewDeals, PriceDrops, RetailerFlags, WatchHits, Alert
    <3>3. QED
      BY <2>1, <3>2, IngestAssumption DEF Listed
  <2>3. summary[a.product].prices = SiteColumns(a.product, r.key)
    BY <1>1, <2>1, <2>2, IngestAssumption DEF SiteInv
  <2>4. QED
    BY <1>1, <2>1, <2>3, DueAgrees DEF SiteInv
<1>2. QED
  BY <1>1, SiteInvariant, PTL
=============================================================================
