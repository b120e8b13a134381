---------------------------- MODULE IngestProofs ----------------------------
(***************************************************************************)
(* The theorems of module Ingest: it implements the ledger, so that the    *)
(* theorems of RunLedgerProofs hold of it, and the product table Catalog   *)
(* describes; and what its tables, alerts and results say of each other.   *)
(***************************************************************************)
EXTENDS Ingest, RunLedgerProofs, FiniteSetTheorems

(* Every step of Ingest, the operator's aside, is a step of the ledger.    *)
LEMMA LedgerStep == [Next]_vars => [LedgerNext]_ledgerVars
<1>1. ASSUME NEW i \in Invocation, Proceed(i) \/ LoseWork(i)
      PROVE  LedgerNext
  BY <1>1 DEF Proceed, LoseWork, LedgerNext, Worker, Lambda
<1>2. ASSUME NEW i \in Invocation, Arrive(i)
      PROVE  LedgerNext
  BY <1>2 DEF Arrive, LedgerNext
<1>3. ASSUME NEW i \in Invocation, StoreRun(i) \/ Refresh(i) \/ Prune(i) \/ Return(i) \/ Skip(i)
      PROVE  LedgerNext
  BY <1>3 DEF StoreRun, Refresh, Prune, Return, Skip, LedgerNext, Worker
<1>4. Wait => LedgerNext
  BY DEF Wait, LedgerNext
<1>5. (\E w \in Subscription : Subscribe(w)) \/ UNCHANGED vars => UNCHANGED ledgerVars
  BY DEF Subscribe, vars
<1>6. QED
  BY <1>1, <1>2, <1>3, <1>4, <1>5 DEF Next

(* run_process claims, stores, settles and fails exactly as the ledger     *)
(* does: what the transactions write besides adds no interleaving and      *)
(* removes none of its guards.                                             *)
THEOREM ImplementsLedger == Spec => LedgerSpec
<1>1. Init => LedgerInit
  BY DEF Init
<1>2. QED
  BY <1>1, LedgerStep, PTL DEF Spec, LedgerSpec

(* Two workers never store, refresh or prune for one key at once.          *)
THEOREM IngestOneOwner == Spec => []OneLiveOwner
  BY ImplementsLedger, OneOwner, PTL

(* No run an event began is left unfinished without an alarm.              *)
THEOREM IngestAbandonsNothing == Spec => []NoSilentlyAbandonedRun
  BY ImplementsLedger, NothingAbandonedInSilence, PTL

-----------------------------------------------------------------------------
(* The steps that write no table.                                          *)

(* A worker between its second transaction and its return.                 *)
Handled == {"stored", "refreshed", "pruned"}

DraftsOfHandlers ==
  /\ DOMAIN drafts = Invocation
  /\ \A i \in Invocation : drafts[i] # {} => pc[i] \in Handled

QuietStep ==
  /\ UNCHANGED <<obs, catalog, alertRows, summary, results, applied>>
  /\ DOMAIN drafts' = Invocation
  /\ \A k \in Key : status'[k] = "succeeded" => status[k] = "succeeded"
  /\ \A i \in Invocation :
       \/ pc'[i] = pc[i] /\ job'[i] = job[i] /\ drafts'[i] = drafts[i]
       \/ pc'[i] \notin Handled /\ drafts'[i] = {}

TableStep(i) == StoreRun(i) \/ Refresh(i) \/ Prune(i) \/ Return(i) \/ Skip(i)

LEMMA QuietArrivals ==
  ASSUME TypeOK, DraftsOfHandlers, NEW i \in Invocation, Arrive(i) \/ Proceed(i)
  PROVE  QuietStep
<1> USE DEF TypeOK, DraftsOfHandlers, QuietStep, Handled, dataVars, runVars, eventVars
<1>1. CASE Arrive(i)
  BY <1>1 DEF Arrive, Deliver, RerunByHand
<1>2. CASE Proceed(i)
  BY <1>2 DEF Proceed, Dispatch, Retry, ClaimRun
<1>3. QED
  BY <1>1, <1>2

LEMMA QuietLosses ==
  ASSUME TypeOK, DraftsOfHandlers, NEW i \in Invocation, LoseWork(i)
  PROVE  QuietStep
<1> USE DEF TypeOK, DraftsOfHandlers, QuietStep, Handled, runVars, eventVars
<1>1. /\ UNCHANGED <<obs, catalog, alertRows, summary, results, applied, job>>
      /\ drafts' = [drafts EXCEPT ![i] = {}]
  BY DEF LoseWork, RefuseRun, RaiseBeforeClaim, Raise, FailRun, Crash, Kill
<1>2. /\ \A k \in Key : status'[k] = "succeeded" => status[k] = "succeeded"
      /\ \E step \in {"backoff", "dropped", "failing"} : pc' = [pc EXCEPT ![i] = step]
  BY DEF LoseWork, LoseAttempt, RefuseRun, RaiseBeforeClaim, Raise, FailRun, Crash, Kill
<1>3. QED
  BY <1>1, <1>2

LEMMA QuietOthers ==
  ASSUME TypeOK, DraftsOfHandlers,
         \/ Wait
         \/ UNCHANGED vars
         \/ \E w \in Subscription : Subscribe(w)
         \/ \E k \in Key : ForceFailed(k) /\ UNCHANGED dataVars
  PROVE  QuietStep
<1> USE DEF TypeOK, DraftsOfHandlers, QuietStep, dataVars, vars, ledgerVars, runVars, eventVars
<1>1. CASE Wait
  BY <1>1 DEF Wait, Tick, Aged
<1>2. CASE UNCHANGED vars
  BY <1>2
<1>3. CASE \E w \in Subscription : Subscribe(w)
  BY <1>3 DEF Subscribe
<1>4. CASE \E k \in Key : ForceFailed(k) /\ UNCHANGED dataVars
  BY <1>4 DEF ForceFailed
<1>5. QED
  BY <1>1, <1>2, <1>3, <1>4

(* A step changes no table, or is one of the five that do.                 *)
LEMMA IngestCases ==
  ASSUME TypeOK, DraftsOfHandlers, [NextWithOperator]_vars
  PROVE  QuietStep \/ \E i \in Invocation : TableStep(i)
  BY QuietArrivals, QuietLosses, QuietOthers DEF NextWithOperator, Next, TableStep

-----------------------------------------------------------------------------
(* What is in memory and what has been applied.                            *)

ControlInv ==
  /\ TypeOK
  /\ DraftsOfHandlers
  /\ applied \subseteq {k \in Key : Publishable(k)}
  /\ \A k \in Key : status[k] = "succeeded" => k \in applied
  /\ \A i \in Invocation : pc[i] \in Handled => job[i] \in applied

LEMMA ControlInit == Init => ControlInv
<1>1. Init => LedgerInit /\ TypeOK
  BY InitType DEF Init
<1>2. QED
  BY <1>1 DEF Init, LedgerInit, ControlInv, DraftsOfHandlers, Handled

LEMMA OperatorType ==
  ASSUME TypeOK, [NextWithOperator]_vars
  PROVE  TypeOK'
<1>1. ASSUME NEW k \in Key, ForceFailed(k)
      PROVE  TypeOK'
  BY <1>1 DEF TypeOK, ForceFailed, eventVars, Status
<1>2. QED
  BY <1>1, LedgerStep, TypeStep DEF NextWithOperator

LEMMA ControlStep == ControlInv /\ [NextWithOperator]_vars => ControlInv'
<1> SUFFICES ASSUME ControlInv, [NextWithOperator]_vars
             PROVE  ControlInv'
  OBVIOUS
<1> USE DEF ControlInv, DraftsOfHandlers, Handled
<1>1. TypeOK'
  BY OperatorType
<1>2. CASE QuietStep
  BY <1>1, <1>2 DEF QuietStep
<1>3. ASSUME NEW i \in Invocation, StoreRun(i)
      PROVE  ControlInv'
  BY <1>1, <1>3 DEF StoreRun, FinishRun, TypeOK, eventVars
<1>4. ASSUME NEW i \in Invocation, Refresh(i) \/ Prune(i)
      PROVE  ControlInv'
  BY <1>1, <1>4 DEF Refresh, Prune, RefreshSummary, PrunePartitions, TypeOK, eventVars, runVars
<1>5. ASSUME NEW i \in Invocation, Return(i) \/ Skip(i)
      PROVE  ControlInv'
  BY <1>1, <1>5 DEF Return, Skip, ReturnResult, SkipRun, TypeOK, eventVars, runVars
<1>6. QED
  BY <1>2, <1>3, <1>4, <1>5, IngestCases DEF TableStep

LEMMA ControlInvariant == SpecWithOperator => []ControlInv
  BY ControlInit, ControlStep, PTL DEF SpecWithOperator

-----------------------------------------------------------------------------
(* The product table.                                                      *)

CatalogInv ==
  /\ ControlInv
  /\ catalog \in [Product -> CatalogPromise!Row]
  /\ CatalogPromise!Faithful

(* A row that follows the payloads stored so far follows them and one more *)
(* once upsert_products has run, whether or not that one is the newest.    *)
LEMMA UpsertFollows ==
  ASSUME CatalogInv, NEW k \in Key, NEW p \in Product,
         applied' = applied \cup {k}, catalog' = UpsertProducts(k)
  PROVE  CatalogPromise!Follows(catalog[p], p)'
<1> DEFINE row == catalog[p]
           Before == {l \in applied : p \in Listed(l)}
<1> USE IngestAssumption DEF CatalogPromise!Follows, CatalogPromise!Listing,
        CatalogPromise!Older, CatalogPromise!Unlisted, CatalogPromise!Row, Unlisted
<1>1. CatalogPromise!Follows(row, p) /\ row \in CatalogPromise!Row /\ applied \subseteq Key
  BY DEF CatalogInv, CatalogPromise!Faithful, ControlInv
<1>2. CASE p \notin Listed(k)
  BY <1>1, <1>2 DEF UpsertProducts
<1>3. CASE p \in Listed(k)
  <2>1. catalog'[p] = Upserted(row, k)
    BY <1>3 DEF UpsertProducts
  <2>2. CASE Before = {}
    BY <1>1, <1>3, <2>1, <2>2 DEF Upserted
  <2>3. CASE Before # {}
    <3>1. /\ row.shows \in Before
          /\ row.last = FetchedAt[row.shows]
          /\ \A l \in Before : FetchedAt[l] <= row.last /\ row.first <= FetchedAt[l]
          /\ \E l \in Before : row.first = FetchedAt[l]
          /\ row # Unlisted
      <4>1. CatalogPromise!Listing(p) = Before
        BY <1>1
      <4>2. row.shows \in Before /\ row.shows # NoKey
        BY <1>1, <2>3, <4>1
      <4>3. row # Unlisted
        BY <4>2
      <4>4. QED
        BY <1>1, <2>3, <4>1, <4>2, <4>3
    <3>2. catalog'[p] = [shows |-> IF row.last <= FetchedAt[k] THEN k ELSE row.shows,
                         first |-> IF FetchedAt[k] < row.first THEN FetchedAt[k] ELSE row.first,
                         last  |-> IF FetchedAt[k] > row.last THEN FetchedAt[k] ELSE row.last]
      BY <2>1, <3>1 DEF Upserted, SupersedesRow
    <3>3. QED
      BY <1>1, <1>3, <3>1, <3>2
  <2>4. QED
    BY <2>2, <2>3
<1>4. QED
  BY <1>2, <1>3

(* To store a payload again changes no row: it is not newer than what its  *)
(* products show, and no other payload of theirs has its time.             *)
LEMMA UpsertAgain ==
  ASSUME CatalogInv, NEW k \in applied, NEW p \in Product
  PROVE  UpsertProducts(k)[p] = catalog[p]
<1> DEFINE row == catalog[p]
<1> USE IngestAssumption
<1>1. CASE p \notin Listed(k)
  BY <1>1 DEF UpsertProducts
<1>2. CASE p \in Listed(k)
  <2>1. /\ row.shows \in applied /\ p \in Listed(row.shows)
        /\ FetchedAt[k] <= FetchedAt[row.shows] /\ row.first <= FetchedAt[k]
        /\ row.last = FetchedAt[row.shows]
        /\ row \in CatalogPromise!Row /\ applied \subseteq Key
    BY <1>2 DEF CatalogInv, ControlInv, CatalogPromise!Faithful, CatalogPromise!Follows,
       CatalogPromise!Listing, CatalogPromise!Older
  <2>2. row # Unlisted
    BY <2>1 DEF Unlisted
  <2>3. row.last <= FetchedAt[k] => row.shows = k
    BY <1>2, <2>1, DistinctTimes DEF Listed
  <2>4. /\ (IF row.last <= FetchedAt[k] THEN k ELSE row.shows) = row.shows
        /\ (IF FetchedAt[k] < row.first THEN FetchedAt[k] ELSE row.first) = row.first
        /\ (IF FetchedAt[k] > row.last THEN FetchedAt[k] ELSE row.last) = row.last
    BY <2>1, <2>3 DEF CatalogPromise!Row
  <2>5. Upserted(row, k) = [shows |-> row.shows, first |-> row.first, last |-> row.last]
    BY <2>2, <2>4 DEF Upserted, SupersedesRow
  <2>6. QED
    BY <1>2, <2>1, <2>5 DEF UpsertProducts, CatalogPromise!Row
<1>3. QED
  BY <1>1, <1>2

LEMMA CatalogInit == Init => CatalogInv /\ CatalogPromise!Init
<1> SUFFICES ASSUME Init PROVE CatalogInv /\ CatalogPromise!Init
  OBVIOUS
<1>1. catalog = [p \in Product |-> CatalogPromise!Unlisted] /\ applied = {}
  BY DEF Init, Unlisted, CatalogPromise!Unlisted
<1>2. CatalogPromise!Unlisted \in CatalogPromise!Row
  BY DEF CatalogPromise!Unlisted, CatalogPromise!Row
<1>3. CatalogPromise!Faithful
  BY <1>1 DEF CatalogPromise!Faithful, CatalogPromise!Follows, CatalogPromise!Listing
<1>4. QED
  BY <1>1, <1>2, <1>3, ControlInit DEF CatalogInv, CatalogPromise!Init

(* Storing a payload maps to a step of Catalog the first time and to a     *)
(* stutter ever after; every other step leaves the product table alone.    *)
LEMMA CatalogStep ==
  CatalogInv /\ [NextWithOperator]_vars
    => CatalogInv' /\ [CatalogPromise!Next]_<<applied, catalog>>
<1> SUFFICES ASSUME CatalogInv, [NextWithOperator]_vars
             PROVE  CatalogInv' /\ [CatalogPromise!Next]_<<applied, catalog>>
  OBVIOUS
<1>1. ControlInv'
  BY ControlStep DEF CatalogInv
<1>2. CASE UNCHANGED <<applied, catalog>>
  BY <1>1, <1>2 DEF CatalogInv, CatalogPromise!Faithful, CatalogPromise!Follows,
     CatalogPromise!Listing
<1>3. ASSUME NEW i \in Invocation, StoreRun(i)
      PROVE  CatalogInv' /\ [CatalogPromise!Next]_<<applied, catalog>>
  <2> DEFINE k == job[i]
  <2>1. /\ k \in Key
        /\ applied' = applied \cup {k}
        /\ catalog' = UpsertProducts(k)
    BY <1>3 DEF StoreRun, CatalogInv, ControlInv, TypeOK
  <2>2. CatalogPromise!Faithful'
    BY <2>1, UpsertFollows DEF CatalogPromise!Faithful
  <2>3. catalog' \in [Product -> CatalogPromise!Row]
    <3>1. ASSUME NEW p \in Product
          PROVE  Upserted(catalog[p], k) \in CatalogPromise!Row
      BY <2>1, IngestAssumption DEF CatalogInv, Upserted, CatalogPromise!Row
    <3>2. QED
      BY <2>1, <3>1 DEF UpsertProducts, CatalogInv
  <2>4. CASE k \in applied
    <3>1. applied' = applied
      BY <2>1, <2>4
    <3>2. catalog' = catalog
      BY <2>1, <2>4, UpsertAgain DEF CatalogInv, UpsertProducts
    <3>3. QED
      BY <1>2, <3>1, <3>2
  <2>5. CASE k \notin applied
    BY <1>1, <2>1, <2>2, <2>3, <2>5 DEF CatalogInv, CatalogPromise!Next, CatalogPromise!Store
  <2>6. QED
    BY <2>4, <2>5
<1>4. QED
  BY <1>2, <1>3, IngestCases DEF CatalogInv, ControlInv, TableStep, QuietStep, Refresh, Prune,
     Return, Skip

(* The product table is a function of the payloads stored, whatever the    *)
(* order in which they are processed, retried, forced and cut short.       *)
THEOREM CatalogFollowsPayloadTime == SpecWithOperator => ImplementsCatalog
  BY CatalogInit, CatalogStep, PTL DEF SpecWithOperator, ImplementsCatalog, CatalogPromise!Spec

-----------------------------------------------------------------------------
(* Observations: each is of the payload its run names; what a stored       *)
(* payload lists is observed at its time, unless the partition is gone.    *)

ObservationsMatch ==
  \A o \in obs :
    /\ o.run \in applied
    /\ o.product \in Listed(o.run)
    /\ o.at = FetchedAt[o.run]

Observed(k) ==
  FetchedAt[k] < Retention
    \/ \A p \in Listed(k) : \E o \in obs : o.product = p /\ o.at = FetchedAt[k]

StoreInv ==
  /\ CatalogInv
  /\ ObservationsMatch
  /\ \A k \in applied : Observed(k)

LEMMA StoreInit == Init => StoreInv
  BY CatalogInit DEF Init, StoreInv, ObservationsMatch

LEMMA StoreStep == StoreInv /\ [NextWithOperator]_vars => StoreInv'
<1> SUFFICES ASSUME StoreInv, [NextWithOperator]_vars
             PROVE  StoreInv'
  OBVIOUS
<1>1. CatalogInv' /\ applied \subseteq Key /\ applied' \subseteq Key
  BY CatalogStep DEF StoreInv, CatalogInv, ControlInv
<1>2. ASSUME NEW i \in Invocation, StoreRun(i)
      PROVE  ObservationsMatch' /\ \A k \in applied' : Observed(k)'
  <2> DEFINE k == job[i]
  <2>1. /\ k \in Key
        /\ applied' = applied \cup {k}
        /\ obs' = obs \cup NewObservations(k)
    BY <1>2 DEF StoreRun, StoreInv, CatalogInv, ControlInv, TypeOK
  <2>2. ObservationsMatch'
    BY <2>1 DEF StoreInv, ObservationsMatch, NewObservations
  <2>3. \A p \in Listed(k) : \E o \in obs' : o.product = p /\ o.at = FetchedAt[k]
    <3> SUFFICES ASSUME NEW p \in Listed(k),
                        ~\E o \in obs : o.product = p /\ o.at = FetchedAt[k]
                 PROVE  \E o \in obs' : o.product = p /\ o.at = FetchedAt[k]
      BY <2>1
    <3>1. [product |-> p, at |-> FetchedAt[k], run |-> k] \in obs'
      BY <2>1 DEF NewObservations
    <3>2. QED
      BY <3>1
  <2>4. QED
    BY <2>1, <2>2, <2>3 DEF StoreInv, Observed
<1>3. ASSUME NEW i \in Invocation, Prune(i)
      PROVE  ObservationsMatch' /\ \A k \in applied' : Observed(k)'
  <2>1. applied' = applied /\ obs' = {o \in obs : o.at >= Retention}
    BY <1>3 DEF Prune
  <2>2. ObservationsMatch'
    BY <2>1 DEF StoreInv, ObservationsMatch
  <2>3. ASSUME NEW k \in applied, FetchedAt[k] >= Retention
        PROVE  \A p \in Listed(k) : \E o \in obs' : o.product = p /\ o.at = FetchedAt[k]
    BY <2>1, <2>3, <1>1, IngestAssumption DEF StoreInv, Observed
  <2>4. QED
    BY <2>1, <2>2, <2>3, <1>1, IngestAssumption DEF Observed
<1>4. CASE UNCHANGED <<obs, applied>>
  BY <1>1, <1>4 DEF StoreInv, ObservationsMatch, Observed
<1>5. QED
  BY <1>1, <1>2, <1>3, <1>4, IngestCases DEF StoreInv, CatalogInv, ControlInv, TableStep,
     QuietStep, Refresh, Return, Skip

LEMMA StoreInvariant == SpecWithOperator => []StoreInv
  BY StoreInit, StoreStep, PTL DEF SpecWithOperator

(* A product that a stored payload lists has a row.                        *)
LEMMA StoredIsListed ==
  ASSUME StoreInv, NEW k \in applied, NEW p \in Listed(k)
  PROVE  catalog[p] # Unlisted
<1>1. k \in Key /\ p \in Product /\ applied \subseteq Key
  BY IngestAssumption DEF StoreInv, CatalogInv, ControlInv, Listed
<1>2. k \in CatalogPromise!Listing(p)
  BY <1>1 DEF CatalogPromise!Listing
<1>3. catalog[p].shows \in applied
  BY <1>1, <1>2 DEF StoreInv, CatalogInv, CatalogPromise!Faithful, CatalogPromise!Follows,
     CatalogPromise!Listing
<1>4. QED
  BY <1>1, <1>3, IngestAssumption DEF Unlisted

-----------------------------------------------------------------------------
(* Results and the summary.                                                *)

(* The summary knows each product that k lists by k or a newer payload.    *)
Published(k) ==
  \A p \in Listed(k) :
    \/ FetchedAt[k] < Retention
    \/ /\ summary[p].cur # NoKey
       /\ FetchedAt[summary[p].cur] >= FetchedAt[k]

ResultInv ==
  /\ StoreInv
  /\ \E n \in Nat : \A o \in obs : o.at <= n
  /\ \A p \in Product : summary[p].cur \in applied \cup {NoKey}
  /\ \A i \in Invocation : pc[i] \in {"refreshed", "pruned"} => Published(job[i])
  /\ \A r \in results : r.key \in applied /\ (~r.skipped => Published(r.key))

(* A nonempty set of bounded times has a latest one: the smallest of the   *)
(* sets of times no earlier than a given one is that one's.                *)
LEMMA LatestTime ==
  ASSUME NEW T \in SUBSET Nat, T # {}, NEW n \in Nat, \A t \in T : t <= n
  PROVE  \E m \in T : \A t \in T : t <= m
<1> DEFINE From(t) == {u \in T : u >= t}
           Tails == {From(t) : t \in T}
<1>1. \A t \in T : From(t) \in FiniteSubsetsOf(T)
  <2>1. ASSUME NEW t \in T
        PROVE  IsFiniteSet(From(t))
    BY FS_BoundedSetOfNaturals
  <2>2. QED
    BY <2>1 DEF FiniteSubsetsOf
<1>2. Tails \subseteq FiniteSubsetsOf(T) /\ Tails # {}
  BY <1>1
<1>3. PICK U \in Tails : \A V \in Tails : ~(<<V, U>> \in StrictSubsetOrdering(T))
  <2> HIDE DEF Tails
  <2>1. IsWellFoundedOn(StrictSubsetOrdering(T), FiniteSubsetsOf(T))
    BY FS_StrictSubsetOrderingWellFounded
  <2>2. QED
    BY <1>2, <2>1, WFMin
<1>4. PICK m \in T : U = From(m)
  OBVIOUS
<1>5. ASSUME NEW t \in T, t > m
      PROVE  FALSE
  <2>1. From(t) \subseteq U /\ m \in U /\ m \notin From(t)
    <3>1. m \in Nat /\ t \in Nat /\ \A u \in T : u \in Nat
      OBVIOUS
    <3>2. \A u \in T : u >= t => u >= m
      BY <1>5, <3>1
    <3>3. From(t) \subseteq From(m)
      BY <3>2
    <3>4. m \in From(m) /\ m \notin From(t)
      BY <1>5, <3>1
    <3>5. QED
      BY <1>4, <3>3, <3>4
  <2>2. <<From(t), U>> \in StrictSubsetOrdering(T)
    BY <2>1, <1>4 DEF StrictSubsetOrdering
  <2>3. QED
    BY <1>3, <2>2
<1>6. QED
  BY <1>5

(* The summary row of a product with observations shows the latest one.    *)
LEMMA SummaryShowsLatest ==
  ASSUME ResultInv, NEW p \in Product, NEW o \in obs, o.product = p
  PROVE  /\ SummaryRow(p).cur \in applied
         /\ o.at <= FetchedAt[SummaryRow(p).cur]
<1> DEFINE Own == {q \in obs : q.product = p}
           Times == {q.at : q \in Own}
           last == LatestOf(History(p))
<1>1. \A q \in obs : q.run \in applied /\ q.at = FetchedAt[q.run] /\ q.at \in Nat
  BY IngestAssumption DEF ResultInv, StoreInv, CatalogInv, ControlInv, ObservationsMatch
<1>2. Times \in SUBSET Nat /\ Times # {}
  BY <1>1
<1>3. PICK n \in Nat : \A t \in Times : t <= n
  BY DEF ResultInv
<1>4. PICK m \in Times : \A t \in Times : t <= m
  <2> HIDE DEF Times
  <2>1. QED
    BY <1>2, <1>3, LatestTime
<1>5. \A h \in History(p) : \E q \in Own : h.at = q.at /\ h.run = q.run
  BY DEF History
<1>6. ASSUME NEW q \in Own
      PROVE  \E h \in History(p) : h.at = q.at /\ h.run = q.run
  <2> DEFINE h == [at |-> q.at, run |-> q.run, price |-> Payload[q.run][p].price,
                   list |-> Payload[q.run][p].list, flag |-> Payload[q.run][p].flag]
  <2>1. h \in History(p)
    BY DEF History
  <2>2. h.at = q.at /\ h.run = q.run
    OBVIOUS
  <2>3. QED
    BY <2>1, <2>2
<1>7. \E h \in History(p) : \A g \in History(p) : g.at <= h.at
  <2>1. PICK q \in Own : q.at = m
    OBVIOUS
  <2>2. PICK h \in History(p) : h.at = q.at
    BY <1>6
  <2>3. ASSUME NEW g \in History(p)
        PROVE  g.at <= h.at
    <3>1. PICK r \in Own : g.at = r.at
      BY <1>5
    <3>2. r.at \in Times
      OBVIOUS
    <3>3. QED
      BY <1>4, <2>1, <2>2, <3>1, <3>2
  <2>4. QED
    BY <2>3
<1>8. last \in History(p) /\ \A g \in History(p) : g.at <= last.at
  BY <1>7 DEF LatestOf
<1>9. last.run \in applied /\ last.at = FetchedAt[last.run] /\ o.at <= last.at
  BY <1>1, <1>5, <1>6, <1>8
<1>10. SummaryRow(p).cur = last.run
  BY <1>6 DEF SummaryRow
<1>11. QED
  BY <1>9, <1>10

(* The row of a product without observations shows nothing.                *)
LEMMA SummaryShowsNothing ==
  ASSUME NEW p \in Product, ~\E o \in obs : o.product = p
  PROVE  SummaryRow(p).cur = NoKey
<1>1. History(p) = {}
  BY DEF History
<1>2. QED
  BY <1>1 DEF SummaryRow, NotSummarized

(* After a refresh every payload stored so far is published.               *)
LEMMA RefreshPublishes ==
  ASSUME ResultInv, summary' = [p \in Product |-> SummaryRow(p)]
  PROVE  /\ \A k \in applied : Published(k)'
         /\ \A p \in Product : summary'[p].cur \in applied \cup {NoKey}
<1>1. ASSUME NEW k \in applied, NEW p \in Listed(k), FetchedAt[k] >= Retention
      PROVE  /\ summary'[p].cur # NoKey
             /\ FetchedAt[summary'[p].cur] >= FetchedAt[k]
  <2>1. p \in Product /\ k \in Key /\ applied \subseteq Key
    BY IngestAssumption DEF ResultInv, StoreInv, CatalogInv, ControlInv, Listed
  <2>2. PICK o \in obs : o.product = p /\ o.at = FetchedAt[k]
    BY <1>1, <2>1, IngestAssumption DEF ResultInv, StoreInv, Observed
  <2>3. SummaryRow(p).cur \in applied /\ o.at <= FetchedAt[SummaryRow(p).cur]
    BY <2>1, <2>2, SummaryShowsLatest
  <2>4. QED
    BY <2>1, <2>2, <2>3, IngestAssumption
<1>2. ASSUME NEW k \in applied
      PROVE  Published(k)'
  <2>1. k \in Key
    BY DEF ResultInv, StoreInv, CatalogInv, ControlInv
  <2>2. FetchedAt[k] < Retention \/ FetchedAt[k] >= Retention
    BY <2>1, IngestAssumption
  <2>3. CASE FetchedAt[k] < Retention
    BY <2>3 DEF Published
  <2>4. CASE FetchedAt[k] >= Retention
    BY <1>1, <2>4 DEF Published
  <2>5. QED
    BY <2>2, <2>3, <2>4
<1>3. ASSUME NEW p \in Product
      PROVE  summary'[p].cur \in applied \cup {NoKey}
  BY SummaryShowsLatest, SummaryShowsNothing
<1>4. QED
  BY <1>2, <1>3

LEMMA ResultInit == Init => ResultInv
<1>1. Init => \A o \in obs : o.at <= 0
  BY DEF Init
<1>2. Init => \A p \in Product : summary[p].cur = NoKey
  BY DEF Init, NotSummarized
<1>3. QED
  BY <1>1, <1>2, StoreInit DEF Init, LedgerInit, ResultInv

(* Published depends on the summary alone.                                 *)
LEMMA PublishedAgain ==
  ASSUME summary' = summary, NEW k \in Key, Published(k)
  PROVE  Published(k)'
  BY DEF Published

LEMMA ResultStep == ResultInv /\ [NextWithOperator]_vars => ResultInv'
<1> SUFFICES ASSUME ResultInv, [NextWithOperator]_vars
             PROVE  ResultInv'
  OBVIOUS
<1>1. /\ StoreInv /\ ControlInv /\ TypeOK /\ applied \subseteq Key
      /\ StoreInv' /\ TypeOK'
  BY StoreStep DEF ResultInv, StoreInv, CatalogInv, ControlInv
<1>2. PICK n \in Nat : \A o \in obs : o.at <= n
  BY DEF ResultInv
<1>3. CASE QuietStep
  <2>1. UNCHANGED <<obs, applied, summary, results>>
    BY <1>3 DEF QuietStep
  <2>2. ASSUME NEW j \in Invocation, pc'[j] \in {"refreshed", "pruned"}
        PROVE  Published(job[j])' /\ job'[j] = job[j]
    BY <1>1, <1>3, <2>1, <2>2, PublishedAgain DEF QuietStep, ResultInv, Handled, TypeOK
  <2>3. \A r \in results' : r.key \in applied' /\ (~r.skipped => Published(r.key)')
    BY <1>1, <2>1, PublishedAgain DEF ResultInv
  <2>4. QED
    BY <1>1, <1>2, <2>1, <2>2, <2>3 DEF ResultInv, Published
<1>4. ASSUME NEW i \in Invocation, StoreRun(i)
      PROVE  ResultInv'
  <2>1. /\ job' = job /\ job[i] \in Key
        /\ \A j \in Invocation : pc'[j] \in {"refreshed", "pruned"} => pc'[j] = pc[j]
        /\ UNCHANGED <<summary, results>>
        /\ applied' = applied \cup {job[i]}
        /\ obs' = obs \cup NewObservations(job[i])
    BY <1>1, <1>4 DEF StoreRun, FinishRun, eventVars, TypeOK
  <2>2. \A o \in obs' : o.at <= n + FetchedAt[job[i]]
    <3>1. \A o \in obs : o.at \in Nat
      BY <1>1, IngestAssumption DEF StoreInv, ObservationsMatch
    <3>2. \A o \in NewObservations(job[i]) : o.at = FetchedAt[job[i]]
      BY DEF NewObservations
    <3>3. FetchedAt[job[i]] \in Nat
      BY <2>1, IngestAssumption
    <3>4. QED
      BY <1>2, <2>1, <3>1, <3>2, <3>3
  <2>3. n + FetchedAt[job[i]] \in Nat
    BY <2>1, IngestAssumption
  <2>4. \A r \in results' : r.key \in applied' /\ (~r.skipped => Published(r.key)')
    BY <1>1, <2>1, PublishedAgain DEF ResultInv
  <2>5. \A j \in Invocation : pc'[j] \in {"refreshed", "pruned"} => Published(job[j])'
    BY <1>1, <2>1, PublishedAgain DEF ResultInv, TypeOK
  <2>6. QED
    BY <1>1, <2>1, <2>2, <2>3, <2>4, <2>5 DEF ResultInv, Published
<1>5. ASSUME NEW i \in Invocation, Refresh(i)
      PROVE  ResultInv'
  <2>1. /\ job' = job
        /\ \A j \in Invocation : pc'[j] \in {"refreshed", "pruned"} => pc[j] \in Handled
        /\ UNCHANGED <<obs, applied, results>>
        /\ summary' = [p \in Product |-> SummaryRow(p)]
    BY <1>1, <1>5 DEF Refresh, RefreshSummary, eventVars, TypeOK, Handled
  <2>2. /\ \A k \in applied : Published(k)'
        /\ \A p \in Product : summary'[p].cur \in applied \cup {NoKey}
    BY <2>1, RefreshPublishes
  <2>3. \A j \in Invocation : pc'[j] \in {"refreshed", "pruned"} => Published(job[j])'
    BY <1>1, <2>1, <2>2 DEF ControlInv
  <2>4. QED
    BY <1>1, <1>2, <2>1, <2>2, <2>3 DEF ResultInv, Published
<1>6. ASSUME NEW i \in Invocation, Prune(i)
      PROVE  ResultInv'
  <2>1. /\ job' = job
        /\ \A j \in Invocation : pc'[j] \in {"refreshed", "pruned"} => pc[j] \in {"refreshed", "pruned"}
        /\ UNCHANGED <<applied, results, summary>>
        /\ obs' \subseteq obs
    BY <1>1, <1>6 DEF Prune, PrunePartitions, eventVars, TypeOK
  <2>2. \A j \in Invocation : pc'[j] \in {"refreshed", "pruned"} => Published(job[j])'
    BY <1>1, <2>1, PublishedAgain DEF ResultInv, TypeOK
  <2>3. \A r \in results' : r.key \in applied' /\ (~r.skipped => Published(r.key)')
    BY <1>1, <2>1, PublishedAgain DEF ResultInv
  <2>4. QED
    BY <1>1, <1>2, <2>1, <2>2, <2>3 DEF ResultInv, Published
<1>7. ASSUME NEW i \in Invocation, Return(i) \/ Skip(i)
      PROVE  ResultInv'
  <2>1. /\ job' = job /\ job[i] \in applied
        /\ \A j \in Invocation : pc'[j] \in {"refreshed", "pruned"} => pc[j] \in {"refreshed", "pruned"}
        /\ UNCHANGED <<applied, obs, summary>>
    BY <1>1, <1>7 DEF Return, ReturnResult, Skip, SkipRun, AlreadyDone, runVars, eventVars,
       TypeOK, ControlInv, Handled
  <2>2. \A r \in results' : r \in results \/ (r.key = job[i] /\ (~r.skipped => Published(job[i])))
    BY <1>7 DEF Return, ReturnResult, Skip, Result, ResultInv
  <2>3. \A r \in results' : r.key \in applied /\ (~r.skipped => Published(r.key))
    BY <2>1, <2>2 DEF ResultInv
  <2>4. \A r \in results' : r.key \in applied' /\ (~r.skipped => Published(r.key)')
    BY <1>1, <2>1, <2>3, PublishedAgain
  <2>5. \A j \in Invocation : pc'[j] \in {"refreshed", "pruned"} => Published(job[j])'
    BY <1>1, <2>1, PublishedAgain DEF ResultInv, TypeOK
  <2>6. QED
    BY <1>1, <1>2, <2>1, <2>4, <2>5 DEF ResultInv, Published
<1>8. QED
  BY <1>1, <1>3, <1>4, <1>5, <1>6, <1>7, IngestCases DEF ControlInv, TableStep

LEMMA ResultInvariant == SpecWithOperator => []ResultInv
  BY ResultInit, ResultStep, PTL DEF SpecWithOperator

(* A key is reported as already processed only when its data is there.     *)
THEOREM SkippedRunsAreStored == SpecWithOperator => []SkippedMeansStored
<1>1. ASSUME ResultInv
      PROVE  SkippedMeansStored
  <2>1. ASSUME NEW r \in results, NEW p \in Listed(r.key)
        PROVE  /\ catalog[p] # Unlisted
               /\ FetchedAt[r.key] < Retention
                    \/ \E o \in obs : o.product = p /\ o.at = FetchedAt[r.key]
    BY <1>1, <2>1, StoredIsListed DEF ResultInv, StoreInv, Observed
  <2>2. QED
    BY <2>1 DEF SkippedMeansStored
<1>2. QED
  BY <1>1, ResultInvariant, PTL

(* No full result is returned before the summary shows its products.       *)
THEOREM ReportedRunsArePublished == SpecWithOperator => []ReportedRunIsPublished
<1>1. ResultInv => ReportedRunIsPublished
  BY DEF ResultInv, Published, ReportedRunIsPublished
<1>2. QED
  BY <1>1, ResultInvariant, PTL

-----------------------------------------------------------------------------
(* Alerts: the rows of a run are of a payload that was stored, and what a  *)
(* worker holds or has returned is in them.                                *)

Recorded(k, a) == \E row \in alertRows : SameAlert(row, k, a)

AlertInv ==
  /\ ResultInv
  /\ \A row \in alertRows : row.run \in applied
  /\ \A i \in Invocation : \A a \in drafts[i] : Recorded(job[i], a)
  /\ \A r \in results : \A a \in r.alerts : Recorded(r.key, a)
  /\ \A row, other \in alertRows : SameAlert(row, other.run, other) => row = other

(* A payload gives a product at most one alert of a kind.                  *)
LEMMA OneAlertOfAKind ==
  ASSUME NEW k, NEW a \in Alerts(k), NEW b \in Alerts(k),
         a.product = b.product, a.kind = b.kind
  PROVE  a = b
<1> USE DEF NewDeals, PriceDrops, RetailerFlags, WatchHits, Alert
<1>1. ASSUME NEW p, NEW snap, NEW history, NEW at,
             NEW c \in ClassifyAlerts(p, snap, history, at, watches, Threshold, PeakWindow)
      PROVE  c.product = p
  BY DEF ClassifyAlerts
<1>2. ASSUME NEW p, NEW snap, NEW history, NEW at,
             NEW c \in ClassifyAlerts(p, snap, history, at, watches, Threshold, PeakWindow),
             NEW d \in ClassifyAlerts(p, snap, history, at, watches, Threshold, PeakWindow),
             c.kind = d.kind
      PROVE  c = d
  <2> DEFINE prior == Prior(history, at)
             before == LatestOf(prior)
             peak == PeakPrice(prior, at, PeakWindow)
             Drops == PriceDrops(p, snap, before, peak, Threshold)
             Flags == RetailerFlags(p, snap, before, peak)
             Hits == WatchHits(p, snap, before, peak, watches)
  <2>1. CASE prior = {}
    BY <1>2, <2>1 DEF ClassifyAlerts
  <2>2. CASE prior # {}
    <3>1. c \in Drops \cup Flags \cup Hits /\ d \in Drops \cup Flags \cup Hits
      BY <1>2, <2>2 DEF ClassifyAlerts
    <3>2. \A x, y \in Drops : x = y /\ x.kind = "price_drop"
      OBVIOUS
    <3>3. \A x, y \in Flags : x = y /\ x.kind = "retailer_flag"
      OBVIOUS
    <3>4. \A x, y \in Hits : x = y /\ x.kind = "watch_hit"
      <4> DEFINE hit == [kind |-> "watch_hit", product |-> p, old |-> peak,
                         pct |-> DiscountPct(snap.price, peak),
                         emails |-> {w.email : w \in {v \in watches :
                           v.product = p /\ DiscountPct(snap.price, peak) >= v.min}}]
      <4>1. Hits \subseteq {hit} /\ hit.kind = "watch_hit"
        OBVIOUS
      <4> HIDE DEF Hits, hit
      <4>2. QED
        BY <4>1
    <3> HIDE DEF Drops, Flags, Hits
    <3>5. QED
      BY <1>2, <3>1, <3>2, <3>3, <3>4
  <2>3. QED
    BY <2>1, <2>2
<1>3. \A c \in Alerts(k) : \E p \in Listed(k) :
        c \in ClassifyAlerts(p, Payload[k][p], History(p), FetchedAt[k], watches, Threshold,
                             PeakWindow)
  BY DEF Alerts
<1>4. QED
  BY <1>1, <1>2, <1>3

(* insert_alerts keeps the rows there are, adds one for each alert that    *)
(* has none, and none that would be a second.                              *)
LEMMA InsertedOnce ==
  ASSUME NEW k, NEW alerts,
         \A a, b \in alerts : a.product = b.product /\ a.kind = b.kind => a = b,
         \A row, other \in alertRows : SameAlert(row, other.run, other) => row = other,
         NEW rows, rows = InsertAlerts(k, alerts)
  PROVE  /\ alertRows \subseteq rows
         /\ \A a \in alerts : \E row \in rows : SameAlert(row, k, a)
         /\ \A row \in rows : row \in alertRows \/ row.run = k
         /\ \A row, other \in rows : SameAlert(row, other.run, other) => row = other
<1> DEFINE New == {b \in alerts : ~\E row \in alertRows : SameAlert(row, k, b)}
           RowOf(a) == [run |-> k, product |-> a.product, kind |-> a.kind, old |-> a.old,
                        pct |-> a.pct]
<1>1. rows = alertRows \cup {RowOf(a) : a \in New}
  BY DEF InsertAlerts
<1>2. \A a \in New : SameAlert(RowOf(a), k, a) /\ RowOf(a).run = k
  BY DEF SameAlert
<1>3. \A a \in alerts : \E row \in rows : SameAlert(row, k, a)
  BY <1>1, <1>2
<1>4. \A row \in rows : row \in alertRows \/ \E a \in New : row = RowOf(a)
  BY <1>1
<1>5. ASSUME NEW row \in rows, NEW other \in rows, SameAlert(row, other.run, other)
      PROVE  row = other
  <2>1. SameAlert(other, row.run, row)
    BY <1>5 DEF SameAlert
  <2>2. CASE row \in alertRows /\ other \in alertRows
    BY <1>5, <2>2
  <2>3. ASSUME NEW old \in alertRows, NEW a \in New, SameAlert(old, k, RowOf(a))
        PROVE  FALSE
    BY <2>3 DEF SameAlert
  <2>4. CASE \E a, b \in New : row = RowOf(a) /\ other = RowOf(b)
    BY <1>5, <2>4 DEF SameAlert
  <2>5. QED
    BY <1>2, <1>4, <1>5, <2>1, <2>2, <2>3, <2>4
<1>6. QED
  BY <1>1, <1>2, <1>3, <1>4, <1>5

LEMMA AlertInit == Init => AlertInv
  BY ResultInit DEF Init, AlertInv

(* Recorded stays true: rows are only added.                               *)
LEMMA RecordedAgain ==
  ASSUME alertRows \subseteq alertRows', NEW k, NEW a, Recorded(k, a)
  PROVE  Recorded(k, a)'
  BY DEF Recorded, SameAlert

LEMMA AlertStep == AlertInv /\ [NextWithOperator]_vars => AlertInv'
<1> SUFFICES ASSUME AlertInv, [NextWithOperator]_vars
             PROVE  AlertInv'
  OBVIOUS
<1>1. ResultInv' /\ ControlInv /\ TypeOK /\ DraftsOfHandlers
  BY ResultStep DEF AlertInv, ResultInv, StoreInv, CatalogInv, ControlInv
<1>2. CASE QuietStep
  <2>1. UNCHANGED <<alertRows, applied, results>>
    BY <1>2 DEF QuietStep
  <2>2. \A j \in Invocation : \A a \in drafts'[j] : job'[j] = job[j] /\ a \in drafts[j]
    BY <1>2 DEF QuietStep
  <2>3. QED
    BY <1>1, <2>1, <2>2 DEF AlertInv, Recorded, SameAlert
<1>3. ASSUME NEW i \in Invocation, StoreRun(i)
      PROVE  AlertInv'
  <2> DEFINE k == job[i]
  <2>1. /\ UNCHANGED <<job, results>>
        /\ applied' = applied \cup {k}
        /\ alertRows' = InsertAlerts(k, Alerts(k))
        /\ drafts' = [drafts EXCEPT ![i] = Alerts(k)]
    BY <1>3 DEF StoreRun, FinishRun, eventVars
  <2>2. /\ alertRows \subseteq alertRows'
        /\ \A a \in Alerts(k) : \E row \in alertRows' : SameAlert(row, k, a)
        /\ \A row \in alertRows' : row \in alertRows \/ row.run = k
        /\ \A row, other \in alertRows' : SameAlert(row, other.run, other) => row = other
    <3>1. \A a, b \in Alerts(k) : a.product = b.product /\ a.kind = b.kind => a = b
      BY OneAlertOfAKind
    <3>2. QED
      BY <2>1, <3>1, InsertedOnce DEF AlertInv
  <2>3. ASSUME NEW j \in Invocation, NEW a \in drafts'[j]
        PROVE  \E row \in alertRows' : SameAlert(row, job[j], a)
    <3>1. CASE j = i
      BY <1>1, <2>1, <2>2, <2>3, <3>1 DEF DraftsOfHandlers
    <3>2. CASE j # i
      BY <1>1, <2>1, <2>2, <2>3, <3>2 DEF DraftsOfHandlers, AlertInv, Recorded
    <3>3. QED
      BY <3>1, <3>2
  <2>4. QED
    BY <1>1, <2>1, <2>2, <2>3 DEF AlertInv, Recorded, SameAlert
<1>4. ASSUME NEW i \in Invocation, Return(i)
      PROVE  AlertInv'
  <2>1. /\ UNCHANGED <<job, applied, alertRows>>
        /\ results' = results \cup {Result(job[i], FALSE, drafts[i])}
        /\ \A j \in Invocation : drafts'[j] \subseteq drafts[j]
    BY <1>1, <1>4 DEF Return, ReturnResult, eventVars, DraftsOfHandlers
  <2>2. QED
    BY <1>1, <2>1 DEF AlertInv, Recorded, SameAlert, Result
<1>5. ASSUME NEW i \in Invocation, Refresh(i) \/ Prune(i) \/ Skip(i)
      PROVE  AlertInv'
  <2>1. /\ UNCHANGED <<job, applied, alertRows, drafts>>
        /\ \A r \in results' : r \in results \/ r.alerts = {}
    BY <1>5 DEF Refresh, RefreshSummary, Prune, PrunePartitions, Skip, SkipRun, Result, eventVars
  <2>2. QED
    BY <1>1, <2>1 DEF AlertInv, Recorded, SameAlert
<1>6. QED
  BY <1>1, <1>2, <1>3, <1>4, <1>5, IngestCases DEF TableStep

LEMMA AlertInvariant == SpecWithOperator => []AlertInv
  BY AlertInit, AlertStep, PTL DEF SpecWithOperator

(* What is announced is in the alert table, once, whichever attempt wrote  *)
(* the row and whichever returned.                                         *)
THEOREM AlertsAreRecordedOnce == SpecWithOperator => []AnnouncedAlertsAreRecorded
<1>1. AlertInv => AnnouncedAlertsAreRecorded
  BY DEF AlertInv, Recorded, AnnouncedAlertsAreRecorded
<1>2. QED
  BY <1>1, AlertInvariant, PTL

(* A payload that does not parse, or is too short, is never seen: not in   *)
(* the observations, the products, the summary, the alerts or a result.    *)
THEOREM BrokenPayloadsLeaveNoTrace == SpecWithOperator => []BrokenPayloadLeavesNoTrace
<1>1. ASSUME AlertInv, NEW k \in Key, Broken(k)
      PROVE  /\ ~Stored(k)
             /\ \A p \in Product : catalog[p].shows # k /\ summary[p].cur # k
             /\ \A row \in alertRows : row.run # k
             /\ \A r \in results : r.key # k
  <2>1. /\ ResultInv /\ StoreInv /\ CatalogInv /\ ControlInv
    BY <1>1 DEF AlertInv, ResultInv, StoreInv, CatalogInv
  <2>2. MinProducts[SourceOf[k]] \in Nat /\ Cardinality(Listed(k)) \in Nat
    BY IngestAssumption, FS_CardinalityType DEF Listed
  <2>3. k \notin applied /\ k # NoKey
    BY <1>1, <2>1, <2>2, IngestAssumption DEF ControlInv, Broken, Publishable
  <2>4. ASSUME NEW p \in Product
        PROVE  catalog[p].shows \in applied \cup {NoKey}
    <3>1. catalog[p] = CatalogPromise!Unlisted \/ catalog[p].shows \in CatalogPromise!Listing(p)
      BY <2>1 DEF CatalogInv, CatalogPromise!Faithful, CatalogPromise!Follows
    <3>2. CatalogPromise!Unlisted.shows = NoKey
      BY DEF CatalogPromise!Unlisted
    <3>3. QED
      BY <3>1, <3>2 DEF CatalogPromise!Listing
  <2>5. QED
    BY <1>1, <2>1, <2>3, <2>4 DEF Stored, StoreInv, ObservationsMatch, ResultInv, AlertInv
<1>2. AlertInv => BrokenPayloadLeavesNoTrace
  BY <1>1 DEF BrokenPayloadLeavesNoTrace
<1>3. QED
  BY <1>2, AlertInvariant, PTL
=============================================================================
