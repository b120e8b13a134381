------------------------------- MODULE Ingest -------------------------------
(***************************************************************************)
(* services/ingest.py run_process with everything it writes: price         *)
(* observations, the products' current-state columns, alert rows and the   *)
(* materialized summary (db/repo.py, alembic 0001, 0003, 0005, 0007).      *)
(*                                                                         *)
(* The control flow (claim, leases, crashes, retries) is module RunLedger; *)
(* every action here conjoins one of its actions with what that step does  *)
(* to the data.  A payload is a constant: parse() is a pure function of    *)
(* the raw object.                                                         *)
(***************************************************************************)
EXTENDS RunLedger, PriceSummary

CONSTANTS
  Product,        \* products, each of one source
  Source,
  SourceOf,       \* [Key -> Source]: raw["source"]
  FetchedAt,      \* [Key -> Nat]: raw["fetched_at"], the payload's time, in days
  Payload,        \* [Key -> function from the listed products to snapshots]
  Malformed,      \* SUBSET Key: payloads whose parse() raises
  MinProducts,    \* [Source -> Nat]: settings.min_products
  Retention,      \* Nat: partitions of days before this one are prunable now
  Punctual,       \* SUBSET Key: payloads that arrive after every older one succeeded
  Subscription,   \* the watches that may be confirmed or removed meanwhile
  Threshold,      \* settings.alert_min_discount_pct, in tenths
  PeakWindow,     \* PEAK_WINDOW_DAYS
  BaselineFrom,   \* Nat: the day 90 days before now, for the summary
  NoKey

(* What price_observation accepts (alembic 0001): its CHECKs on price and  *)
(* list_price; a payload that breaks one never commits, like a malformed.  *)
Snapshot ==
  {snap \in [price : Nat, list : Nat \cup {NoPrice}, flag : BOOLEAN] :
     snap.list = NoPrice \/ snap.list >= snap.price}

ASSUME IngestAssumption ==
  /\ SourceOf \in [Key -> Source]
  /\ FetchedAt \in [Key -> Nat]
  /\ DOMAIN Payload = Key
  /\ \A k \in Key : DOMAIN Payload[k] \subseteq Product /\ IsFiniteSet(DOMAIN Payload[k])
  /\ Malformed \subseteq Key
  /\ \A k \in Key \ Malformed : \A p \in DOMAIN Payload[k] : Payload[k][p] \in Snapshot
  /\ MinProducts \in [Source -> Nat]
  /\ Retention \in Nat
  /\ Punctual \subseteq Key
  /\ \A w \in Subscription : w.product \in Product
  /\ Threshold \in Nat
  /\ PeakWindow \in Nat
  /\ BaselineFrom \in Nat
  /\ NoKey \notin Key

(* A product belongs to one retailer (product: UNIQUE (source_id,          *)
(* external_id)), whose payloads carry the microsecond at which their      *)
(* scrape began (sources/base.py new_raw_payload).                         *)
ASSUME DistinctTimes ==
  \A k, l \in Key :
    k # l /\ DOMAIN Payload[k] \cap DOMAIN Payload[l] # {} =>
      SourceOf[k] = SourceOf[l] /\ FetchedAt[k] # FetchedAt[l]

VARIABLES
  obs,        \* price_observation: set of [product, at, run]; the run names the payload
  catalog,    \* product: [Product -> [shows, first, last]], the current-state columns
  alertRows,  \* alert: set of [run, product, kind, old, pct]
  summary,    \* product_price_summary: [Product -> [cur, current, prices]]
  watches,    \* the confirmed watches (written by the API, read here)
  drafts,     \* [Invocation -> set of alerts]: `alerts` in the worker's memory
  results,    \* results returned: set of [key, skipped, alerts]
  applied     \* history: payloads whose second transaction ever committed

dataVars == <<obs, catalog, alertRows, summary, watches, drafts, results, applied>>
vars == <<ledgerVars, dataVars>>

Listed(k) == DOMAIN Payload[k]

Unlisted == [shows |-> NoKey, first |-> 0, last |-> 0]
NotSummarized == [cur |-> NoKey, current |-> FALSE, prices |-> NoPrice]

Init ==
  /\ LedgerInit
  /\ obs = {}
  /\ catalog = [p \in Product |-> Unlisted]
  /\ alertRows = {}
  /\ summary = [p \in Product |-> NotSummarized]
  /\ watches = {}
  /\ drafts = [i \in Invocation |-> {}]
  /\ results = {}
  /\ applied = {}

-----------------------------------------------------------------------------
(* What transaction 2 computes from the payload and the tables.            *)

(* Mutant: no MIN_PRODUCTS floor.                                          *)
PublishableIfParsed(k) == k \notin Malformed

(* parse() succeeded and the catalog is not short.                         *)
Publishable(k) ==
  /\ k \notin Malformed
  /\ Cardinality(Listed(k)) >= MinProducts[SourceOf[k]]

(* insert_observations: ON CONFLICT (product_id, observed_at) DO NOTHING.  *)
NewObservations(k) ==
  {[product |-> p, at |-> FetchedAt[k], run |-> k] :
     p \in {q \in Listed(k) :
              ~\E o \in obs : o.product = q /\ o.at = FetchedAt[k]}}

(* Mutant: the row shows whichever payload was processed last.             *)
SupersedesAlways(k, row) == k # row.shows

(* upsert_products: the current-state columns move forward in payload time *)
(* only; first and last seen widen.                                        *)
SupersedesRow(k, row) == row.last <= FetchedAt[k]

Upserted(row, k) ==
  IF row = Unlisted
  THEN [shows |-> k, first |-> FetchedAt[k], last |-> FetchedAt[k]]
  ELSE [shows |-> IF SupersedesRow(k, row) THEN k ELSE row.shows,
        first |-> IF FetchedAt[k] < row.first THEN FetchedAt[k] ELSE row.first,
        last  |-> IF FetchedAt[k] > row.last THEN FetchedAt[k] ELSE row.last]

UpsertProducts(k) ==
  [p \in Product |-> IF p \in Listed(k) THEN Upserted(catalog[p], k) ELSE catalog[p]]

History(p) ==
  {[at |-> o.at, run |-> o.run, price |-> Payload[o.run][p].price,
    list |-> Payload[o.run][p].list, flag |-> Payload[o.run][p].flag] :
     o \in {q \in obs : q.product = p}}

Alerts(k) ==
  UNION {ClassifyAlerts(p, Payload[k][p], History(p), FetchedAt[k], watches, Threshold,
                        PeakWindow) : p \in Listed(k)}

(* insert_alerts: ON CONFLICT (run_id, product_id, kind) DO NOTHING.       *)
SameAlert(row, k, a) == row.run = k /\ row.product = a.product /\ row.kind = a.kind

(* Mutants: rows written by the first attempt only; rows with addresses.   *)
InsertAlertsOnce(k, alerts) ==
  IF \E row \in alertRows : row.run = k THEN alertRows
  ELSE alertRows \cup
    {[run |-> k, product |-> a.product, kind |-> a.kind, old |-> a.old, pct |-> a.pct] :
       a \in alerts}

InsertAlertsWithEmails(k, alerts) ==
  alertRows \cup
    {[run |-> k, product |-> a.product, kind |-> a.kind, old |-> a.old, pct |-> a.pct,
      emails |-> a.emails] : a \in {b \in alerts : ~\E row \in alertRows : SameAlert(row, k, b)}}

InsertAlerts(k, alerts) ==
  alertRows \cup
    {[run |-> k, product |-> a.product, kind |-> a.kind, old |-> a.old, pct |-> a.pct] :
       a \in {b \in alerts : ~\E row \in alertRows : SameAlert(row, k, b)}}

-----------------------------------------------------------------------------
(* The materialized view (alembic 0007): the latest observation of every   *)
(* product, current when it belongs to the latest successful run of its    *)
(* source, latest by payload time and then by run id.                      *)

(* Mutant: the last run by processing order (alembic 0005, before 0007).   *)
LaterById(k, l) == runId[k] > runId[l]

LaterRun(k, l) ==
  \/ FetchedAt[k] > FetchedAt[l]
  \/ FetchedAt[k] = FetchedAt[l] /\ runId[k] > runId[l]

(* Mutant: the last run of any source.                                     *)
IsLastRunOfAll(k) ==
  /\ status[k] = "succeeded"
  /\ \A l \in Key \ {k} : status[l] = "succeeded" => LaterRun(k, l)

IsLastRun(k) ==
  /\ status[k] = "succeeded"
  /\ \A l \in Key \ {k} :
       status[l] = "succeeded" /\ SourceOf[l] = SourceOf[k] => LaterRun(k, l)

SummaryRow(p) ==
  LET history == History(p)
      cur == LatestOf(history).run
  IN  IF history = {} THEN NotSummarized
      ELSE [cur |-> cur, current |-> IsLastRun(cur),
            prices |-> PriceColumns(history, BaselineFrom)]

-----------------------------------------------------------------------------
(* The handler's steps.                                                    *)

StoreRun(i) ==
  LET k == job[i] IN
  /\ FinishRun(i)
  /\ Publishable(k)
  /\ obs' = obs \cup NewObservations(k)
  /\ catalog' = UpsertProducts(k)
  /\ drafts' = [drafts EXCEPT ![i] = Alerts(k)]
  /\ alertRows' = InsertAlerts(k, Alerts(k))
  /\ applied' = applied \cup {k}
  /\ UNCHANGED <<summary, watches, results>>

Refresh(i) ==
  /\ RefreshSummary(i)
  /\ summary' = [p \in Product |-> SummaryRow(p)]
  /\ UNCHANGED <<obs, catalog, alertRows, watches, drafts, results, applied>>

Prune(i) ==
  /\ PrunePartitions(i)
  /\ obs' = {o \in obs : o.at >= Retention}
  /\ UNCHANGED <<catalog, alertRows, summary, watches, drafts, results, applied>>

Result(k, skipped, alerts) == [key |-> k, skipped |-> skipped, alerts |-> alerts]

Return(i) ==
  /\ ReturnResult(i)
  /\ results' = results \cup {Result(job[i], FALSE, drafts[i])}
  /\ drafts' = [drafts EXCEPT ![i] = {}]
  /\ UNCHANGED <<obs, catalog, alertRows, summary, watches, applied>>

Skip(i) ==
  /\ SkipRun(i)
  /\ results' = results \cup {Result(job[i], TRUE, {})}
  /\ UNCHANGED <<obs, catalog, alertRows, summary, watches, drafts, applied>>

(* Steps that write no table but ingestion_run.  A worker that raises or   *)
(* dies loses what it had in memory.                                       *)
LoseWork(i) ==
  /\ RefuseRun(i) \/ RaiseBeforeClaim(i) \/ Raise(i) \/ FailRun(i) \/ Crash(i) \/ Kill(i)
  /\ drafts' = [drafts EXCEPT ![i] = {}]
  /\ UNCHANGED <<obs, catalog, alertRows, summary, watches, results, applied>>

(* The schedule's payloads arrive in order; any other is a delayed event   *)
(* or a replay.                                                            *)
Arrived(k) ==
  k \in Punctual =>
    \A l \in Key : SourceOf[l] = SourceOf[k] /\ FetchedAt[l] < FetchedAt[k]
                     => status[l] = "succeeded"

Arrive(i) ==
  /\ \E k \in Key : Arrived(k) /\ (Deliver(i, k) \/ RerunByHand(i, k))
  /\ UNCHANGED dataVars

Proceed(i) ==
  /\ Dispatch(i) \/ Retry(i) \/ ClaimRun(i)
  /\ UNCHANGED dataVars

Wait == Tick /\ UNCHANGED dataVars

(* A subscriber confirms a watch or unsubscribes (db/watches.py).  The     *)
(* foreign key of a watch wants a row of its product.                      *)
Subscribe(w) ==
  /\ w \in watches \/ catalog[w.product] # Unlisted
  /\ watches' = IF w \in watches THEN watches \ {w} ELSE watches \cup {w}
  /\ UNCHANGED <<ledgerVars, obs, catalog, alertRows, summary, drafts, results, applied>>

Next ==
  \/ Wait
  \/ \E w \in Subscription : Subscribe(w)
  \/ \E i \in Invocation :
       \/ Arrive(i) \/ Proceed(i) \/ LoseWork(i)
       \/ StoreRun(i) \/ Refresh(i) \/ Prune(i) \/ Return(i) \/ Skip(i)

Spec == Init /\ [][Next]_vars

(* The same system with an operator who forces finished keys to run again. *)
NextWithOperator ==
  \/ Next
  \/ \E k \in Key : ForceFailed(k) /\ UNCHANGED dataVars

SpecWithOperator == Init /\ [][NextWithOperator]_vars

-----------------------------------------------------------------------------
(* Properties.                                                             *)

AlertRow == [run : Key, product : Product, old : Int, pct : Int,
             kind : {"new_deal", "price_drop", "retailer_flag", "watch_hit"}]

IngestTypeOK ==
  /\ TypeOK
  /\ obs \subseteq [product : Product, at : Nat, run : Key]
  /\ catalog \in [Product -> [shows : Key \cup {NoKey}, first : Nat, last : Nat]]
  /\ alertRows \subseteq AlertRow
  /\ \A p \in Product : summary[p].cur \in Key \cup {NoKey} /\ summary[p].current \in BOOLEAN
  /\ watches \subseteq Subscription
  /\ DOMAIN drafts = Invocation
  /\ \A r \in results : r.key \in Key
  /\ applied \subseteq Key

Stored(k) == \E o \in obs : o.run = k

(* Whatever the order in which payloads are processed, retried or forced,  *)
(* and wherever workers die, the product table is the one module Catalog   *)
(* describes: a function of the payloads stored, not of their order        *)
(* (upsert_products: "the current-state columns only move forward in       *)
(* payload time").                                                         *)
CatalogPromise ==
  INSTANCE Catalog WITH stored <- applied, Lists <- [k \in Key |-> Listed(k)]

ImplementsCatalog == CatalogPromise!Spec

(* When a refresh happens and the newest payload stored for a source       *)
(* belongs to a run that succeeded and is not pruned, the current products *)
(* of that source are exactly the ones it lists: nothing lingers, nothing  *)
(* is hidden, even if the run that refreshes replays an older payload      *)
(* (alembic 0007).  An empty payload is one too: it empties the source.    *)
NewestStored(k) ==
  /\ k \in applied
  /\ Listed(k) # {} => Stored(k)
  /\ \A l \in applied \ {k} : SourceOf[l] = SourceOf[k] => FetchedAt[l] < FetchedAt[k]

ProductsOf(s) == UNION {Listed(k) : k \in {l \in Key : SourceOf[l] = s}}

CurrentIsNewestPayload ==
  [][(\E i \in Invocation : Refresh(i)) =>
       \A k \in Key : NewestStored(k) /\ status[k] = "succeeded" =>
         {p \in ProductsOf(SourceOf[k]) : summary'[p].current} = Listed(k)]_vars

Broken(k) == k \in Malformed \/ Cardinality(Listed(k)) < MinProducts[SourceOf[k]]

(* A payload that does not parse or is too short is rejected before it     *)
(* leaves any trace, however often it is delivered, retried or re-run      *)
(* (ingest.py: "Fail before any state changes").                           *)
BrokenPayloadLeavesNoTrace ==
  \A k \in Key : Broken(k) =>
    /\ ~Stored(k)
    /\ \A p \in Product : catalog[p].shows # k /\ summary[p].cur # k
    /\ \A row \in alertRows : row.run # k
    /\ \A r \in results : r.key # k

(* A key is reported as already processed only when its observations are   *)
(* in the table (or were pruned as too old) and its product rows exist.    *)
SkippedMeansStored ==
  \A r \in results : r.skipped =>
    \A p \in Listed(r.key) :
      /\ catalog[p] # Unlisted
      /\ FetchedAt[r.key] < Retention
           \/ \E o \in obs : o.product = p /\ o.at = FetchedAt[r.key]

(* A digest never announces what the site cannot show: when a full result  *)
(* has been returned, the summary knows each product it lists by this      *)
(* payload or a newer one.                                                 *)
ReportedRunIsPublished ==
  \A r \in results : ~r.skipped =>
    \A p \in Listed(r.key) :
      \/ FetchedAt[r.key] < Retention
      \/ /\ summary[p].cur # NoKey
         /\ FetchedAt[summary[p].cur] >= FetchedAt[r.key]

(* What the digest of a full result says of a product, the site says too,  *)
(* as long as its row comes from that payload: a new deal has the same     *)
(* percentage, a drop is one against the previous price, and the old price *)
(* announced covers the 90-day maximum.  Python and SQL compute these from *)
(* windows of their own (classify_alerts, alembic 0007), in different      *)
(* transactions, perhaps after a retry; payloads arrive in order.          *)
SiteAgreesWithDigest ==
  \A r \in results : \A a \in r.alerts :
    LET site == summary[a.product] IN
    site.cur = r.key =>
      /\ a.kind = "new_deal" => site.prices.discount = a.pct /\ site.prices.previous = NoPrice
      /\ a.kind \in {"price_drop", "watch_hit"} =>
           site.prices.price < site.prices.previous /\ site.prices.highest <= a.old

(* The alert table is the audit of what was announced: each alert of a     *)
(* returned result has one row of its run, product and kind, though the    *)
(* attempt that wrote the row may not be the one that returned.            *)
AnnouncedAlertsAreRecorded ==
  /\ \A r \in results : \A a \in r.alerts :
       \E row \in alertRows : SameAlert(row, r.key, a)
  /\ \A row, other \in alertRows : SameAlert(row, other.run, other) => row = other

(* ingest.py, module docstring: "alerts are recomputed against             *)
(* observations older than the payload, so a retry yields the same         *)
(* alerts".  The alert rows of the run are those of its first attempt;     *)
(* what a retry returns is exactly these, when payloads arrive in order.   *)
RowsOf(k) ==
  {[product |-> r.product, kind |-> r.kind, old |-> r.old, pct |-> r.pct] :
     r \in {q \in alertRows : q.run = k}}

RetryYieldsSameAlerts ==
  \A r \in results : ~r.skipped =>
    {[product |-> a.product, kind |-> a.kind, old |-> a.old, pct |-> a.pct] : a \in r.alerts}
      = RowsOf(r.key)

(* README.md: "an older payload replayed after a newer one cannot hide or  *)
(* overwrite current data".  A refresh by the run of an older payload      *)
(* keeps current every product whose summary row comes from the newest     *)
(* payload stored for the source.                                          *)
ReplayHidesNothing ==
  [][\A i \in Invocation : Refresh(i) =>
       \A p \in Product :
         (/\ summary[p].current /\ NewestStored(summary[p].cur)
          /\ SourceOf[summary[p].cur] = SourceOf[job[i]]
          /\ FetchedAt[job[i]] < FetchedAt[summary[p].cur])
         => summary'[p].current]_vars

(* README.md: "A run killed by the Lambda timeout is reclaimed by that     *)
(* retry".  The retry of an attempt that was killed at the timeout and     *)
(* made the last claim on the key does not end without a full result.      *)
TimedOutRunIsReclaimed ==
  \A i \in Invocation :
    (/\ pc[i] = "done" /\ attempt[i] = 2 /\ timedOut[i] /\ holder[job[i]] = i)
    => \E r \in results : r.key = job[i] /\ ~r.skipped
=============================================================================
