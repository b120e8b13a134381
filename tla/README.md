# A TLA+ model of PricePulse

PricePulse scrapes the IKEA US and UNIQLO US catalogs once a day, stores every
raw response, turns it into price observations, publishes a list of deals, and
mails digests of new deals and of price drops on watched products. This
directory holds TLA+ modules of its core logic, the TLC configurations that
check them on small instances, and TLAPS proofs, for every size of the system,
of every safety property those configurations check: of the ingestion lease, the
catalog, the alerts, the digests, the watch quotas, their backup, the deals list
and the scrape.

All source paths below are relative to the repository; Python paths start at
`src/pricepulse/`.

## 1. The system

| Component | State | Operations | Hard behaviour |
| --- | --- | --- | --- |
| scrape (`services/ingest.py` `run_scrape`, `sources/`) | none but the raw object it writes | walk a retailer's lists, ask for stock, put the payload | lists move between pages; short, empty and failing answers; a retry of the whole fetch |
| run ledger (`db/repo.py` `claim_run`, `finish_run`, `fail_run`) | `ingestion_run`: one row per raw key, `running -> succeeded or failed`, `started_at` as a lease | claim, settle | duplicate events, crashes, kills at the timeout, one retry, re-runs by hand |
| process (`services/ingest.py` `run_process`) | `product`, `price_observation`, `alert`, the materialized `product_price_summary` | two transactions, then refresh and prune outside them | payloads out of order, failure after the commit, retries that recompute |
| alerts (`classify_alerts`, `domain/pricing.py`) | none | classify one payload against history | own rows taken for history |
| notify (`services/notify.py`, `mail.py`, `digest.py`, `storage/delivery.py`) | markers under `sent/` | invalidate the CDN, send one mail per recipient, mark, report failures | no transaction spans the mail and its marker |
| watches (`services/watches.py`, `db/watches.py`, routes) | `watch` rows with token, confirmation time and client hash; `outbox/` objects | request, confirm, unsubscribe, unsubscribe all, delete | quotas under one advisory lock, beside statements that do not take it |
| mailer (`lambda_handlers/mailer.py`) | none | send one outbox message | at least once |
| read API (`api/queries.py`, routes) | none | filtered listings with a keyset cursor, cached by CloudFront | pages read across a refresh; stale cache |
| backup (`services/backup.py`) | dumps of `watch` under `backup/watch/` | dump, restore, dry run | a restore over live rows and under other product ids |

The components meet at five places. S3 turns each raw object into at least one
`process` event; Lambda retries a failed event once and then publishes it to the
alarms topic; Lambda Destinations hands the value `process` returns to `notify`,
at least once; `process` reads the confirmed watches the API writes; the API puts
confirmation messages into the outbox, whose S3 event starts the mailer.

What makes each component correct: a key has one live owner and is never
forgotten; the catalog and the current products follow payload time whatever the
processing order; a broken payload leaves no trace; alerts that are announced are
recorded; the site and the digest do not contradict each other; every recipient of
a run is mailed or reported, and not twice; listings skip and repeat nothing that
did not move; quotas hold under every interleaving and no request waits for ever;
a payload is complete for what stayed on the shelf; a token names the watch it was
drawn for, and only a click confirms, whatever is lost and restored.

## 2. The modules

| Module | Models | Extends |
| --- | --- | --- |
| `RunLedger` | `ingestion_run` and the Lambda invocations that contend for it | |
| `AlertRules` | prices, history queries, alert classification, as pure operators | |
| `PriceSummary` | the price columns of `product_price_summary`, as pure operators | `AlertRules` |
| `Ingest` | all table writes of `run_process`, composed with the ledger | `RunLedger`, `PriceSummary` |
| `Catalog` | abstract: what the product table shows of the payloads stored | |
| `Notify` | digests, delivery markers, failures | |
| `Watches` | watch requests, quotas, outbox, mail links | |
| `WatchBackup` | dumps, restores, the loss of the database, new product ids | `Watches` |
| `Listing` | the deals list, its cursor, the edge cache and a reader who walks it | |
| `Retailer` | a catalog that moves while it is read, requests and their retries | |
| `UniqloFetch`, `IkeaFetch` | the two adapters: paths, offsets, stock; categories, sort orders | `Retailer` |
| `Scrape` | `run_scrape` in its Lambda, with either adapter | `UniqloFetch`, `IkeaFetch` |
| `MCIngest`, `MCNotify`, `MCWatches`, `MCListing`, `MCScrape` | small instances, symmetry sets | the above |
| `RunLedgerProofs`, `IngestProofs`, `NotifyProofs`, `WatchProofs`, `WatchBackupProofs`, `ListingProofs`, `ScrapeProofs` | the theorems | the module they are named after, `TLAPS` |
| `AlertProofs` | the theorems about alerts, prices and what is current | `IngestProofs` |

`Ingest` instantiates `Catalog`: its actions implement the abstract specification
under the identity on `catalog`, with the history variable `applied` for `stored`.
`RunLedger` and `WatchBackup` need no definitions for their instances: their
configurations name model values and numbers only. In `MCListing` the two runs are
interchangeable.

A definition named "Mutant" in a comment is a plausible wrong version of the one
that follows it. It plays no part in the model; each property is known to fail
when one of them replaces the definition it precedes.

### RunLedger

`status`, `runId`, `nextRunId` and `claimAge` are the columns of `ingestion_run`
and its identity sequence; `claimAge` is `now() - started_at` in ticks, saturated
one past the lease since nothing distinguishes later ages. `pc` is where an
invocation of `process` is: `queued` and `backoff` are Lambda's asynchronous
queue, `started` is before `claim_run`, `claimed` inside the second transaction,
`stored`, `refreshed` and `pruned` after it, `failing` in the except block.
`holder` and `timedOut` are history variables: who made the last claim, and
whether the previous attempt ended at the timeout.

- `ClaimRun`, `SkipRun`, `RefuseRun` are the three outcomes of `claim_run`. The
  upsert locks the row even when its `WHERE` is false, so the following `SELECT`
  sees the same row and the three are atomic.
- `FinishRun` is the commit of the second transaction; `RefreshSummary` and
  `PrunePartitions` are the two autocommit statements after it; `Raise` then
  `FailRun` are the except block, with its own transaction.
- `Crash` is any end that runs no except block, or a `fail_run` that does not
  reach the database; `Kill` is the Lambda timeout. `LoseAttempt` is
  `maximum_retry_attempts = 1` with `on_failure` to the alarms topic. A manual
  re-run is synchronous: nobody retries it or raises an alarm.
- `Tick` ages the running rows and the live workers, and cannot pass the timeout
  of a live worker: Lambda's kill is punctual.

### AlertRules and Ingest

A payload is a constant (`Payload`, `FetchedAt`, `SourceOf`, `Malformed`), since
`parse` is a pure function of an object that never changes. What it lists of a
product is a `Snapshot`, typed by the CHECKs of alembic 0001: a price is not
negative and a list price, where there is one, not below it. An observation names
its product, its time and the run that inserted it; its price is the payload's.
`catalog` holds which payload a product row shows and its first and last time
seen; `applied` is the history of payloads whose rows have been written. `summary`
holds, per product, the payload of its latest observation, `is_current`, and the
price columns of alembic 0007 (`PriceColumns`: the previous price, the 90-day
baseline with its lowest, highest and modal price, the reference price, discount
and savings). Each action of `Ingest` conjoins an action of the ledger with what
that step does to the tables, so no interleaving is lost: `Ingest` implements the
ledger, which is also proved. `Subscribe` confirms or removes a watch at any time,
of a product that has a row, as the foreign key of `watch` asks.

`DistinctTimes` is the assumption that two payloads listing a common product are
of one retailer (`product` is unique per source and external id) and have
different `fetched_at`. `sources/base.py` stamps a payload with microseconds;
where two stamps did agree, the upsert's `<=` would let the payload processed
last win, and the view's run id would break the tie.

### Catalog

One action, `Store(k)`: a payload is stored for the first time, after which every
row shows the newest payload stored that lists the product, and is dated by the
oldest and the newest. To store a payload again changes nothing. That `Ingest`
implements it says what the `CASE`, `LEAST` and `GREATEST` of `upsert_products`
are for: the table depends on which payloads were stored, not on their order, nor
on retries, crashes or forced re-runs.

Percentages are integers in tenths, rounded half up as `discount_pct` does with
`ROUND_HALF_UP`, and prices are integers, so nothing is lost against `Decimal`.

### Notify

One invocation takes three steps for each recipient: the marker is looked up
(`SkipMarked` or `CheckUnmarked`), SES is called (`SesAccepts`, `SesRejects`,
`LoseSesReply`), the marker is written (`MarkSent`). `Die` covers every exception
that leaves `run_notify` and every crash. `delivered`, `inFlight` are history:
mails SES accepted, and mails that were out when an attempt ended without marking
them; `raced` holds the recipients two invocations handled at the same time.
`Marker` applies `FoldCase`, the lower-casing of `marker_key`.

### Watches

The database runs transactions READ COMMITTED, so each statement of
`request_watch` is an action, and confirmations and deletions, which do not take
the advisory lock, may happen between any two. `End` releases the lock, as the end
of a transaction does. A write and its commit are one action because the row lock
makes other writers wait. `now()` is taken to be the time of the statement; it is
really that of the transaction's start, earlier by at most the API's 29 seconds,
far below one tick. A token is named after the request that drew it, so tokens
are unique as `secrets.token_urlsafe` makes them. `links` holds
the tokens that have been mailed, which bound what a reader can click; whoever has
a token can form each of the three links from it.

### WatchBackup

`named` is the `product` table: which name (retailer and external id) an id
stands for. `Dump` is the `SELECT` of `dump_watches`, keyed by name;
`Restore` its `INSERT ... ON CONFLICT DO NOTHING` over the ids of today, beside
whatever rows there are; `DryRun` the counts of `--dry-run`. `LoseDatabase`
empties the tables and breaks the open requests, while the bucket and the mails in
inboxes stay; `Reingest` gives a name the next id that comes. The steps of
`Watches` are all there, wrapped to keep two history variables: `origin`, the
name and address a token was drawn for, and `consented`, the tokens clicked. Only
the last dump is restored: an older one is the last dump of a behaviour with fewer.

### Listing

A page of `list_deals` is a record of the cursor it was asked with, its items and
its `next_cursor`. `view` is the materialized view, reduced to the value of the
sort column and whether the row passes the filters; `inStock` is the sold-out
filter, which reads the live `product` table and so changes before the view does.
`flights` and `edge` are responses under way and pages CloudFront holds; `Fail` is
any answer but a 200, which `cache_control_for` must keep out of the edge; a run
goes through `stored`, `refreshed` and `announced`, or is `lost` when no result
reaches `notify`. `Follow` is the reader, who may be given any page of the right
cursor, of any age. `moved` is history. The order (`Before`) and the cursor's
condition (`Past`) are two definitions because they are two pieces of SQL that
must agree. The total is not modelled: a second statement counts it.

### Retailer, UniqloFetch, IkeaFetch, Scrape

A fetch is a sequence of walks, one for each list of the retailer: UNIQLO's gender
paths; IKEA's offer tags, any number of them, and then its last-chance items.
These are the constant `Walks`; a list may be of any length.
While a walk is under way its list gains and loses items anywhere (`Enter`,
`Leave`); `steady` and `removed` are history, the items that stayed throughout and
how many left. `UniqloPage(n)` answers `n` items at the offset, perhaps fewer than
were asked for or none; `FetchStock` is the concurrent stock stage, each pair of
which may fail alone. `OffersPage`, `CategoryPage` and `LastChancePage` are IKEA's
tags: offers that exceed a page are asked for again by category, a last-chance set
that does in further sort orders.

The code learns of the rest of a list from what a page says of itself, never from
the list. UNIQLO's `count` and `total` are the true ones or missing, which the code
reads as 0; IKEA's `end` likewise, its `max` any number up to the true one, since it
under-reports (`Reports`), and its CATEGORIES filter may be missing
(`CategoryFilters`). Where an answer hides a part of the list `CutShort` adds the
walk to the history variable `truncated`; the code sees nothing and goes on.
`RetryRequest` is tenacity's retry of a request,
`Raise` anything that ends the run, after which Lambda fetches from the start,
`Put` the one write. Of `parse` the parts that join pages and stock are there
(`Category`, `Sizes`, `ListedIn`).

## 3. The runs

Every run that passes explores its whole instance.

| Run | Instance | Shows |
| --- | --- | --- |
| `RunLedger` | 1 key, 2 invocations (up to 4 attempts), timeout = lease = 3 | one live owner; settlement only by the holder; the retry of a killed attempt can reclaim; nothing is abandoned in silence; every event ends |
| `Ingest_order` | 2 payloads of one retailer in either order, an operator who forces re-runs, a subscriber | `Ingest` implements `Catalog`; current products follow payload time; announced alerts are recorded, once |
| `Ingest_mixed` | 2 payloads of one retailer in order and one that is too short; of another, one that does not parse and one past the retention | no trace of broken payloads; a skip means stored; a result means published; a retry returns the alerts its first attempt recorded; the site's prices agree with the digest's alerts; retailers do not disturb each other |
| `Notify` | 2 invocations with their retries, 2 runs, 3 addresses, two of which differ in case | marked means mailed; nobody is forgotten; a second mail needs a mail in flight or an overlap |
| `Watches_quota` | 3 requests, 2 products, 2 addresses, 1 client or none | the unconfirmed quota; both hourly budgets over rows; conflicts only for confirmed watches |
| `WatchBackup` | 2 products, 2 requests for one address, one database lost, any number of dumps and restores | tokens keep their watch; only clicks confirm; a restore adds what the dry run counts and overwrites nothing; every request is answered |
| `Listing` | 3 products, one of which moves, 2 sort values, pages of 1 or 2 rows, 2 runs | products that did not move are listed exactly once; walks advance; errors are not cached; after the last invalidation the edge shows the data |
| `Scrape` | either retailer (two paths, or two offer tags and last chances), 4 items, pages of 2, 2 moves, 2 tries, 2 attempts | a payload misses at most one steady item for each that left its list, unless an answer hid a part of it; parse joins each item with its own; every run ends |

Four runs find a documented statement violated:

| Run | The statement | What happens |
| --- | --- | --- |
| `Ingest_timeout_gap` | README: a run killed by the timeout "is reclaimed by that retry" | killed after the second commit, the row is `succeeded`: the retry skips it, its alerts are never returned |
| `Ingest_replay_gap` | README: a replayed older payload "cannot hide or overwrite current data" | the newer run failed in post-processing; the replay's refresh makes its products non-current |
| `Watches_client_gap` | `watches.py`: "Only unconfirmed rows carry" the client hash | a confirmation commits between the read and the update of a resend |
| `Watches_threshold_gap` | `confirm.txt`: the reader asked for this threshold | a resend mails the new request's threshold, the row keeps the old one |

### Known limits

The passing runs state what the code does guarantee. In these places that is less
than a sentence of its documentation, or a reader of the code, might say:

- `RetryYieldsSameAlerts` needs payloads that arrive in order and a fixed set of
  watches. `ingest.py` says of any retry that it "yields the same alerts"; an
  older payload stored, or a watch confirmed, between two attempts changes them.
- `SiteAgreesWithDigest` needs payloads in order too: a digest is classified
  against what was stored then, while the site counts an older payload stored since.
- `ResentOnlyInFlight` has the disjunct `raced`. `mail.py` says a re-invocation
  "never resends what SES accepted"; the marker follows the send, and the look-up,
  the send and the marker of two invocations may interleave.
- `MarkedMeansDelivered` and `NobodyForgotten` identify addresses that differ in
  case, as `marker_key` does; digests and watches do not.
- One click on the header of a digest removes every watch of the address only
  while the watch that owns the header's token exists (`delete_all_for_token`).
- `RowBudget` is about rows, not mails: `db/watches.py` counts the watches whose
  last confirmation was queued within the hour, so a resend or a deletion lowers
  the count without taking back a mail.
- `RestoreIsExact` says that nothing is overwritten, not that nothing returns: a
  watch unsubscribed after the dump comes back, confirmed if it was, and an
  address may hold more unconfirmed watches than the quota afterwards.
- `SteadyItemsAreFetched` allows one steady item lost for each item that left the
  list during its walk, which is what offset paging gives, and excepts walks in
  which an answer hid a part of the list (`truncated`). The code takes each of these
  for complete and stores a partial payload without a word: a UNIQLO page that is
  empty, or lacks its `count` or `total`, before the end of the path (`uniqlo.py:72`);
  an offers page, or a first page of last chances, of a list that is longer than the
  page while the reported `max` does not exceed `end` (`ikea.py:69`, `:80`; `max` is
  known to under-report); a capped offers page without its CATEGORIES filter
  (`:37`); a category that itself exceeds a page, which is not checked again
  (`:70`); and last chances of more than two pages, which the further sort orders
  need not cover. Only the product floor of `process` notices, if the loss is large.
  The model takes the items of a page as the endpoint's true answer: a page without
  `items` and without `max`, which `parse` takes for an empty list, is not modelled.
- `EdgeFollowsData` excepts pages that were under way during an invalidation.

### Bounds

- One key is enough for the ledger's lease, since no action of a key reads
  another's row; two invocations give a worker and a contender, with up to four
  attempts. The theorems remove both bounds.
- Timeout and lease are 3 ticks, the retry delay 2, the latest claim at tick 1:
  the smallest values at which a claim, a kill and an expiry fall on different
  ticks, with `Timeout + RetryDelay` only one tick above `Lease + ClaimDelay`. In
  `Ingest`, whose properties do not depend on durations, all are 1 or 0.
- Two payloads of a retailer, a product that leaves the feed, one whose price
  drops and one that stays, and a second retailer, exhibit both orders of
  processing and every branch of the classification except ties of time.
- Three requests: one holds the lock, one waits, one is between its commit and
  its put. The quotas are 1 or 2, so that one request too many exists. Ages
  saturate at `Window`, and `ResendAfter` is far enough below it for a resend
  within the hour.
- Two invocations of `notify` are enough for an overlap, a duplicate and a replay
  by hand beside a retry; each has two recipients at most.
- Three products give a page boundary inside a tie and on both sides of the one
  product that moves (`Movable`); that product may move in each of the two runs.
  One cached page and one under way suffice for a walk to meet any page of any
  age, since it reads one at a time.
- Two products, two requests of one address and one lost database (`MaxLosses`)
  let the two names swap ids between a dump and its restore, with a request open
  before, between or after, and a second restore over the rows of the first. The
  proofs remove these bounds.
- Four items on pages of two (`PageSize`) need two pages; three of them are of one
  category, so that a category too may exceed its page, and one offer tag starts
  empty. Last chances of more than two pages need five items, a number TLC does not
  finish in reasonable time: that branch is in the proof only. Two moves
  of the lists in a run (`MaxMoves`) shift a boundary either way, or both; two
  tries of a request (`MaxTries`; the code has 3) have a retry and an exhausted
  one; two attempts are Lambda's own. `BaselineFrom` is the day 90 days before
  the refresh: 0 keeps all payloads in the baseline, 1 leaves the oldest out.
- `CHECK_DEADLOCK FALSE` stands in `Notify.cfg` and `Scrape.cfg`: invocations and
  the one scrape are finite and nothing else moves, so the system may stop.

### Fairness

`RunLedger` assumes that time passes and that Lambda dispatches queued
events, kills at the timeout and retries; nothing is assumed of the worker, which
may hang at any step. This is what the platform guarantees, and the property holds
from it alone. `BackupSpec` assumes weak fairness of each request's next
statement: the database executes a statement that is not blocked. It needs no
strong fairness of the lock, because requests are finite and every end of a
transaction releases it. Failures, readers, operators and time are not fair.
`Scrape` assumes weak fairness of the worker: a request is answered or fails at
the client's timeout of 20 seconds, and the code goes on. The retailer's moves and
the failures are not fair, and an endless server is no assumption: the guards that
end the loops are the code's.

## 4. The proofs

Each theorem holds for any values of the constants that satisfy the named
assumptions of the modules: any numbers of keys, payloads, invocations, products,
addresses, requests, pages and failures.

Every safety property of a passing run, invariant or action property, is stated
by one of them.

### The ledger

| Theorem of `RunLedgerProofs` | Statement | Needs |
| --- | --- | --- |
| `TypeCorrect` | `LedgerSpec => []TypeOK` | `LedgerAssumption` |
| `OneOwner` | `LedgerSpec => []OneLiveOwner` | also `LeaseCoversTimeout` |
| `SettledByItsHolder` | `LedgerSpec => SettledByHolder` | also `LeaseCoversTimeout` |
| `NothingAbandonedInSilence` | `LedgerSpec => []NoSilentlyAbandonedRun` | `LedgerAssumption` |
| `TimedOutRunWaitsForItsRetry` | `LedgerSpec => []TimedOutRunIsClaimable` | also `Timeout + RetryDelay > Lease + ClaimDelay` |

`OneLiveOwner` is not inductive: from a state in which a running row looks expired
while its worker is alive, a second claim breaks it. The strengthening `OwnerInv`
adds two facts. `ClockInv`: a live worker's elapsed time is at most the timeout.
`ClaimInv`: a worker that owns a key made its last claim, the row's status shows
how far the worker got, and the age of a running row is at most the worker's
elapsed time. Hence an expired row has no live owner: its owner would have run
longer than the lease, and so longer than the timeout. `SettleInv` adds that an
invocation which has not run yet holds nothing (`FreshInv`) and that the holder of
a key works for that key, is done only if the key succeeded, and was dropped only
with an alarm (`HolderInv`). `TimeoutInv` adds `RetryInv`, which relates the age
of a claim whose attempt was killed to the time its retry has waited; there the
last assumption is used, and it is the arithmetic behind the comment in
`functions.tf` that a longer lease leaves a killed run unclaimable by its retry.

### Ingestion

| Theorem of `IngestProofs` | Statement |
| --- | --- |
| `ImplementsLedger` | `Spec => LedgerSpec`, so that `IngestOneOwner` and `IngestAbandonsNothing` follow for the composed system |
| `CatalogFollowsPayloadTime` | `SpecWithOperator => ImplementsCatalog` |
| `SkippedRunsAreStored` | `SpecWithOperator => []SkippedMeansStored` |
| `ReportedRunsArePublished` | `SpecWithOperator => []ReportedRunIsPublished` |
| `AlertsAreRecordedOnce` | `SpecWithOperator => []AnnouncedAlertsAreRecorded` |
| `BrokenPayloadsLeaveNoTrace` | `SpecWithOperator => []BrokenPayloadLeavesNoTrace` |

They need `LedgerAssumption`, `IngestAssumption` and, for the catalog,
`DistinctTimes`; none needs the lease, since the tables are right even when two
workers share a key. The invariants form a chain. `ControlInv`: a key is `applied`
once its row succeeded or a worker is past its second transaction, and only
publishable payloads are. `CatalogInv` adds that every row of `catalog` is what
`Catalog` promises of `applied`: a step that upserts maps to `Store` the first
time and to a stutter afterwards, which is where `DistinctTimes` is used.
`StoreInv` adds that observations belong to applied payloads and that each applied
payload within the retention has its own. `ResultInv` adds that a worker past the
refresh finds its payload `Published`, which later refreshes preserve because a
finite set of observations has a latest time. `AlertInv` adds that a draft of a
worker is recorded from its transaction on, whoever inserted the row.

### Alerts, prices and what is current

| Theorem of `AlertProofs` | Statement | Beyond the assumptions of Ingestion |
| --- | --- | --- |
| `IngestTypeCorrect` | `SpecWithOperator => []IngestTypeOK` | |
| `NewestPayloadIsCurrent` | `SpecWithOperator => CurrentIsNewestPayload` | |
| `RetriesYieldSameAlerts` | `SpecWithOperator => []RetryYieldsSameAlerts` | `InOrder`, no watches |
| `RetriesSeeTheSameWatches` | `Spec => []RetryYieldsSameAlerts` | `InOrder`, `[][WatchesRest]_vars` |
| `DigestAgreesWithSite` | `SpecWithOperator => []SiteAgreesWithDigest` | `InOrder`, `FetchedBeforeNow` |

The invariants go on from those of `IngestProofs`. `TablesInv`: histories are
finite sets of whole payloads, so the alerts computed from them are typed
(`AlertsTyped`), which the type invariant needs. A refresh then shows of each
product its latest observation, and calls it current if its payload is the newest
stored (`RefreshShowsNewest`), whatever the order of storing.

The last three hold while payloads arrive in order, and `InOrder` says when they
do: a payload that has an older one with a common product is `Punctual`, so that it
arrives only after the older one succeeded, and the older one is within the
retention. Both properties fail otherwise (see Known limits). Then the observations
older than a payload are the same at each of its attempts: exactly what the older
payloads say (`Past`, `PriorIsPast`). So the alerts classified are
`Due(k, ws)`, a function of the payloads and of the watches read (`OrderInv`), and
the rows of a run are those of one such set (`RowsInserted`: inserting
the same alerts again adds nothing). `ReplayInv` says so without watches, under
forced re-runs as well; `RestInv` with them, provided nobody confirms or removes a
watch while a payload is stored but its run is not settled (`WatchesRest`): a
run that has settled is never claimed again (`SettledForGood`), so the watches that
its next attempt reads are those its first one read. `SiteInv` says that the price
columns are a function of the same `Past`; `FetchedBeforeNow`, that a payload is
not from the future, makes the summary's baseline (90 days from now) a part of the
digest's window (90 days from the payload). Hence the site shows the discount of a
new deal and the drop of the others, from no higher a peak. TLC checks both
properties on payloads that satisfy these hypotheses (`Ingest_mixed`).

### Notify

| Theorem of `NotifyProofs` | Statement |
| --- | --- |
| `TypeCorrect` | `Spec => []TypeOK` |
| `MarkersAreTrue` | `Spec => []MarkedMeansDelivered` |
| `EverybodyIsCovered` | `Spec => []NobodyForgotten` |
| `NoOtherSecondMail` | `Spec => []ResentOnlyInFlight` |

`MarkInv` adds that an invocation about to write a marker has had its mail
accepted. `CoverInv` says of each invocation that every recipient it has put
behind it was mailed or failed, and that its failures are in the report when it
ends. `OnceInv` says where a mail without a marker can be: with the invocation
that is about to mark it, or in `inFlight`; from the second look-up on, two
invocations at one recipient are in `raced`.

### Watches and their backup

| Theorem | Statement |
| --- | --- |
| `WatchProofs.TypeCorrect` | `Spec => []TypeOK` |
| `QuotaHolds` | `Spec => []PendingQuota` |
| `ConflictsAreConfirmed` | `Spec => ConflictMeansConfirmed` |
| `BudgetHolds` | `Spec => []RowBudget` |
| `WatchBackupProofs.TokensKeepTheirMeaning` | `BackupSpec => []TokensKeepTheirWatch` |
| `OptInSurvivesRestore` | `BackupSpec => []ConfirmedByClick` |
| `RestoreAddsWhatItAnnounces` | `BackupSpec => RestoreIsExact` |

They need `WatchAssumption` and `BackupAssumption`. What a request reads under
the advisory lock must still hold when it writes, although confirmations and
deletions go on meanwhile. `LockInv` says that a request between its lock and its
end holds it, so that nobody else inserts or renews a row; `ClearPath` and
`Afforded` say that what it has seen, no pending watch, a count below the quota,
a budget not spent, still holds; each step either carries the rows over without
adding to a count (`Descend`, `NotRenewed`) or inserts or touches one row. That a
touch renews one row only is `TokenInv`: a token is drawn once. The counts are
compared through images and subsets of finite sets.

For the backup, `BackupInv` says of a row and of an entry of the dump alike that
it is what its token was drawn for, that the token was spent by a request that
will not draw it again, and that it is confirmed only if clicked. A restored watch
cannot share its token with a row: both would have the token's name and address,
hence, ids being unique, one product, and the insertion would have met the
conflict. For the counts, `CountInv` adds that finitely many requests were ever
made: entries have tokens of their own, so the dump is finite, and its restorable
entries are in bijection with the watches a restore inserts.

### Listing

| Theorem of `ListingProofs` | Statement |
| --- | --- |
| `ListingTypeCorrect` | `Spec => []ListingTypeOK` |
| `WalksAreComplete` | `Spec => []UnmovedListedOnce` |
| `WalksAdvance` | `Spec => WalkAdvances` |
| `EdgeIsCurrent` | `Spec => []EdgeFollowsData` |

They need `ListingAssumption` and `CursorAssumption`. The order with its tie-break
is a strict total order on cursors, and the SQL condition of the cursor is that
order (`TotalOrder`); a page of the origin holds the visible rows between its
cursor and its next cursor (`PageOfTheOrigin`). `PagesInv` carries that to pages
of any age, for the products that never moved: their keys are what they were when
the page was made. `WalkInv` is the strengthening: an unmoved visible product has
been listed exactly once if it lies up to the walk's cursor, else not at all.
`EdgeInv` extends the property to responses under way.

### Scrape

| Theorem of `ScrapeProofs` | Statement |
| --- | --- |
| `ScrapeTypeCorrect` | `Spec => []ScrapeTypeOK` |
| `SnapshotsAreJoined` | `Spec => []SnapshotsJoinTheirOwn` |
| `SteadyItemsFetched` | `Spec => []SteadyItemsAreFetched` |

They hold for any items and lists, pages of any size, and any numbers of walks,
moves, tries and attempts. `RetailerAssumption` says that a retailer's walks are
distinct, `UniqloAssumption` that no path is called "none" or "UNISEX",
`IkeaAssumption` that the last walk of IKEA is the last chances, and
`ScrapeAssumption` that UNIQLO and IKEA are the retailers.

`SnapshotsAreJoined`: `parse` folds over the pages of a payload. The fold is what
its closed form says (`ByWalks`): an item is of the path that lists it, and of
"UNISEX" if several do. That holds of every set of pages because a smallest set for
which it failed would have a smaller one (`WFMin` of the library). `StockInv` adds
that each stock answer is that of its own pair, or unknown.

`SteadyItemsFetched` is the argument for offset paging. Let `Ahead` be what of the
list is still to be read: for UNIQLO what follows the offset, for IKEA the whole
list at first, then the categories still to be asked for, or all but the cheapest
page of the last chances. `UnderWayInv` says that the steady items, those in the
list since the walk began, that were neither fetched nor lie ahead are at most as
many as the items that left. An item that enters pushes others to the far side of
the offset or leaves them there, and loses none (`RestOfInserted`); an item that
leaves before the offset moves one item up past it (`RestOfRemoved`), one
departure for one loss. A page moves the offset by what it brought, so what it
takes from `Ahead` it has fetched (`FirstPageTakes`); a short page moves it by
less. For IKEA, `CategoryPageTakes` and `DearestTakes` say that the categories that
fit a page, or the cheapest and the dearest items of at most two pages, cover a list
that does not fit one. Each of these lemmas has a length as its premise, and where it
fails the answer hid a part of the list: `UnderWayInv` is then met because the walk
is in `truncated`, where it stays. Nothing is assumed of the endpoints' limits or of
what they report. `UnreadInv` says that the steady items of walks to come are on
their lists, and `OverInv` carries the bound of a walk that is over to the payload.

### Only model-checked

Liveness: `EveryEventSettles` of `RunLedger`, `EveryRequestAnswered` of
`WatchBackup` and `ScrapeEnds` of `Scrape`. Fairness and `ENABLED` are outside
TLAPS. The four statements that runs find violated are refuted by a
counterexample and need no proof.

## 5. What is not modelled

The fields of a snapshot (names, prices, images, labels), HTML and mail rendering,
filters and totals of the read API, IAM and Terraform beyond timeouts, retries and
destinations, connection start-up and migrations: sequential code or declarations
whose mistakes a unit test reaches. Identity values burnt by conflicting inserts
are left out: only the order of the ids is used. Row locks of concurrent upserts
are not modelled; a deadlock Postgres resolves appears as a raised error.
`ForceFailed` (the runbook's forced re-run) is in `SpecWithOperator` only: forcing
a key whose worker is still post-processing gives it two owners. The expiry of
raw objects, markers and dumps in the bucket, and the mailer's own batches and
retries, are left out: a mailer may send a message any number of times.

## 6. Plan

What is left, in order:

1. `Pipeline`: an abstract specification of a day (a payload is published once
   and its digests go out or are alarmed), implemented by `Ingest` and `Notify`
   together; today they meet in the shape of a result only.
2. Lemmas about `AlertRules` and `PriceSummary` that stand for themselves: the
   bounds and the rounding of a percentage, and that the baseline's columns are
   of its own prices; `SiteAgreesWithDigest` compares the two modules with each
   other.
3. The total of a listing beside its page, which two statements read.
