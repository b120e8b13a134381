----------------------------- MODULE AlertRules -----------------------------
(***************************************************************************)
(* Pricing and alert classification: domain/pricing.py discount_pct,       *)
(* db/repo.py latest_observations and services/ingest.py classify_alerts.  *)
(*                                                                         *)
(* Prices are integers in any unit, percentages are in tenths of a percent *)
(* (the code's one decimal), times are days.  A snapshot is a record       *)
(* [price, list, flag]; the history of a product is a set of observations  *)
(* [at, price, flag]; a watch is a record [product, email, min].           *)
(***************************************************************************)
EXTENDS Integers

(* list_price IS NULL.                                                     *)
NoPrice == -1

(* round(100 * (1 - price / reference), 1), half up, in tenths.            *)
DiscountPct(price, reference) ==
  IF reference = NoPrice \/ reference <= price \/ reference = 0
  THEN 0
  ELSE (2000 * (reference - price) + reference) \div (2 * reference)

-----------------------------------------------------------------------------
(* Mutant: the payload's own rows taken for history.                       *)
PriorOrSame(history, at) == {o \in history : o.at <= at}

(* latest_observations: strictly older than the payload, so that a retried *)
(* run compares against history and not against its own rows.              *)
Prior(history, at) == {o \in history : o.at < at}

LatestOf(observations) ==
  CHOOSE o \in observations : \A q \in observations : q.at <= o.at

(* The highest price of the window before the payload; the previous price  *)
(* when the window is empty.                                               *)
PeakPrice(prior, at, window) ==
  LET inWindow == {o \in prior : o.at >= at - window}
      from == IF inWindow = {} THEN {LatestOf(prior)} ELSE inWindow
  IN  (CHOOSE o \in from : \A q \in from : q.price <= o.price).price

-----------------------------------------------------------------------------
Alert(kind, product, old, pct, emails) ==
  [kind |-> kind, product |-> product, old |-> old, pct |-> pct, emails |-> emails]

(* The first observation of a product is a deal only against a list price. *)
NewDeals(product, snap, threshold) ==
  LET pct == DiscountPct(snap.price, snap.list) IN
  {a \in {Alert("new_deal", product, snap.list, pct, {})} :
     snap.list # NoPrice /\ pct >= threshold}

(* A drop is an event: the price fell since the last observation; its size *)
(* is measured from the recent peak.                                       *)
Dropped(snap, before) == snap.price < before.price

PriceDrops(product, snap, before, peak, threshold) ==
  LET pct == DiscountPct(snap.price, peak) IN
  {a \in {Alert("price_drop", product, peak, pct, {})} :
     Dropped(snap, before) /\ pct >= threshold}

RetailerFlags(product, snap, before, peak) ==
  LET reference == IF snap.list \in {NoPrice, 0} THEN peak ELSE snap.list
      pct == DiscountPct(snap.price, reference)
  IN  {a \in {Alert("retailer_flag", product, before.price, pct, {})} :
         snap.flag /\ ~before.flag}

WatchHits(product, snap, before, peak, watches) ==
  LET pct == DiscountPct(snap.price, peak)
      hits == {w \in watches : w.product = product /\ pct >= w.min}
  IN  {a \in {Alert("watch_hit", product, peak, pct, {w.email : w \in hits})} :
         Dropped(snap, before) /\ hits # {}}

(* classify_alerts for one product of the payload fetched at `at`.         *)
ClassifyAlerts(product, snap, history, at, watches, threshold, window) ==
  LET prior == Prior(history, at)
      before == LatestOf(prior)
      peak == PeakPrice(prior, at, window)
  IN  IF prior = {}
      THEN NewDeals(product, snap, threshold)
      ELSE PriceDrops(product, snap, before, peak, threshold)
           \cup RetailerFlags(product, snap, before, peak)
           \cup WatchHits(product, snap, before, peak, watches)
=============================================================================
