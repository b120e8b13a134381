---------------------------- MODULE PriceSummary ----------------------------
(***************************************************************************)
(* The price columns of product_price_summary (alembic 0007), from the     *)
(* observations of one product: a set of [run, at, price, list, flag].     *)
(***************************************************************************)
EXTENDS AlertRules, FiniteSets

(* Mutant: the current observation is its own predecessor.                 *)
EarlierOrSame(observations, cur) == {o \in observations : o.at <= cur.at}

(* o.observed_at < cur.observed_at.                                        *)
Earlier(observations, cur) == {o \in observations : o.at < cur.at}

(* The baseline: earlier observations since now() - 90 days.               *)
Baseline(observations, cur, since) == {o \in Earlier(observations, cur) : o.at >= since}

Prices(observations) == {o.price : o \in observations}

Lowest(prices) ==
  IF prices = {} THEN NoPrice ELSE CHOOSE v \in prices : \A u \in prices : v <= u

Highest(prices) ==
  IF prices = {} THEN NoPrice ELSE CHOOSE v \in prices : \A u \in prices : u <= v

(* mode() WITHIN GROUP (ORDER BY price): the lowest of the most frequent.  *)
ModePrice(observations) ==
  LET times(v) == Cardinality({o \in observations : o.price = v})
  IN  Lowest({v \in Prices(observations) : \A u \in Prices(observations) : times(u) <= times(v)})

(* COALESCE(cur.list_price, ref.mode_price).                               *)
ReferencePrice(cur, baseline) == IF cur.list # NoPrice THEN cur.list ELSE ModePrice(baseline)

PreviousPrice(observations, cur) ==
  LET earlier == Earlier(observations, cur)
  IN  IF earlier = {} THEN NoPrice ELSE LatestOf(earlier).price

(* GREATEST ignores the NULL of a product without a reference.             *)
Savings(price, reference) == IF reference > price THEN reference - price ELSE 0

PriceColumns(observations, since) ==
  LET cur == LatestOf(observations)
      baseline == Baseline(observations, cur, since)
      reference == ReferencePrice(cur, baseline)
  IN  [price |-> cur.price, reference |-> reference,
       discount |-> DiscountPct(cur.price, reference),
       savings |-> Savings(cur.price, reference),
       previous |-> PreviousPrice(observations, cur),
       lowest |-> Lowest(Prices(baseline)), highest |-> Highest(Prices(baseline)),
       seen |-> Cardinality(baseline) + 1]
=============================================================================
