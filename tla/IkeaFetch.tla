----------------------------- MODULE IkeaFetch -----------------------------
(***************************************************************************)
(* sources/ikea.py: each offer tag, by category if it exceeds a page, and  *)
(* the last-chance items as the union of up to four sort orders, since the *)
(* endpoint has no offset.  An item is <<item number, category>>; a list   *)
(* is in price order.  Whether a list exceeds a page is what the page says *)
(* of itself, and its `max` under-reports.                                 *)
(***************************************************************************)
EXTENDS Retailer

VARIABLES
  categories, \* categories still to be asked for, or {} before the first page
  sorts       \* sort orders of the last-chance list asked so far

(* The walks of IKEA are the offer tags of the index page, then the last   *)
(* chances.                                                                *)
ASSUME IkeaAssumption ==
  "ikea" \in DOMAIN Walks => Walks["ikea"][Len(Walks["ikea"])] = "LAST_CHANCE"

ikeaVars == <<categories, sorts>>

(* The positions of a list that hold an item of category c.                *)
OfCategory(list, c) == {i \in DOMAIN list : list[i][2] = c}

(* The first page of the items at some positions, by price from the lowest *)
(* and from the highest.                                                   *)
Cheapest(list, positions) ==
  {list[i] : i \in {j \in positions : Cardinality({k \in positions : k < j}) < PageSize}}

Dearest(list) == {list[i] : i \in {j \in DOMAIN list : j > Len(list) - PageSize}}

FirstPage(list) == Cheapest(list, DOMAIN list)

Exceeds(list, pages) == Len(list) > pages * PageSize

(* What a page may report of itself: the number of items up to its end and *)
(* of all that match.  Either counts as 0 if it is missing; the latter may *)
(* be any number up to the true one.                                       *)
Reports(list) == [end : {0, Cardinality(FirstPage(list))}, max : 0..Len(list)]

Capped(report) == report.end < report.max

(* The values of the CATEGORIES filter with a count; a page may come       *)
(* without the filter.                                                     *)
CategoriesNow == {it[2] : it \in ToSet(feed[Current])}
CategoryFilters == {CategoriesNow, {}}

(* Mutant: categories are asked for only when the page is not full.        *)
CategoriesIfShort(report, filter) == IF Capped(report) THEN {} ELSE filter

CategoriesToAsk(report, filter) == IF Capped(report) THEN filter ELSE {}

OffersPage ==
  LET list == feed[Current] IN
  /\ source = "ikea" /\ pc = "list" /\ Current # "LAST_CHANCE"
  /\ categories = {}
  /\ Answered(FirstPage(list))
  /\ \E report \in Reports(list), filter \in CategoryFilters :
       /\ categories' = CategoriesToAsk(report, filter)
       /\ CutShort(Exceeds(list, 1) /\ (~Capped(report) \/ filter = {}))
  /\ IF categories' = {} THEN EndWalk("fetched") ELSE StayInWalk
  /\ UNCHANGED <<retailerVars, sorts>>

(* Within a category the page is not checked again.                        *)
CategoryPage(c) ==
  /\ source = "ikea" /\ pc = "list" /\ Current # "LAST_CHANCE"
  /\ c \in categories
  /\ Answered(Cheapest(feed[Current], OfCategory(feed[Current], c)))
  /\ CutShort(Cardinality(OfCategory(feed[Current], c)) > PageSize)
  /\ categories' = categories \ {c}
  /\ IF categories' = {} THEN EndWalk("fetched") ELSE StayInWalk
  /\ UNCHANGED <<retailerVars, sorts>>

(* Mutant: the second order starts at the same end as the first.           *)
CheapestTwice(k, list) == {FirstPage(list)}

(* LAST_CHANCE_SORTS: by price from either end, then by age and relevance, *)
(* which may return any page of the list.                                  *)
SortedPages(k, list) ==
  CASE k = 1 -> {FirstPage(list)}
    [] k = 2 -> {Dearest(list)}
    [] OTHER -> kSubset(Cardinality(FirstPage(list)), ToSet(list))

NumberOfSorts == 4

(* The first two orders show the two ends of the list.                     *)
LastChancePage ==
  LET list == feed[Current] IN
  /\ source = "ikea" /\ pc = "list" /\ Current = "LAST_CHANCE"
  /\ \E items \in SortedPages(sorts + 1, list) : Answered(items)
  /\ sorts' = sorts + 1
  /\ \E report \in Reports(list) :
       /\ CutShort(\/ sorts = 0 /\ Exceeds(list, 1) /\ ~Capped(report)
                   \/ sorts = 1 /\ Exceeds(list, 2))
       /\ IF ~Capped(report) \/ sorts + 1 = NumberOfSorts THEN EndWalk("fetched") ELSE StayInWalk
  /\ UNCHANGED <<retailerVars, categories>>
=============================================================================
