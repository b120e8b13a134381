---------------------------- MODULE UniqloFetch ----------------------------
(***************************************************************************)
(* sources/uniqlo.py: offset paging of each gender path, the stage of      *)
(* stock requests, and the parts of parse() that join pages.  An item is a *)
(* pair <<productId, priceGroup>>.                                         *)
(***************************************************************************)
EXTENDS Retailer

CONSTANTS
  SizesOf,    \* [pair -> the buyable sizes its l2s call would answer]
  Unknown     \* no stock known: every listed size counts as buyable

VARIABLES
  offset,     \* offset of the next page of the path
  stock       \* l2s stage: set of [pair, sizes], Unknown for a skipped pair

(* The gender paths; the other two are what parse() says of an item not    *)
(* seen yet and of one seen on several paths.                              *)
ASSUME UniqloAssumption ==
  "uniqlo" \in DOMAIN Walks => ToSet(Walks["uniqlo"]) \cap {"none", "UNISEX"} = {}

uniqloVars == <<offset, stock>>

Remaining == IF offset < Len(feed[Current]) THEN Len(feed[Current]) - offset ELSE 0

PageFrom(n) == {feed[Current][i] : i \in offset + 1 .. offset + n}

(* Mutants: the offset advances by the page asked for, not the page got;   *)
(* an empty page does not end the path.                                    *)
OffsetByPageSize(count) == offset + PageSize
EndedByTotal(count, total) == offset + count >= total

NextOffset(count) == offset + count

PathEnded(count, total) == count = 0 \/ offset + count >= total

(* A list page of n items: the server may return fewer than it was asked,  *)
(* or none although there are more.  What it says of the page and of the   *)
(* list counts as 0 if it is missing.                                      *)
UniqloPage(n) ==
  /\ source = "uniqlo" /\ pc = "list"
  /\ n <= PageSize /\ n <= Remaining
  /\ Answered(PageFrom(n))
  /\ \E count \in {0, n}, total \in 0..Len(feed[Current]) :
       \/ /\ PathEnded(count, total)
          /\ offset' = 0
          /\ CutShort(n < Remaining)
          /\ EndWalk("stock")
       \/ /\ ~PathEnded(count, total)
          /\ offset' = NextOffset(count)
          /\ CutShort(FALSE)
          /\ StayInWalk
  /\ UNCHANGED <<retailerVars, stock>>

(* pairs: every (productId, priceGroup) of the pages.                      *)
Pairs == UNION {r.items : r \in ToSet(requests)}

Unasked == Pairs \ {s.pair : s \in stock}

(* _fetch_l2s of one pair, with its own retries inside.  Three workers ask *)
(* for pairs at a time, but pool.map yields the answers in one order.  A   *)
(* failure skips the pair.                                                 *)
FetchStock ==
  LET pair == CHOOSE p \in Unasked : TRUE IN
  /\ source = "uniqlo" /\ pc = "stock"
  /\ Unasked # {}
  /\ \E sizes \in {SizesOf[pair], Unknown} : stock' = stock \cup {[pair |-> pair, sizes |-> sizes]}
  /\ UNCHANGED <<retailerVars, pc, walk, tries, requests, offset, truncated>>

EndStock ==
  /\ source = "uniqlo" /\ pc = "stock"
  /\ Unasked = {}
  /\ pc' = "fetched"
  /\ UNCHANGED <<retailerVars, walk, tries, requests, truncated, uniqloVars>>

-----------------------------------------------------------------------------
(* parse().                                                                *)

(* Mutant: an item seen twice is taken for one of two paths.               *)
UnisexWhenRepeated(category, w) == IF category = "none" THEN w ELSE "UNISEX"

(* existing.category not in (category, "UNISEX").                          *)
MergedCategory(category, w) ==
  IF category = "none" THEN w ELSE IF category \in {w, "UNISEX"} THEN category ELSE "UNISEX"

Category(pair) ==
  FoldLeft(LAMBDA category, r : IF pair \in r.items THEN MergedCategory(category, r.walk)
                                ELSE category, "none", requests)

(* Mutant: stock kept by product, whatever the price group.                *)
ByProduct(pair) == pair[1]

StockKey(pair) == pair

(* stock.get(pair): what the l2s requests of the payload say of the pair.  *)
Sizes(pair) ==
  LET known == {s \in stock : s.sizes # Unknown /\ StockKey(s.pair) = StockKey(pair)}
  IN  IF known = {} THEN Unknown ELSE (CHOOSE s \in known : TRUE).sizes
=============================================================================
