------------------------------ MODULE Listing ------------------------------
(***************************************************************************)
(* The deals list: api/queries.py list_deals with its keyset cursor, the   *)
(* CloudFront cache in front of it, and a reader who walks its pages while *)
(* runs replace the data and invalidate the cache.                         *)
(*                                                                         *)
(* All pages are those of one query: other filters, sorts and limits have  *)
(* other cache keys, and a cursor is refused by a query of another sort.   *)
(* The filters are abstracted to whether a row matches, the sort column to *)
(* its value.  Rows come from the materialized view, but the sold-out      *)
(* filter reads the product table, which a run changes before it refreshes *)
(* the view.                                                               *)
(***************************************************************************)
EXTENDS Naturals, FiniteSets

CONSTANTS
  Product,   \* product ids, which break ties in the order
  Value,     \* values of the sort column
  Limit,     \* page sizes asked for
  MaxLimit,  \* MAX_LIMIT
  Movable,   \* bound: products whose data the runs change
  Run,       \* runs that store, refresh and invalidate; bounds their number
  MaxPages,  \* bound: pages held by the edge at a time
  MaxFlights,\* bound: responses under way at a time
  NoCursor

ASSUME ListingAssumption ==
  /\ Product \subseteq Nat /\ IsFiniteSet(Product)
  /\ Movable \subseteq Product
  /\ Value \subseteq Nat
  /\ Limit \subseteq Nat
  /\ MaxLimit \in Nat \ {0}

VARIABLES
  query,    \* the reader's query: [desc, limit]
  view,     \* product_price_summary: [Product -> [value, match]]
  inStock,  \* products that pass the sold-out filter (product.variants)
  stage,    \* [Run -> how far the run got]
  edge,     \* pages CloudFront holds
  flights,  \* responses of the origin on their way to a visitor and the edge
  cursor,   \* where the reader's walk is
  over,     \* the reader got a page without next_cursor
  listed,   \* [Product -> how often the walk listed it]
  moved     \* history: products whose sort value or visibility ever changed

dataVars == <<view, inStock, stage, moved>>
walkVars == <<cursor, over, listed>>
vars == <<query, dataVars, edge, flights, walkVars>>

Row == [value : Value, match : BOOLEAN]
Cursor == [value : Value, id : Product]
Stage == {"waiting", "stored", "refreshed", "announced", "lost"}

ASSUME CursorAssumption == NoCursor \notin Cursor

-----------------------------------------------------------------------------
(* list_deals.                                                             *)

(* limit = max(1, min(f.limit, MAX_LIMIT)).                                *)
PageSize ==
  IF query.limit > MaxLimit THEN MaxLimit ELSE IF query.limit < 1 THEN 1 ELSE query.limit

Visible == {p \in Product : view[p].match /\ p \in inStock}

Key(p) == [value |-> view[p].value, id |-> p]

Sooner(v, w) == IF query.desc THEN v > w ELSE v < w

(* ORDER BY col direction, s.product_id ASC.                               *)
Before(k, l) == Sooner(k.value, l.value) \/ (k.value = l.value /\ k.id < l.id)

(* Mutants: no tie-break, and a cursor that includes its own row.          *)
PastByValue(k, c) == Sooner(c.value, k.value)
PastOrAt(k, c) == Sooner(c.value, k.value) \/ (c.value = k.value /\ c.id <= k.id)

(* The keyset condition: col op :c_v OR (col = :c_v AND product_id > :c_id). *)
Past(k, c) == Sooner(c.value, k.value) \/ (c.value = k.value /\ c.id < k.id)

(* The first n rows of a set in order.                                     *)
First(S, n) == {p \in S : Cardinality({q \in S : Before(Key(q), Key(p))}) < n}

Last(S) == CHOOSE p \in S : \A q \in S : q = p \/ Before(Key(q), Key(p))

(* Mutant: a cursor without the product id.                                *)
ValueCursor(S) == [value |-> view[Last(S)].value, id |-> 0]

(* encode_cursor of the last row returned.                                 *)
CursorAfter(S) == Key(Last(S))

(* One row more than the page is read: it tells whether there is a next    *)
(* page.                                                                   *)
ListDeals(c) ==
  LET rows == {p \in Visible : c = NoCursor \/ Past(Key(p), c)}
      items == First(rows, PageSize)
  IN [from |-> c, items |-> items,
      next |-> IF Cardinality(rows) > PageSize THEN CursorAfter(items) ELSE NoCursor,
      ok |-> TRUE, late |-> FALSE]

-----------------------------------------------------------------------------
Init ==
  /\ query \in [desc : BOOLEAN, limit : Limit]
  /\ view \in [Product -> Row]
  /\ inStock = Product
  /\ stage = [r \in Run |-> "waiting"]
  /\ edge = {}
  /\ flights = {}
  /\ cursor = NoCursor
  /\ over = FALSE
  /\ listed = [p \in Product |-> 0]
  /\ moved = {}

(* Visitors and the edge.                                                  *)

(* Cursors in hand: the reader's, and those of visitors who are anywhere   *)
(* else in the list as it is.                                              *)
Held == {NoCursor, cursor} \cup {Key(p) : p \in Visible}

(* A request that misses: the origin answers from the tables as they are.  *)
Fetch(c) ==
  /\ Cardinality(flights) < MaxFlights
  /\ flights' = flights \cup {ListDeals(c)}
  /\ UNCHANGED <<query, dataVars, edge, walkVars>>

(* The database does not answer (503), a cursor or a parameter is refused  *)
(* (422), or the handler raises (500): a page of another status.           *)
ErrorPage(c) == [from |-> c, items |-> {}, next |-> NoCursor, ok |-> FALSE, late |-> FALSE]

Fail(c) ==
  /\ Cardinality(flights) < MaxFlights
  /\ flights' = flights \cup {ErrorPage(c)}
  /\ UNCHANGED <<query, dataVars, edge, walkVars>>

(* Mutant: the middleware looks at the path only.                          *)
AnyStatus(pg) == TRUE

(* cache_control_for: s-maxage for a 200 of these paths, no-store for all  *)
(* other answers, those of the exception handlers included.                *)
Cacheable(pg) == pg.ok

(* The response reaches its visitor; the edge keeps it, unless it is told  *)
(* or chooses not to (no-store, an eviction).                              *)
Arrive(pg) ==
  /\ flights' = flights \ {pg}
  /\ \/ UNCHANGED edge
     \/ Cacheable(pg) /\ Cardinality(edge) < MaxPages /\ edge' = edge \cup {pg}
  /\ UNCHANGED <<query, dataVars, walkVars>>

(* s-maxage, or an eviction.                                               *)
Expire(pg) ==
  /\ edge' = edge \ {pg}
  /\ UNCHANGED <<query, dataVars, flights, walkVars>>

(* The reader follows next_cursor and gets a page of the edge or a fresh   *)
(* one; after an error the reader is where it was and may try again.       *)
Follow(pg) ==
  /\ ~over
  /\ pg.ok
  /\ pg.from = cursor
  /\ listed' = [p \in Product |-> IF p \in pg.items THEN listed[p] + 1 ELSE listed[p]]
  /\ cursor' = pg.next
  /\ over' = (pg.next = NoCursor)
  /\ UNCHANGED <<query, dataVars, edge, flights>>

(* The runs.                                                               *)

(* Transaction 2: the product rows, with their variants, change.           *)
StoreRun(r) ==
  /\ stage[r] = "waiting"
  /\ inStock' \in {(inStock \ Movable) \cup S : S \in SUBSET Movable}
  /\ stage' = [stage EXCEPT ![r] = "stored"]
  /\ moved' = moved \cup (inStock \ inStock') \cup (inStock' \ inStock)
  /\ UNCHANGED <<query, view, edge, flights, walkVars>>

RefreshSummary(r) ==
  /\ stage[r] = "stored"
  /\ view' \in [Product -> Row]
  /\ \A p \in Product \ Movable : view'[p] = view[p]
  /\ stage' = [stage EXCEPT ![r] = "refreshed"]
  /\ moved' = moved \cup {p \in Product : view'[p] # view[p]}
  /\ UNCHANGED <<query, inStock, edge, flights, walkVars>>

(* Mutant: the invalidation of "/" only.                                   *)
FirstPages == {pg \in edge : pg.from = NoCursor}

(* create_invalidation of "/*".                                            *)
Invalidated == edge

(* notify: the result of a run whose refresh is done drops every page.     *)
InvalidateCdn(r) ==
  /\ stage[r] = "refreshed"
  /\ edge' = edge \ Invalidated
  /\ flights' = {[pg EXCEPT !.late = TRUE] : pg \in flights}
  /\ stage' = [stage EXCEPT ![r] = "announced"]
  /\ UNCHANGED <<query, view, inStock, moved, walkVars>>

(* The run fails for good, or its retry finds it processed: no result, no  *)
(* invalidation.                                                           *)
LoseRun(r) ==
  /\ stage[r] \in {"stored", "refreshed"}
  /\ stage' = [stage EXCEPT ![r] = "lost"]
  /\ UNCHANGED <<query, view, inStock, moved, edge, flights, walkVars>>

Next ==
  \/ \E c \in Held : Fetch(c) \/ Fail(c)
  \/ \E pg \in flights : Arrive(pg)
  \/ \E pg \in edge : Expire(pg)
  \/ \E pg \in edge \cup flights : Follow(pg)
  \/ \E r \in Run : StoreRun(r) \/ RefreshSummary(r) \/ InvalidateCdn(r) \/ LoseRun(r)

Spec == Init /\ [][Next]_vars

-----------------------------------------------------------------------------
(* Properties.                                                             *)

Page == [from : Cursor \cup {NoCursor}, items : SUBSET Product,
         next : Cursor \cup {NoCursor}, ok : BOOLEAN, late : BOOLEAN]

ListingTypeOK ==
  /\ query \in [desc : BOOLEAN, limit : Limit]
  /\ view \in [Product -> Row]
  /\ inStock \subseteq Product
  /\ stage \in [Run -> Stage]
  /\ edge \subseteq Page
  /\ flights \subseteq Page
  /\ cursor \in Cursor \cup {NoCursor}
  /\ over \in BOOLEAN
  /\ listed \in [Product -> Nat]
  /\ moved \subseteq Product

(* A walk lists every product that stayed visible with its sort value      *)
(* exactly once, and never one that stayed invisible, whatever happened to *)
(* the other products and however old each of its pages is: cached pages,  *)
(* fresh pages and rows moved by a refresh in between neither skip it nor  *)
(* repeat it (list_deals: the keyset cursor with its product_id tie-break). *)
UnmovedListedOnce ==
  \A p \in Product \ moved :
    /\ listed[p] <= 1
    /\ over => (listed[p] = 1 <=> p \in Visible)
    /\ p \notin Visible => listed[p] = 0

(* Each page a walk goes on from leads strictly further in the order, so   *)
(* that a walk ends although rows move between its pages and pages of      *)
(* different ages mix.                                                     *)
WalkAdvances ==
  [][cursor # NoCursor /\ listed' # listed => over' \/ Before(cursor, cursor')]_vars

(* An error is never cached, so that an outage of the database ends with   *)
(* it, and once every run that changed data has also announced it, a       *)
(* cached page shows what the origin would answer, but for responses that  *)
(* were under way during an invalidation (architecture.md: notify "invalidates the    *)
(* CloudFront cache"; app.py: "the daily pipeline invalidates after each   *)
(* run"), although the runs of two retailers overlap.                      *)
EdgeFollowsData ==
  /\ \A pg \in edge : pg.ok
  /\ (\A r \in Run : stage[r] \in {"waiting", "announced"}) =>
       \A pg \in edge : pg.late \/ pg = ListDeals(pg.from)
=============================================================================
