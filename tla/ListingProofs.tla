--------------------------- MODULE ListingProofs ---------------------------
(***************************************************************************)
(* The theorems of module Listing, for any products, values, page sizes    *)
(* and runs, and any number of cached pages and responses under way.       *)
(***************************************************************************)
EXTENDS Listing, FiniteSetTheorems, TLAPS

LEMMA TypeInit == Init => ListingTypeOK
<1> SUFFICES ASSUME Init
             PROVE  ListingTypeOK
  OBVIOUS
<1>1. listed \in [Product -> Nat]
  BY DEF Init
<1>2. QED
  BY <1>1 DEF Init, ListingTypeOK, Stage

LEMMA SizeOfPages ==
  ASSUME ListingTypeOK
  PROVE  PageSize \in Nat \ {0}
<1>1. query.limit \in Nat /\ MaxLimit \in Nat \ {0}
  BY ListingAssumption DEF ListingTypeOK
<1>2. QED
  BY <1>1 DEF PageSize

LEMMA Keys == ListingTypeOK => \A p \in Product : Key(p) \in Cursor
  BY DEF ListingTypeOK, Key, Cursor, Row

-----------------------------------------------------------------------------
(* The order of the list, ties broken by product id, is a strict total     *)
(* order, and a cursor cuts it in two.                                     *)

LEMMA TotalOrder ==
  ASSUME query.desc \in BOOLEAN, NEW k \in Cursor, NEW l \in Cursor
  PROVE  /\ ~Before(k, k)
         /\ Before(k, l) \/ Before(l, k) \/ k = l
         /\ ~(Before(k, l) /\ Before(l, k))
         /\ \A m \in Cursor : Before(k, l) /\ Before(l, m) => Before(k, m)
         /\ Past(k, l) <=> Before(l, k)
<1>1. \A m \in Cursor : m.value \in Nat /\ m.id \in Nat
  BY ListingAssumption DEF Cursor
<1>2. k.value = l.value /\ k.id = l.id => k = l
  BY DEF Cursor
<1>3. CASE query.desc
  BY <1>1, <1>2, <1>3 DEF Before, Past, Sooner
<1>4. CASE ~query.desc
  BY <1>1, <1>2, <1>4 DEF Before, Past, Sooner
<1>5. QED
  BY <1>3, <1>4

(* The products before p, and those after it.                              *)
Sooners(S, p) == {q \in S : Before(Key(q), Key(p))}

LEMMA FirstAndLast ==
  ASSUME ListingTypeOK, NEW S \in SUBSET Product, S # {}
  PROVE  /\ \E p \in S : Sooners(S, p) = {}
         /\ \E p \in S : \A q \in S : q = p \/ Before(Key(q), Key(p))
<1> DEFINE Laters(p) == {q \in S : Before(Key(p), Key(q))}
           Pres == {Sooners(S, p) : p \in S}
           Posts == {Laters(p) : p \in S}
<1>1. IsFiniteSet(S) /\ query.desc \in BOOLEAN /\ \A p \in S : Key(p) \in Cursor
  BY FS_Subset, ListingAssumption, Keys DEF ListingTypeOK
<1>2. \A p \in S : IsFiniteSet(Sooners(S, p)) /\ IsFiniteSet(Laters(p))
  BY <1>1, FS_Subset DEF Sooners
<1>3. \A T \in SUBSET FiniteSubsetsOf(S) : T # {} =>
        \E U \in T : \A V \in T : ~(<<V, U>> \in StrictSubsetOrdering(S))
  <2>1. IsWellFoundedOn(StrictSubsetOrdering(S), FiniteSubsetsOf(S))
    BY FS_StrictSubsetOrderingWellFounded
  <2>2. QED
    BY <2>1, WFMin
<1>4. \E p \in S : Sooners(S, p) = {}
  <2>1. PICK U \in Pres : \A V \in Pres : ~(<<V, U>> \in StrictSubsetOrdering(S))
    <3>1. Pres \in SUBSET FiniteSubsetsOf(S) /\ Pres # {}
      BY <1>2 DEF FiniteSubsetsOf, Sooners
    <3> HIDE DEF Pres
    <3>2. QED
      BY <1>3, <3>1
  <2>2. PICK p \in S : U = Sooners(S, p)
    OBVIOUS
  <2>3. ASSUME NEW q \in Sooners(S, p)
        PROVE  FALSE
    <3>1. q \in S /\ Before(Key(q), Key(p))
      BY DEF Sooners
    <3>2. Sooners(S, q) \subseteq Sooners(S, p) /\ q \notin Sooners(S, q)
      BY <1>1, <3>1, TotalOrder DEF Sooners
    <3>3. <<Sooners(S, q), U>> \in StrictSubsetOrdering(S)
      BY <2>2, <2>3, <3>2 DEF StrictSubsetOrdering, Sooners
    <3>4. QED
      BY <2>1, <3>1, <3>3
  <2>4. QED
    BY <2>3
<1>5. \E p \in S : \A q \in S : q = p \/ Before(Key(q), Key(p))
  <2>1. PICK U \in Posts : \A V \in Posts : ~(<<V, U>> \in StrictSubsetOrdering(S))
    <3>1. Posts \in SUBSET FiniteSubsetsOf(S) /\ Posts # {}
      BY <1>2 DEF FiniteSubsetsOf
    <3> HIDE DEF Posts
    <3>2. QED
      BY <1>3, <3>1
  <2>2. PICK p \in S : U = Laters(p)
    OBVIOUS
  <2>3. ASSUME NEW q \in Laters(p)
        PROVE  FALSE
    <3>1. q \in S /\ Before(Key(p), Key(q))
      OBVIOUS
    <3>2. Laters(q) \subseteq Laters(p) /\ q \notin Laters(q)
      BY <1>1, <3>1, TotalOrder
    <3>3. <<Laters(q), U>> \in StrictSubsetOrdering(S)
      BY <2>2, <2>3, <3>2 DEF StrictSubsetOrdering
    <3>4. QED
      BY <2>1, <3>1, <3>3
  <2>4. \A q \in S : ~Before(Key(p), Key(q))
    BY <2>3
  <2>5. \A q \in S : q = p \/ Before(Key(q), Key(p))
    <3>1. \A q \in S : Key(q) = Key(p) => q = p
      BY DEF Key
    <3>2. QED
      BY <1>1, <2>4, <3>1, TotalOrder
  <2>6. QED
    BY <2>5
<1>6. QED
  BY <1>4, <1>5

-----------------------------------------------------------------------------
(* What a page of the origin holds: the visible products between its       *)
(* cursor and its next cursor.                                             *)

Beyond(p, c) == c = NoCursor \/ Past(Key(p), c)
UpTo(p, c) == c = NoCursor \/ ~Past(Key(p), c)
RowsFrom(c) == {p \in Visible : Beyond(p, c)}

LEMMA FirstOfPage ==
  ASSUME ListingTypeOK, NEW S \in SUBSET Product
  PROVE  /\ Cardinality(S) <= PageSize => First(S, PageSize) = S
         /\ Cardinality(S) > PageSize =>
              \E l \in S :
                /\ Last(First(S, PageSize)) = l
                /\ \A p \in S : p \in First(S, PageSize) <=> ~Before(Key(l), Key(p))
<1> DEFINE F == First(S, PageSize)
<1>1. IsFiniteSet(S) /\ query.desc \in BOOLEAN /\ \A p \in S : Key(p) \in Cursor
  BY FS_Subset, ListingAssumption, Keys DEF ListingTypeOK
<1>2. F = {p \in S : Cardinality(Sooners(S, p)) < PageSize}
  BY DEF First, Sooners
<1>3. PageSize \in Nat \ {0} /\ Cardinality(S) \in Nat
  BY <1>1, SizeOfPages, FS_CardinalityType
<1>4. ASSUME NEW p \in S
      PROVE  /\ IsFiniteSet(Sooners(S, p)) /\ Cardinality(Sooners(S, p)) \in Nat
             /\ Cardinality(Sooners(S, p)) < Cardinality(S)
  <2>1. Sooners(S, p) \subseteq S /\ p \notin Sooners(S, p)
    BY <1>1, TotalOrder DEF Sooners
  <2>2. Sooners(S, p) # S
    BY <2>1
  <2>3. QED
    BY <1>1, <2>1, <2>2, FS_Subset, FS_CardinalityType
<1>5. Cardinality(S) <= PageSize => F = S
  BY <1>2, <1>3, <1>4
<1>6. ASSUME Cardinality(S) > PageSize
      PROVE  \E l \in S :
               /\ Last(F) = l
               /\ \A p \in S : p \in F <=> ~Before(Key(l), Key(p))
  <2>1. S # {}
    BY <1>3, <1>6, FS_EmptySet
  <2>2. F # {}
    <3>1. PICK p \in S : Sooners(S, p) = {}
      BY <2>1, FirstAndLast
    <3>2. Cardinality(Sooners(S, p)) = 0
      BY <3>1, FS_EmptySet
    <3>3. QED
      BY <1>2, <1>3, <3>2
  <2>3. F \in SUBSET Product
    BY <1>2
  <2> DEFINE l == Last(F)
  <2>4. l \in F /\ \A q \in F : q = l \/ Before(Key(q), Key(l))
    <3>1. \E p \in F : \A q \in F : q = p \/ Before(Key(q), Key(p))
      BY <2>2, <2>3, FirstAndLast
    <3> HIDE DEF F
    <3>2. QED
      BY <3>1 DEF Last
  <2>5. ASSUME NEW p \in S, ~Before(Key(l), Key(p))
        PROVE  p \in F
    <3>1. l \in S
      BY <1>2, <2>4
    <3>2. Before(Key(p), Key(l)) \/ Key(p) = Key(l)
      BY <1>1, <2>5, <3>1, TotalOrder
    <3>3. Sooners(S, p) \subseteq Sooners(S, l)
      BY <1>1, <3>1, <3>2, TotalOrder DEF Sooners
    <3>4. Cardinality(Sooners(S, p)) <= Cardinality(Sooners(S, l))
      BY <1>4, <3>1, <3>3, FS_Subset
    <3>5. Cardinality(Sooners(S, l)) < PageSize
      BY <1>2, <2>4
    <3>6. QED
      BY <1>2, <1>3, <1>4, <3>1, <3>4, <3>5
  <2>6. ASSUME NEW p \in F
        PROVE  ~Before(Key(l), Key(p))
    <3>1. l \in S /\ p \in S
      BY <1>2, <2>4
    <3>2. p = l \/ Before(Key(p), Key(l))
      BY <2>4
    <3>3. QED
      BY <1>1, <3>1, <3>2, TotalOrder
  <2>7. l \in S
    BY <1>2, <2>4
  <2> HIDE DEF l, F
  <2>8. Last(F) = l
    BY DEF l
  <2>9. QED
    BY <2>5, <2>6, <2>7, <2>8
<1>7. QED
  BY <1>5, <1>6

LEMMA PageOfTheOrigin ==
  ASSUME ListingTypeOK, NEW c \in Cursor \cup {NoCursor}
  PROVE  LET pg == ListDeals(c)
         IN /\ pg \in Page /\ pg.ok /\ pg.from = c
            /\ \A p \in Product :
                 p \in pg.items <=> p \in Visible /\ Beyond(p, c) /\ UpTo(p, pg.next)
            /\ c # NoCursor /\ pg.next # NoCursor => Before(c, pg.next)
<1> DEFINE W == RowsFrom(c)
           F == First(W, PageSize)
           pg == ListDeals(c)
<1>1. W \in SUBSET Product /\ IsFiniteSet(W)
  BY FS_Subset, ListingAssumption DEF RowsFrom, Visible
<1>2. F \subseteq W
  BY DEF First
<1>3. pg = [from |-> c, items |-> F,
            next |-> IF Cardinality(W) > PageSize THEN CursorAfter(F) ELSE NoCursor,
            ok |-> TRUE, late |-> FALSE]
  BY DEF ListDeals, RowsFrom, Beyond
<1> HIDE DEF pg
<1>4. pg.ok /\ pg.from = c /\ pg.items = F
  BY <1>3
<1>5. Cardinality(W) \in Nat /\ PageSize \in Nat
  BY <1>1, FS_CardinalityType, SizeOfPages
<1>6. CASE Cardinality(W) <= PageSize
  <2>1. F = W /\ pg.next = NoCursor
    BY <1>1, <1>3, <1>5, <1>6, FirstOfPage
  <2>2. pg \in Page
    BY <1>1, <1>2, <1>3, <2>1 DEF Page
  <2>3. \A p \in Product :
          p \in pg.items <=> p \in Visible /\ Beyond(p, c) /\ UpTo(p, pg.next)
    BY <1>4, <2>1 DEF RowsFrom, UpTo
  <2>4. QED
    BY <1>4, <2>1, <2>2, <2>3 DEF pg
<1>7. CASE Cardinality(W) > PageSize
  <2>1. PICK l \in W :
          Last(F) = l /\ \A p \in W : p \in F <=> ~Before(Key(l), Key(p))
    BY <1>1, <1>7, FirstOfPage
  <2>2. pg.next = Key(l) /\ Key(l) \in Cursor /\ pg.next # NoCursor
    BY <1>1, <1>3, <1>7, <2>1, Keys, CursorAssumption DEF CursorAfter
  <2>3. pg \in Page
    BY <1>1, <1>2, <1>3, <1>7, <2>1, <2>2 DEF Page
  <2>4. query.desc \in BOOLEAN /\ \A p \in Product : Key(p) \in Cursor
    BY Keys DEF ListingTypeOK
  <2>5. \A p \in Product : UpTo(p, pg.next) <=> ~Before(Key(l), Key(p))
    BY <2>2, <2>4, TotalOrder DEF UpTo
  <2>6. \A p \in Product :
          p \in pg.items <=> p \in Visible /\ Beyond(p, c) /\ UpTo(p, pg.next)
    BY <1>2, <1>4, <2>1, <2>5 DEF RowsFrom
  <2>7. c # NoCursor => Before(c, pg.next)
    BY <2>1, <2>2, <2>4, TotalOrder DEF RowsFrom, Beyond
  <2>8. QED
    BY <1>4, <2>3, <2>6, <2>7 DEF pg
<1>8. QED
  BY <1>5, <1>6, <1>7

-----------------------------------------------------------------------------
(* The walk.                                                               *)

(* A page that is not an error, whenever it was made, cuts the products    *)
(* that never moved as the origin would cut them now.                      *)
GoodPage(pg) ==
  /\ \A p \in Product \ moved :
       p \in pg.items <=> p \in Visible /\ Beyond(p, pg.from) /\ UpTo(p, pg.next)
  /\ pg.from # NoCursor /\ pg.next # NoCursor => Before(pg.from, pg.next)

PagesInv == \A pg \in edge \cup flights : pg.ok => GoodPage(pg)

(* The walk has listed the unmoved products up to its cursor, once each.   *)
Passed(p) == over \/ (cursor # NoCursor /\ UpTo(p, cursor))

WalkInv ==
  \A p \in Product \ moved : listed[p] = IF p \in Visible /\ Passed(p) THEN 1 ELSE 0

ListingInv == ListingTypeOK /\ PagesInv /\ WalkInv

LEMMA ListingInitial == Init => ListingInv
  BY TypeInit DEF Init, ListingInv, PagesInv, WalkInv, Passed
(* What the runs do to the data leaves the unmoved products where they     *)
(* are.                                                                    *)
Data == \E r \in Run : StoreRun(r) \/ RefreshSummary(r)

LEMMA UnmovedStay ==
  ASSUME ListingTypeOK, Data
  PROVE  /\ moved \subseteq moved' /\ query' = query
         /\ \A p \in Product \ moved' :
              /\ Key(p)' = Key(p)
              /\ p \in Visible' <=> p \in Visible
              /\ \A c : (Beyond(p, c)' <=> Beyond(p, c)) /\ (UpTo(p, c)' <=> UpTo(p, c))
<1>1. moved \subseteq moved' /\ query' = query
  BY DEF Data, StoreRun, RefreshSummary
<1>2. ASSUME NEW p \in Product \ moved'
      PROVE  view'[p] = view[p] /\ (p \in inStock' <=> p \in inStock)
  BY DEF Data, StoreRun, RefreshSummary
<1>3. ASSUME NEW p \in Product \ moved'
      PROVE  Key(p)' = Key(p) /\ (p \in Visible' <=> p \in Visible)
  BY <1>2 DEF Key, Visible
<1>4. ASSUME NEW p \in Product \ moved', NEW c
      PROVE  (Beyond(p, c)' <=> Beyond(p, c)) /\ (UpTo(p, c)' <=> UpTo(p, c))
  BY <1>1, <1>3 DEF Beyond, UpTo, Past, Sooner
<1>5. QED
  BY <1>1, <1>3, <1>4

LEMMA DataStep ==
  ASSUME ListingInv, Data
  PROVE  ListingInv'
<1> USE DEF ListingInv
<1>1. UNCHANGED <<query, edge, flights, cursor, over, listed>>
  BY DEF Data, StoreRun, RefreshSummary, walkVars
<1>2. ListingTypeOK'
  <2>1. view' \in [Product -> Row] /\ inStock' \subseteq Product /\ stage' \in [Run -> Stage]
        /\ moved' \subseteq Product
    BY ListingAssumption DEF Data, StoreRun, RefreshSummary, ListingTypeOK, Stage
  <2>2. QED
    BY <1>1, <2>1 DEF ListingTypeOK, Page, Cursor
<1>3. PagesInv'
  <2> SUFFICES ASSUME NEW pg \in edge \cup flights, pg.ok
               PROVE  GoodPage(pg)'
    BY <1>1 DEF PagesInv
  <2>1. GoodPage(pg)
    BY DEF PagesInv
  <2>2. pg.from # NoCursor /\ pg.next # NoCursor => Before(pg.from, pg.next)'
    BY <1>1, <2>1 DEF GoodPage, Before, Sooner
  <2>3. \A p \in Product \ moved' :
          p \in pg.items <=> p \in Visible' /\ Beyond(p, pg.from)' /\ UpTo(p, pg.next)'
    BY <2>1, UnmovedStay DEF GoodPage
  <2>4. QED
    BY <2>2, <2>3 DEF GoodPage
<1>4. WalkInv'
  <2> SUFFICES ASSUME NEW p \in Product \ moved'
               PROVE  listed'[p] = IF p \in Visible' /\ Passed(p)' THEN 1 ELSE 0
    BY DEF WalkInv
  <2>1. p \in Product \ moved /\ (p \in Visible' <=> p \in Visible)
    BY UnmovedStay
  <2>2. Passed(p)' <=> Passed(p)
    BY <1>1, UnmovedStay DEF Passed
  <2>3. QED
    BY <1>1, <2>1, <2>2 DEF WalkInv
<1>5. QED
  BY <1>2, <1>3, <1>4

(* Steps that leave the data alone keep what is said of pages and rows.    *)
LEMMA SameData ==
  ASSUME UNCHANGED <<query, view, inStock, moved>>
  PROVE  /\ Visible' = Visible
         /\ \A pg : GoodPage(pg)' <=> GoodPage(pg)
         /\ \A p, c : UpTo(p, c)' <=> UpTo(p, c)
         /\ \A p, c : Beyond(p, c)' <=> Beyond(p, c)
<1>1. Visible' = Visible
  BY DEF Visible
<1>2. \A p, c : (UpTo(p, c)' <=> UpTo(p, c)) /\ (Beyond(p, c)' <=> Beyond(p, c))
  BY DEF UpTo, Beyond, Past, Sooner, Key
<1>3. \A c, d : Before(c, d)' <=> Before(c, d)
  BY DEF Before, Sooner
<1>4. \A pg : GoodPage(pg)' <=> GoodPage(pg)
  BY <1>1, <1>2, <1>3 DEF GoodPage
<1>5. QED
  BY <1>1, <1>2, <1>4

LEMMA CdnStep ==
  ASSUME ListingInv,
         \/ \E c \in Held : Fetch(c) \/ Fail(c)
         \/ \E pg \in flights : Arrive(pg)
         \/ \E pg \in edge : Expire(pg)
         \/ \E r \in Run : InvalidateCdn(r) \/ LoseRun(r)
         \/ UNCHANGED vars
  PROVE  ListingInv'
<1> USE DEF ListingInv
<1>1. UNCHANGED <<query, view, inStock, moved, cursor, over, listed>>
  BY DEF Fetch, Fail, Arrive, Expire, InvalidateCdn, LoseRun, dataVars, walkVars, vars
<1>2. stage' \in [Run -> Stage]
  BY DEF Fetch, Fail, Arrive, Expire, InvalidateCdn, LoseRun, dataVars, vars, ListingTypeOK, Stage
<1>3. ASSUME NEW pg \in (edge \cup flights)'
      PROVE  pg \in Page /\ (pg.ok => GoodPage(pg))
  <2>1. ASSUME NEW c \in Held, Fetch(c) \/ Fail(c)
        PROVE  pg \in Page /\ (pg.ok => GoodPage(pg))
    <3>1. c \in Cursor \cup {NoCursor}
      BY Keys DEF Held, Visible, ListingTypeOK
    <3>2. /\ ListDeals(c) \in Page
          /\ GoodPage(ListDeals(c))
      BY <3>1, PageOfTheOrigin DEF GoodPage
    <3>3. ErrorPage(c) \in Page /\ ~ErrorPage(c).ok
      BY <3>1 DEF ErrorPage, Page
    <3>4. edge' = edge /\ flights' \subseteq flights \cup {ListDeals(c), ErrorPage(c)}
      BY <2>1 DEF Fetch, Fail
    <3>5. QED
      BY <3>2, <3>3, <3>4 DEF ListingTypeOK, PagesInv
  <2>2. ASSUME NEW r \in Run, InvalidateCdn(r)
        PROVE  pg \in Page /\ (pg.ok => GoodPage(pg))
    <3>1. PICK q \in flights : pg = [q EXCEPT !.late = TRUE]
      BY <2>2 DEF InvalidateCdn, Invalidated
    <3>2. q \in Page /\ (q.ok => GoodPage(q))
      BY DEF ListingTypeOK, PagesInv
    <3>3. pg \in Page /\ pg.ok = q.ok /\ pg.items = q.items /\ pg.from = q.from
          /\ pg.next = q.next
      BY <3>1, <3>2 DEF Page
    <3>4. QED
      BY <3>2, <3>3 DEF GoodPage
  <2>3. CASE (edge \cup flights)' \subseteq edge \cup flights
    BY <2>3 DEF ListingTypeOK, PagesInv
  <2>4. QED
    BY <2>1, <2>2, <2>3 DEF Arrive, Expire, LoseRun, dataVars, vars
<1>4. ListingTypeOK'
  <2>1. edge' \subseteq Page /\ flights' \subseteq Page
    BY <1>3
  <2>2. QED
    BY <1>1, <1>2, <2>1 DEF ListingTypeOK, Page, Cursor
<1>5. PagesInv'
  BY <1>1, <1>3, SameData DEF PagesInv
<1>6. WalkInv'
  BY <1>1, SameData DEF WalkInv, Passed
<1>7. QED
  BY <1>4, <1>5, <1>6

(* The reader's step: what lies up to the cursor has been listed, the page *)
(* lists what lies between its cursor and the next one.                    *)
LEMMA FollowStep ==
  ASSUME ListingInv, NEW pg \in edge \cup flights, Follow(pg)
  PROVE  ListingInv'
<1> USE DEF ListingInv
<1>1. /\ UNCHANGED <<query, view, inStock, stage, moved, edge, flights>>
      /\ ~over /\ pg.ok /\ pg.from = cursor /\ cursor' = pg.next
      /\ over' = (pg.next = NoCursor)
      /\ listed' = [p \in Product |-> IF p \in pg.items THEN listed[p] + 1 ELSE listed[p]]
  BY DEF Follow, dataVars
<1>2. pg \in Page /\ GoodPage(pg) /\ query.desc \in BOOLEAN
  BY <1>1 DEF ListingTypeOK, PagesInv
<1>3. ListingTypeOK'
  <2>1. cursor' \in Cursor \cup {NoCursor} /\ over' \in BOOLEAN
    BY <1>1, <1>2 DEF Page
  <2>2. listed' \in [Product -> Nat]
    BY <1>1 DEF ListingTypeOK
  <2>3. QED
    BY <1>1, <2>1, <2>2 DEF ListingTypeOK, Page, Cursor
<1>4. PagesInv'
  BY <1>1, SameData DEF PagesInv
<1>5. ASSUME NEW p \in Product \ moved
      PROVE  listed'[p] = IF p \in Visible' /\ Passed(p)' THEN 1 ELSE 0
  <2>1. p \in pg.items <=> p \in Visible /\ Beyond(p, cursor) /\ UpTo(p, pg.next)
    BY <1>1, <1>2 DEF GoodPage
  <2>2. listed[p] = IF p \in Visible /\ cursor # NoCursor /\ UpTo(p, cursor) THEN 1 ELSE 0
    BY <1>1 DEF WalkInv, Passed
  <2>3. Beyond(p, cursor) <=> cursor = NoCursor \/ ~UpTo(p, cursor)
    BY DEF Beyond, UpTo
  <2>4. cursor # NoCursor /\ UpTo(p, cursor) => UpTo(p, pg.next)
    <3>1. CASE pg.next = NoCursor
      BY <3>1 DEF UpTo
    <3>2. CASE pg.next # NoCursor /\ cursor # NoCursor
      <4>1. Before(cursor, pg.next) /\ cursor \in Cursor /\ pg.next \in Cursor /\ Key(p) \in Cursor
        BY <1>1, <1>2, <3>2, Keys DEF GoodPage, Page
      <4>2. QED
        BY <1>2, <3>2, <4>1, TotalOrder DEF UpTo
    <3>3. QED
      BY <3>1, <3>2
  <2>5. Passed(p)' <=> UpTo(p, pg.next)
    <3>1. UpTo(p, pg.next)' <=> UpTo(p, pg.next)
      BY <1>1, SameData
    <3>2. QED
      BY <1>1, <3>1 DEF Passed, UpTo
  <2>6. listed'[p] = IF p \in pg.items THEN listed[p] + 1 ELSE listed[p]
    BY <1>1
  <2>7. p \in Visible' <=> p \in Visible
    BY <1>1, SameData
  <2>8. QED
    BY <2>1, <2>2, <2>3, <2>4, <2>5, <2>6, <2>7
<1>6. WalkInv'
  BY <1>1, <1>5 DEF WalkInv
<1>7. QED
  BY <1>3, <1>4, <1>6

LEMMA ListingStep == ListingInv /\ [Next]_vars => ListingInv'
  BY DataStep, CdnStep, FollowStep DEF Next, Data

THEOREM ListingTypeCorrect == Spec => []ListingTypeOK
<1>1. ListingInv => ListingTypeOK
  BY DEF ListingInv
<1>2. QED
  BY <1>1, ListingInitial, ListingStep, PTL DEF Spec

(* Whatever mixture of cached and fresh pages a reader follows while runs  *)
(* change the data, a product that does not move is listed once if it is   *)
(* visible, never if it is not.                                            *)
THEOREM WalksAreComplete == Spec => []UnmovedListedOnce
<1>1. ListingInv => UnmovedListedOnce
  <2> SUFFICES ASSUME ListingInv, NEW p \in Product \ moved
               PROVE  /\ listed[p] <= 1
                      /\ over => (listed[p] = 1 <=> p \in Visible)
                      /\ p \notin Visible => listed[p] = 0
    BY DEF UnmovedListedOnce
  <2>1. listed[p] = IF p \in Visible /\ Passed(p) THEN 1 ELSE 0
    BY DEF ListingInv, WalkInv
  <2>2. over => Passed(p)
    BY DEF Passed
  <2>3. QED
    BY <2>1, <2>2
<1>2. QED
  BY <1>1, ListingInitial, ListingStep, PTL DEF Spec

(* A walk never goes back: each page it follows ends beyond its start.     *)
THEOREM WalksAdvance == Spec => WalkAdvances
<1>1. ASSUME ListingInv, [Next]_vars, cursor # NoCursor, listed' # listed
      PROVE  over' \/ Before(cursor, cursor')
  <2>1. PICK pg \in edge \cup flights : Follow(pg)
    BY <1>1 DEF Next, vars, walkVars, Fetch, Fail, Arrive, Expire, StoreRun, RefreshSummary,
       InvalidateCdn, LoseRun
  <2>2. pg.from = cursor /\ cursor' = pg.next /\ over' = (pg.next = NoCursor) /\ GoodPage(pg)
    BY <1>1, <2>1 DEF Follow, ListingInv, PagesInv
  <2>3. QED
    BY <1>1, <2>2 DEF GoodPage
<1>2. QED
  BY <1>1, ListingInitial, ListingStep, PTL DEF Spec, WalkAdvances

-----------------------------------------------------------------------------
(* The edge.                                                               *)

(* Once the runs that changed data have announced it, pages are what the   *)
(* origin would answer, on their way and at the edge alike; only what was  *)
(* under way during an invalidation is excepted.                           *)
Settled == \A r \in Run : stage[r] \in {"waiting", "announced"}

EdgeInv ==
  /\ \A pg \in edge : pg.ok
  /\ Settled => \A pg \in edge \cup flights : pg.ok => pg.late \/ pg = ListDeals(pg.from)

LEMMA EdgeStep == ListingTypeOK /\ EdgeInv /\ [Next]_vars => EdgeInv'
<1> SUFFICES ASSUME ListingTypeOK, EdgeInv, [Next]_vars
             PROVE  EdgeInv'
  OBVIOUS
<1>1. ASSUME UNCHANGED <<query, view, inStock>>
      PROVE  \A c : ListDeals(c)' = ListDeals(c)
  BY <1>1 DEF ListDeals, First, Last, CursorAfter, PageSize, Visible, Key, Past, Before, Sooner
<1>2. CASE Data
  <2>1. edge' = edge /\ ~Settled'
    BY <1>2 DEF Data, StoreRun, RefreshSummary, Settled, ListingTypeOK
  <2>2. QED
    BY <2>1 DEF EdgeInv
<1>3. ASSUME NEW c \in Held, Fetch(c) \/ Fail(c)
      PROVE  EdgeInv'
  <2>1. ListDeals(c).from = c /\ ~ErrorPage(c).ok
    BY DEF ListDeals, ErrorPage
  <2>2. UNCHANGED <<query, view, inStock, stage, edge>>
        /\ flights' \subseteq flights \cup {ListDeals(c), ErrorPage(c)}
    BY <1>3 DEF Fetch, Fail, dataVars
  <2>3. QED
    BY <1>1, <2>1, <2>2 DEF EdgeInv, Settled
<1>4. ASSUME NEW r \in Run, InvalidateCdn(r)
      PROVE  EdgeInv'
  <2>1. edge' = {} /\ flights' = {[pg EXCEPT !.late = TRUE] : pg \in flights}
    BY <1>4 DEF InvalidateCdn, Invalidated
  <2>2. \A pg \in flights' : pg.late
    BY <2>1 DEF ListingTypeOK, Page
  <2>3. QED
    BY <2>1, <2>2 DEF EdgeInv
<1>5. ASSUME NEW r \in Run, LoseRun(r)
      PROVE  EdgeInv'
  <2>1. edge' = edge /\ ~Settled'
    BY <1>5 DEF LoseRun, Settled, ListingTypeOK
  <2>2. QED
    BY <2>1 DEF EdgeInv
<1>6. CASE \/ \E pg \in flights : Arrive(pg)
           \/ \E pg \in edge : Expire(pg)
           \/ \E pg \in edge \cup flights : Follow(pg)
           \/ UNCHANGED vars
  <2>1. UNCHANGED <<query, view, inStock, stage>>
        /\ (edge \cup flights)' \subseteq edge \cup flights
    BY <1>6 DEF Arrive, Expire, Follow, dataVars, vars
  <2>2. \A pg \in edge' : pg.ok
    BY <1>6 DEF Arrive, Cacheable, Expire, Follow, vars, EdgeInv
  <2>3. QED
    BY <1>1, <2>1, <2>2 DEF EdgeInv, Settled
<1>7. QED
  BY <1>2, <1>3, <1>4, <1>5, <1>6 DEF Next, Data

(* Errors are never cached, and once every run is announced the edge       *)
(* answers as the origin does, however many pages, runs and responses      *)
(* under way there are.                                                    *)
THEOREM EdgeIsCurrent == Spec => []EdgeFollowsData
<1>1. Init => EdgeInv
  BY DEF Init, EdgeInv
<1>2. EdgeInv => EdgeFollowsData
  BY DEF EdgeInv, EdgeFollowsData, Settled
<1>3. QED
  BY <1>1, <1>2, EdgeStep, ListingInitial, ListingStep, PTL DEF Spec, ListingInv
=============================================================================
