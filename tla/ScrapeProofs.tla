---------------------------- MODULE ScrapeProofs ----------------------------
(***************************************************************************)
(* Theorems about module Scrape, for every catalog, page size and number   *)
(* of tries: the variables keep their types, a steady item is fetched      *)
(* although its list moves, and a snapshot joins the pages and the stock   *)
(* answers of its own pair.                                                *)
(***************************************************************************)
EXTENDS Scrape, SequenceTheorems, FiniteSetTheorems, TLAPS

-----------------------------------------------------------------------------
(* Lists that lose or gain an entry.                                       *)

LEMMA Elements ==
  ASSUME NEW S, NEW list \in Seq(S)
  PROVE  /\ DOMAIN list = 1..Len(list)
         /\ Len(list) \in Nat
         /\ ToSet(list) \subseteq S
         /\ \A j \in 1..Len(list) : list[j] \in S /\ list[j] \in ToSet(list)
         /\ IsFiniteSet(ToSet(list))
<1> DEFINE e == [i \in 1..Len(list) |-> list[i]]
<1>1. DOMAIN list = 1..Len(list) /\ Len(list) \in Nat
  BY LenProperties
<1>2. \A j \in 1..Len(list) : list[j] \in S /\ list[j] \in ToSet(list)
  BY <1>1, ElementOfSeq DEF ToSet
<1>3. e \in Surjection(1..Len(list), ToSet(list))
  BY <1>1 DEF Surjection, ToSet
<1>4. IsFiniteSet(1..Len(list))
  BY <1>1, FS_Interval
<1>5. IsFiniteSet(ToSet(list))
  BY <1>3, <1>4, FS_Surjection
<1> QED
  BY <1>1, <1>2, <1>5 DEF ToSet

LEMMA AppendedElements ==
  ASSUME NEW S, NEW list \in Seq(S), NEW e \in S
  PROVE  /\ Append(list, e) \in Seq(S)
         /\ ToSet(Append(list, e)) = ToSet(list) \cup {e}
<1>1. /\ Append(list, e) \in Seq(S)
      /\ Len(Append(list, e)) = Len(list) + 1
      /\ \A i \in 1..Len(list) : Append(list, e)[i] = list[i]
      /\ Append(list, e)[Len(list) + 1] = e
  BY AppendProperties
<1>2. /\ DOMAIN list = 1..Len(list)
      /\ DOMAIN Append(list, e) = 1..Len(list) + 1
      /\ Len(list) \in Nat
  BY <1>1, Elements
<1> QED
  BY <1>1, <1>2 DEF ToSet

(* Without entry i the later entries move up by one.                       *)
LEMMA RemovedEntry ==
  ASSUME NEW S, NEW list \in Seq(S), NEW i \in DOMAIN list
  PROVE  /\ RemoveAt(list, i) \in Seq(S)
         /\ Len(RemoveAt(list, i)) = Len(list) - 1
         /\ \A j \in 1..Len(list) - 1 :
              RemoveAt(list, i)[j] = IF j < i THEN list[j] ELSE list[j + 1]
<1> DEFINE front == SubSeq(list, 1, i - 1)
           back == SubSeq(list, i + 1, Len(list))
           joined == front \o back
<1>1. i \in 1..Len(list) /\ Len(list) \in Nat /\ \A j \in 1..Len(list) : list[j] \in S
  BY Elements
<1>2. /\ front \in Seq(S)
      /\ Len(front) = i - 1
      /\ \A j \in 1..i - 1 : front[j] = list[j]
  <2>1. 1 \in Int /\ i - 1 \in Int /\ \A j \in 1..i - 1 : list[j] \in S
    BY <1>1
  <2>2. /\ front \in Seq(S)
        /\ Len(front) = IF 1 <= i - 1 THEN i - 1 - 1 + 1 ELSE 0
        /\ \A j \in 1..i - 1 - 1 + 1 : front[j] = list[1 + j - 1]
    BY <2>1, SubSeqProperties
  <2> QED
    BY <1>1, <2>2
<1>3. /\ back \in Seq(S)
      /\ Len(back) = Len(list) - i
      /\ \A j \in 1..Len(list) - i : back[j] = list[i + j]
  <2>1. i + 1 \in Int /\ Len(list) \in Int /\ \A j \in i + 1..Len(list) : list[j] \in S
    BY <1>1
  <2>2. /\ back \in Seq(S)
        /\ Len(back) = IF i + 1 <= Len(list) THEN Len(list) - (i + 1) + 1 ELSE 0
        /\ \A j \in 1..Len(list) - (i + 1) + 1 : back[j] = list[i + 1 + j - 1]
    BY <2>1, SubSeqProperties
  <2> QED
    BY <1>1, <2>2
<1>4. /\ joined \in Seq(S)
      /\ Len(joined) = Len(front) + Len(back)
      /\ \A j \in 1..Len(front) + Len(back) :
           joined[j] = IF j <= Len(front) THEN front[j] ELSE back[j - Len(front)]
  BY <1>2, <1>3, ConcatProperties
<1>5. RemoveAt(list, i) = joined
  BY DEF RemoveAt
<1> HIDE DEF front, back, joined
<1>6. Len(joined) = Len(list) - 1
  BY <1>1, <1>2, <1>3, <1>4
<1>7. ASSUME NEW j \in 1..Len(list) - 1
      PROVE  joined[j] = IF j < i THEN list[j] ELSE list[j + 1]
  <2>1. joined[j] = IF j <= Len(front) THEN front[j] ELSE back[j - Len(front)]
    BY <1>1, <1>4, <1>6
  <2>2. CASE j < i
    BY <1>1, <1>2, <2>1, <2>2
  <2>3. CASE j >= i
    <3>1. j - (i - 1) \in 1..Len(list) - i /\ i + (j - (i - 1)) = j + 1
      BY <1>1, <2>3
    <3>2. back[j - (i - 1)] = list[j + 1]
      BY <1>3, <3>1
    <3>3. joined[j] = back[j - (i - 1)]
      BY <1>1, <1>2, <2>1, <2>3
    <3> QED
      BY <1>1, <2>3, <3>2, <3>3
  <2> QED
    BY <1>1, <2>2, <2>3
<1> QED
  BY <1>4, <1>5, <1>6, <1>7

(* With an entry at i the entries from there on move down by one.          *)
LEMMA InsertedEntry ==
  ASSUME NEW S, NEW list \in Seq(S), NEW i \in 1..Len(list) + 1, NEW e \in S
  PROVE  /\ InsertAt(list, i, e) \in Seq(S)
         /\ Len(InsertAt(list, i, e)) = Len(list) + 1
         /\ \A j \in 1..Len(list) + 1 :
              InsertAt(list, i, e)[j] =
                IF j < i THEN list[j] ELSE IF j = i THEN e ELSE list[j - 1]
<1> DEFINE front == SubSeq(list, 1, i - 1)
           back == SubSeq(list, i, Len(list))
<1>1. Len(list) \in Nat /\ \A j \in 1..Len(list) : list[j] \in S
  BY Elements
<1>2. /\ front \in Seq(S)
      /\ Len(front) = i - 1
      /\ \A j \in 1..i - 1 : front[j] = list[j]
  <2>1. 1 \in Int /\ i - 1 \in Int /\ \A j \in 1..i - 1 : list[j] \in S
    BY <1>1
  <2>2. /\ front \in Seq(S)
        /\ Len(front) = IF 1 <= i - 1 THEN i - 1 - 1 + 1 ELSE 0
        /\ \A j \in 1..i - 1 - 1 + 1 : front[j] = list[1 + j - 1]
    BY <2>1, SubSeqProperties
  <2> QED
    BY <1>1, <2>2
<1>3. /\ back \in Seq(S)
      /\ Len(back) = Len(list) - i + 1
      /\ \A j \in 1..Len(list) - i + 1 : back[j] = list[i + j - 1]
  <2>1. i \in Int /\ Len(list) \in Int /\ \A j \in i..Len(list) : list[j] \in S
    BY <1>1
  <2>2. /\ back \in Seq(S)
        /\ Len(back) = IF i <= Len(list) THEN Len(list) - i + 1 ELSE 0
        /\ \A j \in 1..Len(list) - i + 1 : back[j] = list[i + j - 1]
    BY <2>1, SubSeqProperties
  <2> QED
    BY <1>1, <2>2
<1>4. <<e>> \in Seq(S) /\ Len(<<e>>) = 1 /\ <<e>>[1] = e
  OBVIOUS
<1>5. /\ front \o <<e>> \in Seq(S)
      /\ Len(front \o <<e>>) = Len(front) + 1
      /\ \A j \in 1..Len(front) + 1 :
           (front \o <<e>>)[j] = IF j <= Len(front) THEN front[j] ELSE <<e>>[j - Len(front)]
  BY <1>2, <1>4, ConcatProperties
<1> DEFINE head == front \o <<e>>
           joined == head \o back
<1>6. /\ joined \in Seq(S)
      /\ Len(joined) = Len(head) + Len(back)
      /\ \A j \in 1..Len(head) + Len(back) :
           joined[j] = IF j <= Len(head) THEN head[j] ELSE back[j - Len(head)]
  BY <1>3, <1>5, ConcatProperties
<1>7. InsertAt(list, i, e) = joined
  BY DEF InsertAt
<1>8. Len(head) = i /\ \A j \in 1..i : head[j] = IF j < i THEN list[j] ELSE e
  <2> DEFINE one == <<e>>
  <2>1. Len(front) + 1 = i
    BY <1>1, <1>2
  <2>2. Len(head) = i /\ \A j \in 1..i : head[j] = IF j <= Len(front) THEN front[j] ELSE one[j - Len(front)]
    BY <1>5, <2>1
  <2>3. one[1] = e
    BY <1>4
  <2> HIDE DEF front, one, head
  <2>4. ASSUME NEW j \in 1..i
        PROVE  head[j] = IF j < i THEN list[j] ELSE e
    <3>1. CASE j < i
      BY <1>1, <1>2, <2>2, <3>1
    <3>2. CASE j = i
      BY <1>1, <1>2, <2>2, <2>3, <3>2
    <3> QED
      BY <1>1, <3>1, <3>2
  <2> QED
    BY <2>2, <2>4
<1> HIDE DEF front, back, head, joined
<1>9. Len(joined) = Len(list) + 1
  BY <1>1, <1>3, <1>6, <1>8
<1>10. ASSUME NEW j \in 1..Len(list) + 1
       PROVE  joined[j] = IF j < i THEN list[j] ELSE IF j = i THEN e ELSE list[j - 1]
  <2>1. joined[j] = IF j <= i THEN head[j] ELSE back[j - i]
    BY <1>1, <1>6, <1>8, <1>9
  <2>2. CASE j <= i
    BY <1>1, <1>8, <2>1, <2>2
  <2>3. CASE j > i
    <3>1. j - i \in 1..Len(list) - i + 1 /\ i + (j - i) - 1 = j - 1
      BY <1>1, <2>3
    <3> QED
      BY <1>1, <1>3, <2>1, <2>3, <3>1
  <2> QED
    BY <1>1, <2>2, <2>3
<1> QED
  BY <1>6, <1>7, <1>9, <1>10

-----------------------------------------------------------------------------
(* Types.                                                                  *)

Page == [walk : ToSet(Walks[source]), items : SUBSET Item]

TypeInv ==
  /\ source \in DOMAIN Walks
  /\ feed \in [AllWalks -> Seq(Item)]
  /\ steady \in [AllWalks -> SUBSET Item]
  /\ removed \in [AllWalks -> Nat]
  /\ moves \in Nat
  /\ pc \in {"list", "stock", "fetched", "stored", "done", "failed"}
  /\ walk \in 1..Len(Walks[source])
  /\ tries \in 0..MaxTries - 1
  /\ requests \in Seq(Page)
  /\ offset \in Nat
  /\ stock \subseteq [pair : Item, sizes : {Unknown} \cup {SizesOf[it] : it \in Item}]
  /\ truncated \subseteq ToSet(Walks[source])
  /\ categories \subseteq {it[2] : it \in Item}
  /\ sorts \in Nat

(* An attempt puts at most one payload, as its last step but one.          *)
PayloadInv ==
  /\ attempt \in 1..MaxAttempts
  /\ payloads \in Nat
  /\ payloads <= IF pc \in {"list", "stock", "fetched"} THEN attempt - 1 ELSE attempt

LEMMA WalkNames ==
  ASSUME NEW s \in DOMAIN Walks
  PROVE  /\ Walks[s] \in Seq(STRING)
         /\ Len(Walks[s]) \in Nat \ {0}
         /\ DOMAIN Walks[s] = 1..Len(Walks[s])
         /\ ToSet(Walks[s]) \subseteq AllWalks
         /\ \A i, j \in 1..Len(Walks[s]) : Walks[s][i] = Walks[s][j] => i = j
<1>1. Walks[s] \in Seq(STRING) /\ Walks[s] # <<>> /\ IsInjective(Walks[s])
  BY RetailerAssumption
<1>2. DOMAIN Walks[s] = 1..Len(Walks[s]) /\ Len(Walks[s]) \in Nat
  BY <1>1, Elements
<1>3. Len(Walks[s]) # 0
  BY <1>1, EmptySeq
<1>4. ToSet(Walks[s]) \subseteq AllWalks
  BY DEF AllWalks
<1> QED
  BY <1>1, <1>2, <1>3, <1>4 DEF IsInjective

LEMMA CurrentIsAWalk ==
  ASSUME TypeInv
  PROVE  /\ Current \in ToSet(Walks[source])
         /\ Current \in AllWalks
         /\ feed[Current] \in Seq(Item)
<1>1. DOMAIN Walks[source] = 1..Len(Walks[source]) /\ ToSet(Walks[source]) \subseteq AllWalks
  BY WalkNames DEF TypeInv
<1>2. Current \in ToSet(Walks[source])
  BY <1>1 DEF TypeInv, Current, ToSet
<1> QED
  BY <1>1, <1>2 DEF TypeInv

LEMMA PagesTyped ==
  ASSUME TypeInv
  PROVE  /\ ToSet(requests) \subseteq Page
         /\ IsFiniteSet(ToSet(requests))
         /\ \A r \in ToSet(requests) : r.walk \in ToSet(Walks[source]) /\ r.items \subseteq Item
<1>1. requests \in Seq(Page)
  BY DEF TypeInv
<1>2. ToSet(requests) \subseteq Page /\ IsFiniteSet(ToSet(requests))
  BY <1>1, Elements
<1> QED
  BY <1>2 DEF Page

(* A page adds its items to what is listed in the walk under way.          *)
LEMMA AnsweredAdds ==
  ASSUME TypeInv, NEW items \in SUBSET Item, Answered(items)
  PROVE  /\ requests' \in Seq(Page)
         /\ tries' = 0 /\ 0 \in 0..MaxTries - 1
         /\ \A w : UNION {r.items : r \in {q \in ToSet(requests') : q.walk = w}} =
                     IF w = Current THEN ListedIn(w) \cup items ELSE ListedIn(w)
<1> DEFINE page == [walk |-> Current, items |-> items]
<1>1. 0 \in 0..MaxTries - 1
  BY RetailerAssumption
<1>2. CASE items = {}
  BY <1>1, <1>2 DEF Answered, ListedIn, TypeInv
<1>3. CASE items # {}
  <2>1. page \in Page
    BY CurrentIsAWalk DEF Page
  <2>2. requests' = Append(requests, page)
    BY <1>3 DEF Answered
  <2>3. requests' \in Seq(Page) /\ ToSet(requests') = ToSet(requests) \cup {page}
    BY <2>1, <2>2, AppendedElements DEF TypeInv
  <2>4. ASSUME NEW w
        PROVE  UNION {r.items : r \in {q \in ToSet(requests') : q.walk = w}} =
                 IF w = Current THEN ListedIn(w) \cup items ELSE ListedIn(w)
    <3>1. page.walk = Current /\ page.items = items
      OBVIOUS
    <3>2. CASE w = Current
      BY <2>3, <3>1, <3>2 DEF ListedIn
    <3>3. CASE w # Current
      BY <2>3, <3>1, <3>3 DEF ListedIn
    <3> QED
      BY <3>2, <3>3
  <2> QED
    BY <1>1, <2>3, <2>4 DEF Answered
<1> QED
  BY <1>2, <1>3

LEMMA WalkAdvances ==
  ASSUME TypeInv, NEW next, EndWalk(next)
  PROVE  /\ walk' \in 1..Len(Walks[source])
         /\ pc' \in {"list", next}
<1>1. Len(Walks[source]) \in Nat
  BY WalkNames DEF TypeInv
<1> QED
  BY <1>1 DEF TypeInv, EndWalk, LastWalk

LEMMA CutShortTyped ==
  ASSUME TypeInv, NEW hidden \in BOOLEAN, CutShort(hidden)
  PROVE  /\ truncated \subseteq truncated'
         /\ truncated' \subseteq ToSet(Walks[source])
         /\ hidden => Current \in truncated'
  BY CurrentIsAWalk DEF TypeInv, CutShort

LEMMA PagesHoldItems ==
  ASSUME NEW list \in Seq(Item)
  PROVE  /\ FirstPage(list) \subseteq ToSet(list)
         /\ Dearest(list) \subseteq ToSet(list)
         /\ \A c : Cheapest(list, OfCategory(list, c)) \subseteq ToSet(list)
         /\ \A k : \A items \in SortedPages(k, list) : items \subseteq ToSet(list)
         /\ ToSet(list) \subseteq Item
<1>1. ToSet(list) \subseteq Item
  BY Elements
<1>2. FirstPage(list) \subseteq ToSet(list)
  BY DEF FirstPage, Cheapest, ToSet
<1>3. Dearest(list) \subseteq ToSet(list)
  BY DEF Dearest, ToSet
<1>4. \A c : Cheapest(list, OfCategory(list, c)) \subseteq ToSet(list)
  BY DEF Cheapest, OfCategory, ToSet
<1>5. \A k : SortedPages(k, list) \subseteq {FirstPage(list), Dearest(list)} \cup SUBSET ToSet(list)
  BY DEF SortedPages, kSubset
<1> QED
  BY <1>1, <1>2, <1>3, <1>4, <1>5

LEMMA FreshFetch ==
  ASSUME NEW lists \in Feeds
  PROVE  /\ lists \in [AllWalks -> Seq(Item)]
         /\ [w \in AllWalks |-> ToSet(lists[w])] \in [AllWalks -> SUBSET Item]
<1>1. lists \in [AllWalks -> Seq(Item)]
  BY RetailerAssumption
<1>2. \A w \in AllWalks : ToSet(lists[w]) \subseteq Item
  BY <1>1, Elements
<1> QED
  BY <1>1, <1>2

LEMMA InitTyped == Init => TypeInv /\ PayloadInv
<1> SUFFICES ASSUME Init
             PROVE  TypeInv /\ PayloadInv
  OBVIOUS
<1>1. feed \in [AllWalks -> Seq(Item)] /\ steady \in [AllWalks -> SUBSET Item]
  BY FreshFetch DEF Init
<1>2. walk \in 1..Len(Walks[source])
  BY WalkNames DEF Init
<1>3. requests \in Seq(Page)
  BY DEF Init
<1> QED
  BY <1>1, <1>2, <1>3, RetailerAssumption, ScrapeAssumption DEF Init, TypeInv, PayloadInv

LEMMA TypedStep == TypeInv /\ [Next]_vars => TypeInv'
<1> SUFFICES ASSUME TypeInv, [Next]_vars
             PROVE  TypeInv'
  OBVIOUS
<1> USE DEF vars, FetchVars, retailerVars, uniqloVars, ikeaVars
<1>1. /\ Current \in ToSet(Walks[source])
      /\ Current \in AllWalks
      /\ feed[Current] \in Seq(Item)
      /\ Len(feed[Current]) \in Nat
      /\ DOMAIN feed[Current] = 1..Len(feed[Current])
      /\ ToSet(feed[Current]) \subseteq Item
  BY CurrentIsAWalk, Elements
<1>2. ASSUME NEW n \in 0..PageSize, UniqloPage(n), UNCHANGED <<ikeaVars, attempt, payloads>>
      PROVE  TypeInv'
  <2>1. PageFrom(n) \in SUBSET Item
    BY <1>1, <1>2 DEF UniqloPage, PageFrom, Remaining, TypeInv, ToSet
  <2>2. requests' \in Seq(Page) /\ tries' \in 0..MaxTries - 1
    BY <1>2, <2>1, AnsweredAdds DEF UniqloPage
  <2>3. offset' \in Nat
    <3>1. n \in Nat /\ offset \in Nat
      BY RetailerAssumption DEF TypeInv
    <3>2. offset' = 0 \/ \E count \in {0, n} : offset' = offset + count
      BY <1>2 DEF UniqloPage, NextOffset
    <3> QED
      BY <3>1, <3>2
  <2>4. walk' \in 1..Len(Walks[source]) /\ pc' \in {"list", "stock"}
    BY <1>2, WalkAdvances DEF UniqloPage, StayInWalk, TypeInv
  <2>5. truncated' \subseteq ToSet(Walks[source])
    BY <1>1, <1>2 DEF UniqloPage, CutShort, TypeInv
  <2>6. UNCHANGED <<source, feed, moves, steady, removed, stock, categories, sorts>>
    BY <1>2 DEF UniqloPage
  <2> QED
    BY <2>2, <2>3, <2>4, <2>5, <2>6 DEF TypeInv, Page
<1>3. ASSUME FetchStock, UNCHANGED <<ikeaVars, attempt, payloads>>
      PROVE  TypeInv'
  <2> DEFINE pair == CHOOSE p \in Unasked : TRUE
  <2>1. PICK sizes \in {SizesOf[pair], Unknown} :
             stock' = stock \cup {[pair |-> pair, sizes |-> sizes]}
    BY <1>3 DEF FetchStock
  <2>2. pair \in Pairs
    BY <1>3 DEF FetchStock, Unasked
  <2>3. Pairs \subseteq Item
    BY PagesTyped DEF Pairs
  <2> HIDE DEF pair
  <2>4. stock' \subseteq [pair : Item, sizes : {Unknown} \cup {SizesOf[it] : it \in Item}]
    BY <2>1, <2>2, <2>3 DEF TypeInv
  <2>5. UNCHANGED <<source, feed, moves, steady, removed, pc, walk, tries, requests,
                    offset, truncated, categories, sorts>>
    BY <1>3 DEF FetchStock
  <2> QED
    BY <2>4, <2>5 DEF TypeInv, Page
<1>4. ASSUME EndStock, UNCHANGED <<ikeaVars, attempt, payloads>>
      PROVE  TypeInv'
  BY <1>4 DEF EndStock, TypeInv, Page
<1>5. ASSUME OffersPage, UNCHANGED <<uniqloVars, attempt, payloads>>
      PROVE  TypeInv'
  <2>1. requests' \in Seq(Page) /\ tries' \in 0..MaxTries - 1
    BY <1>1, <1>5, AnsweredAdds, PagesHoldItems DEF OffersPage
  <2>2. walk' \in 1..Len(Walks[source]) /\ pc' \in {"list", "fetched"}
    BY <1>5, WalkAdvances DEF OffersPage, StayInWalk, TypeInv
  <2>3. /\ categories' \subseteq {it[2] : it \in Item}
        /\ truncated' \subseteq ToSet(Walks[source])
    <3>1. PICK report \in Reports(feed[Current]), filter \in CategoryFilters :
               /\ categories' = CategoriesToAsk(report, filter)
               /\ CutShort(Exceeds(feed[Current], 1) /\ (~Capped(report) \/ filter = {}))
      BY <1>5 DEF OffersPage
    <3>2. categories' \subseteq CategoriesNow
      BY <3>1 DEF CategoriesToAsk, CategoryFilters
    <3>3. CategoriesNow \subseteq {it[2] : it \in Item}
      BY <1>1 DEF CategoriesNow
    <3>4. truncated' \subseteq ToSet(Walks[source])
      BY <3>1, CutShortTyped
    <3> QED
      BY <3>2, <3>3, <3>4
  <2>4. UNCHANGED <<source, feed, moves, steady, removed, offset, stock, sorts>>
    BY <1>5 DEF OffersPage
  <2> QED
    BY <2>1, <2>2, <2>3, <2>4 DEF TypeInv, Page
<1>6. ASSUME LastChancePage, UNCHANGED <<uniqloVars, attempt, payloads>>
      PROVE  TypeInv'
  <2>1. PICK items \in SortedPages(sorts + 1, feed[Current]) : Answered(items)
    BY <1>6 DEF LastChancePage
  <2>2. requests' \in Seq(Page) /\ tries' \in 0..MaxTries - 1
    BY <1>1, <2>1, AnsweredAdds, PagesHoldItems
  <2>3. walk' \in 1..Len(Walks[source]) /\ pc' \in {"list", "fetched"}
    BY <1>6, WalkAdvances DEF LastChancePage, StayInWalk, TypeInv
  <2>4. sorts' \in Nat
    BY <1>6 DEF LastChancePage, TypeInv
  <2>5. truncated' \subseteq ToSet(Walks[source])
    BY <1>6, CutShortTyped DEF LastChancePage
  <2>6. UNCHANGED <<source, feed, moves, steady, removed, offset, stock, categories>>
    BY <1>6 DEF LastChancePage
  <2> QED
    BY <2>2, <2>3, <2>4, <2>5, <2>6 DEF TypeInv, Page
<1>7. ASSUME NEW c \in categories, CategoryPage(c), UNCHANGED <<uniqloVars, attempt, payloads>>
      PROVE  TypeInv'
  <2>1. requests' \in Seq(Page) /\ tries' \in 0..MaxTries - 1
    BY <1>1, <1>7, AnsweredAdds, PagesHoldItems DEF CategoryPage
  <2>2. walk' \in 1..Len(Walks[source]) /\ pc' \in {"list", "fetched"}
    BY <1>7, WalkAdvances DEF CategoryPage, StayInWalk, TypeInv
  <2>3. categories' \subseteq {it[2] : it \in Item}
    BY <1>7 DEF CategoryPage, TypeInv
  <2>4. truncated' \subseteq ToSet(Walks[source])
    BY <1>1, <1>7 DEF CategoryPage, CutShort, TypeInv
  <2>5. UNCHANGED <<source, feed, moves, steady, removed, offset, stock, sorts>>
    BY <1>7 DEF CategoryPage
  <2> QED
    BY <2>1, <2>2, <2>3, <2>4, <2>5 DEF TypeInv, Page
<1>8. ASSUME RequestAgain
      PROVE  TypeInv'
  <2>1. tries' \in 0..MaxTries - 1
    BY <1>8, RetailerAssumption DEF RequestAgain, RetryRequest, TriesLeft, TypeInv
  <2> QED
    BY <1>8, <2>1 DEF RequestAgain, TypeInv, Page
<1>9. ASSUME Put \/ Return
      PROVE  TypeInv'
  BY <1>9 DEF Put, Return, TypeInv, Page
<1>10. ASSUME Raise
       PROVE  TypeInv'
  <2>1. feed' \in [AllWalks -> Seq(Item)] /\ steady' \in [AllWalks -> SUBSET Item]
    BY <1>10, FreshFetch DEF Raise
  <2>2. walk' \in 1..Len(Walks[source])
    BY <1>10, WalkNames DEF Raise, TypeInv
  <2>3. requests' \in Seq(Page)
    BY <1>10 DEF Raise
  <2>4. source' = source /\ removed' \in [AllWalks -> Nat] /\ moves' = 0
    BY <1>10 DEF Raise
  <2>5. pc' \in {"list", "failed"} /\ tries' \in 0..MaxTries - 1
    BY <1>10, RetailerAssumption DEF Raise
  <2>6. offset' = 0 /\ stock' = {} /\ truncated' = {} /\ categories' = {} /\ sorts' = 0
    BY <1>10 DEF Raise
  <2> QED
    BY <2>1, <2>2, <2>3, <2>4, <2>5, <2>6 DEF TypeInv, Page
<1>11. ASSUME NEW i \in DOMAIN feed[Current], Leave(i), UNCHANGED <<FetchVars, attempt, payloads>>
       PROVE  TypeInv'
  <2>1. RemoveAt(feed[Current], i) \in Seq(Item)
    BY <1>1, RemovedEntry
  <2>2. feed' \in [AllWalks -> Seq(Item)]
    BY <1>1, <1>11, <2>1 DEF Leave, TypeInv
  <2>3. steady' \in [AllWalks -> SUBSET Item] /\ removed' \in [AllWalks -> Nat] /\ moves' \in Nat
    BY <1>1, <1>11 DEF Leave, TypeInv
  <2>4. UNCHANGED <<source, pc, walk, tries, requests, offset, stock, truncated, categories, sorts>>
    BY <1>11 DEF Leave, FetchVars
  <2> QED
    BY <2>2, <2>3, <2>4 DEF TypeInv, Page
<1>12. ASSUME NEW i \in 1..Len(feed[Current]) + 1, NEW it \in Item, Enter(i, it),
              UNCHANGED <<FetchVars, attempt, payloads>>
       PROVE  TypeInv'
  <2>1. InsertAt(feed[Current], i, it) \in Seq(Item)
    BY <1>1, InsertedEntry
  <2>2. feed' \in [AllWalks -> Seq(Item)] /\ moves' \in Nat
    BY <1>1, <1>12, <2>1 DEF Enter, TypeInv
  <2>3. UNCHANGED <<source, steady, removed, pc, walk, tries, requests, offset, stock, truncated,
                    categories, sorts>>
    BY <1>12 DEF Enter, FetchVars
  <2> QED
    BY <2>2, <2>3 DEF TypeInv, Page
<1>13. ASSUME UNCHANGED vars
       PROVE  TypeInv'
  BY <1>13 DEF TypeInv, Page
<1> QED
  BY <1>2, <1>3, <1>4, <1>5, <1>6, <1>7, <1>8, <1>9, <1>10, <1>11, <1>12, <1>13
     DEF Next, Worker, UniqloStep, IkeaStep, RetailerMoves

LEMMA PayloadStep == TypeInv /\ PayloadInv /\ [Next]_vars => PayloadInv'
<1> SUFFICES ASSUME TypeInv, PayloadInv, [Next]_vars
             PROVE  PayloadInv'
  OBVIOUS
<1> USE DEF vars, FetchVars, retailerVars, uniqloVars, ikeaVars
<1>1. ASSUME UNCHANGED <<attempt, payloads>>, pc \in {"list", "stock", "fetched"},
             pc' \in {"list", "stock", "fetched"}
      PROVE  PayloadInv'
  BY <1>1 DEF PayloadInv
<1>2. ASSUME UniqloStep \/ IkeaStep
      PROVE  PayloadInv'
  <2>1. UNCHANGED <<attempt, payloads>>
    BY <1>2 DEF UniqloStep, IkeaStep
  <2>2. pc \in {"list", "stock"}
    BY <1>2 DEF UniqloStep, IkeaStep, UniqloPage, FetchStock, EndStock,
                OffersPage, LastChancePage, CategoryPage
  <2>3. pc' \in {"list", "stock", "fetched"}
    BY <1>2, <2>2 DEF UniqloStep, IkeaStep, UniqloPage, FetchStock, EndStock,
                      OffersPage, LastChancePage, CategoryPage, EndWalk, StayInWalk
  <2> QED
    BY <1>1, <2>1, <2>2, <2>3
<1>3. ASSUME RequestAgain \/ RetailerMoves
      PROVE  PayloadInv'
  BY <1>3 DEF RequestAgain, RetailerMoves, FetchVars, PayloadInv
<1>4. ASSUME Put
      PROVE  PayloadInv'
  BY <1>4, ScrapeAssumption DEF Put, PayloadInv
<1>5. ASSUME Return
      PROVE  PayloadInv'
  BY <1>5 DEF Return, PayloadInv
<1>6. ASSUME Raise
      PROVE  PayloadInv'
  <2>1. payloads' = payloads /\ payloads <= attempt
    BY <1>6, ScrapeAssumption DEF Raise, PayloadInv
  <2>2. CASE attempt < MaxAttempts /\ attempt' = attempt + 1 /\ pc' = "list"
    BY <2>1, <2>2, ScrapeAssumption DEF PayloadInv
  <2>3. CASE attempt = MaxAttempts /\ attempt' = attempt /\ pc' = "failed"
    BY <2>1, <2>3 DEF PayloadInv
  <2> QED
    BY <1>6, <2>2, <2>3 DEF Raise
<1>7. ASSUME UNCHANGED vars
      PROVE  PayloadInv'
  BY <1>7 DEF PayloadInv
<1> QED
  BY <1>2, <1>3, <1>4, <1>5, <1>6, <1>7 DEF Next, Worker

LEMMA TypesInvariant == Spec => [](TypeInv /\ PayloadInv)
<1>1. TypeInv /\ PayloadInv /\ [Next]_vars => (TypeInv /\ PayloadInv)'
  BY TypedStep, PayloadStep
<1> QED
  BY InitTyped, <1>1, PTL DEF Spec

(* A scrape keeps its types, and never puts more payloads than it makes    *)
(* attempts: each attempt of run_scrape puts one at most.                  *)
THEOREM ScrapeTypeCorrect == Spec => []ScrapeTypeOK
<1>1. TypeInv /\ PayloadInv => ScrapeTypeOK
  <2> SUFFICES ASSUME TypeInv, PayloadInv
               PROVE  ScrapeTypeOK
    OBVIOUS
  <2>1. \A w \in AllWalks : ToSet(feed[w]) \subseteq Item /\ steady[w] \subseteq Item
    BY Elements DEF TypeInv
  <2>2. \A r \in ToSet(requests) : r.walk \in ToSet(Walks[source]) /\ r.items \subseteq Item
    BY PagesTyped
  <2>3. payloads \in 0..MaxAttempts
    BY ScrapeAssumption DEF PayloadInv
  <2> QED
    BY <2>1, <2>2, <2>3 DEF TypeInv, ScrapeTypeOK
<1> QED
  BY <1>1, TypesInvariant, PTL

-----------------------------------------------------------------------------
(* The category of a pair.  The fold of parse() has a closed form: the one *)
(* walk whose pages list the pair, or UNISEX if there are several.         *)

LEMMA LeastNumber ==
  ASSUME NEW S \in SUBSET Nat, S # {}
  PROVE  \E m \in S : \A x \in S : m <= x
<1>1. PICK m \in S : \A x \in S : <<x, m>> \notin OpToRel(<, Nat)
  BY NatLessThanWellFounded, WFMin
<1>2. \A x \in S : ~(x < m)
  BY <1>1 DEF OpToRel
<1> QED
  BY <1>2

LEMMA LastPosition ==
  ASSUME NEW n \in Nat, NEW s \in SUBSET (1..n), s # {}
  PROVE  Max(s) \in s
<1> DEFINE back == {k \in 0..n : n - k \in s}
<1>1. back \in SUBSET Nat
  OBVIOUS
<1>2. PICK i \in s : TRUE
  OBVIOUS
<1>3. n - i \in back
  <2>1. i \in 1..n
    OBVIOUS
  <2>2. n - i \in 0..n /\ n - (n - i) = i
    BY <2>1
  <2> QED
    BY <2>2
<1>4. PICK k \in back : \A l \in back : k <= l
  <2> HIDE DEF back
  <2> QED
    BY <1>1, <1>3, LeastNumber
<1>5. \A x \in s : n - k >= x
  <2> SUFFICES ASSUME NEW x \in s
               PROVE  n - k >= x
    OBVIOUS
  <2>1. x \in 1..n
    OBVIOUS
  <2>2. n - x \in 0..n /\ n - (n - x) = x
    BY <2>1
  <2>3. n - x \in back
    BY <2>2
  <2>4. k <= n - x
    BY <1>4, <2>3
  <2> QED
    BY <2>1, <2>4
<1> QED
  BY <1>4, <1>5 DEF Max

(* The walks of the pages at some positions that list the pair.            *)
ListingWalks(pair, s) == {requests[i].walk : i \in {j \in s : pair \in requests[j].items}}

ByWalks(walks) ==
  IF walks = {} THEN "none"
  ELSE IF \E w \in walks : walks = {w} THEN CHOOSE w \in walks : TRUE ELSE "UNISEX"

LEMMA MergedByWalks ==
  ASSUME NEW walks, NEW w, walks \cup {w} \subseteq ToSet(Walks["uniqlo"]), "uniqlo" \in DOMAIN Walks
  PROVE  MergedCategory(ByWalks(walks), w) = ByWalks(walks \cup {w})
<1>1. \A v \in walks \cup {w} : v # "none" /\ v # "UNISEX"
  BY UniqloAssumption
<1>2. CASE walks = {}
  BY <1>1, <1>2 DEF MergedCategory, ByWalks
<1>3. CASE \E v \in walks : walks = {v}
  <2>1. PICK v \in walks : walks = {v}
    BY <1>3
  <2>2. ByWalks(walks) = v
    BY <2>1 DEF ByWalks
  <2>3. CASE v = w
    BY <1>1, <2>1, <2>2, <2>3 DEF MergedCategory
  <2>4. CASE v # w
    <3>1. ~\E u \in walks \cup {w} : walks \cup {w} = {u}
      BY <2>1, <2>4
    <3> QED
      BY <1>1, <2>1, <2>2, <2>4, <3>1 DEF MergedCategory, ByWalks
  <2> QED
    BY <2>3, <2>4
<1>4. CASE walks # {} /\ ~\E v \in walks : walks = {v}
  BY <1>1, <1>4 DEF MergedCategory, ByWalks
<1> QED
  BY <1>2, <1>3, <1>4

LEMMA CategoryByWalks ==
  ASSUME TypeInv, source = "uniqlo", NEW pair
  PROVE  Category(pair) = ByWalks(ListingWalks(pair, DOMAIN requests))
<1> DEFINE D == DOMAIN requests
           Step(f, s) ==
             IF s = {} THEN "none"
             ELSE LET i == Max(s)
                  IN  IF pair \in requests[i].items
                      THEN MergedCategory(f[s \ {i}], requests[i].walk) ELSE f[s \ {i}]
           IsFold(f) == f = [s \in SUBSET D |-> Step(f, s)]
           fold == CHOOSE f : IsFold(f)
           closed == [s \in SUBSET D |-> ByWalks(ListingWalks(pair, s))]
<1>1. Category(pair) = fold[D]
  BY DEF Category, FoldLeft, MapThenFoldSet
<1>2. /\ D = 1..Len(requests) /\ Len(requests) \in Nat
      /\ \A i \in D : requests[i].walk \in ToSet(Walks["uniqlo"])
  <2>1. requests \in Seq(Page)
    BY DEF TypeInv
  <2>2. D = 1..Len(requests) /\ Len(requests) \in Nat /\ \A i \in D : requests[i] \in Page
    BY <2>1, Elements
  <2> QED
    BY <2>2 DEF Page
<1>3. ASSUME NEW s \in SUBSET D
      PROVE  closed[s] = Step(closed, s)
  <2>1. CASE s = {}
    BY <2>1 DEF ListingWalks, ByWalks
  <2>2. CASE s # {}
    <3> DEFINE i == Max(s)
    <3>1. i \in s /\ i \in D
      BY <1>2, <2>2, LastPosition
    <3> HIDE DEF i, D
    <3>2. closed[s \ {i}] = ByWalks(ListingWalks(pair, s \ {i}))
      OBVIOUS
    <3>3. CASE pair \in requests[i].items
      <4>1. ListingWalks(pair, s) = ListingWalks(pair, s \ {i}) \cup {requests[i].walk}
        BY <3>1, <3>3 DEF ListingWalks
      <4>2. ListingWalks(pair, s) \subseteq ToSet(Walks["uniqlo"])
        BY <1>2 DEF ListingWalks
      <4>3. MergedCategory(ByWalks(ListingWalks(pair, s \ {i})), requests[i].walk)
              = ByWalks(ListingWalks(pair, s))
        BY <4>1, <4>2, MergedByWalks DEF TypeInv
      <4> QED
        BY <2>2, <3>2, <3>3, <4>3 DEF i
    <3>4. CASE pair \notin requests[i].items
      <4>1. ListingWalks(pair, s) = ListingWalks(pair, s \ {i})
        BY <3>1, <3>4 DEF ListingWalks
      <4> QED
        BY <2>2, <3>2, <3>4, <4>1 DEF i
    <3> QED
      BY <3>3, <3>4
  <2> QED
    BY <2>1, <2>2
<1>4. IsFold(closed)
  BY <1>3
<1>5. IsFold(fold)
  <2> HIDE DEF IsFold, closed
  <2> QED
    BY <1>4
<1>6. \A s \in SUBSET D : fold[s] = Step(fold, s)
  BY <1>5
<1>7. \A s \in SUBSET D : fold[s] = closed[s]
  <2> DEFINE apart == {s \in SUBSET D : fold[s] # closed[s]}
  <2>1. ASSUME NEW s \in apart
        PROVE  \E t \in apart : <<t, s>> \in StrictSubsetOrdering(D)
    <3>1. s # {}
      BY <1>3, <1>6
    <3>2. Max(s) \in s
      BY <1>2, <3>1, LastPosition
    <3> DEFINE t == s \ {Max(s)}
    <3>3. t \in SUBSET D /\ t # s
      BY <3>2
    <3>4. fold[t] # closed[t]
      <4> HIDE DEF fold, closed
      <4> QED
        BY <1>3, <1>6
    <3>5. <<t, s>> \in StrictSubsetOrdering(D)
      BY <3>3 DEF StrictSubsetOrdering
    <3> QED
      BY <3>3, <3>4, <3>5
  <2>2. apart \subseteq FiniteSubsetsOf(D)
    <3>1. IsFiniteSet(D)
      BY <1>2, FS_Interval
    <3>2. FiniteSubsetsOf(D) = SUBSET D
      BY <3>1, FS_FiniteSubsetsOfFinite
    <3> HIDE DEF fold, closed, D
    <3> QED
      BY <3>2
  <2>3. IsWellFoundedOn(StrictSubsetOrdering(D), FiniteSubsetsOf(D))
    BY FS_StrictSubsetOrderingWellFounded
  <2>4. apart = {}
    <3> HIDE DEF apart, D
    <3> QED
      BY <2>1, <2>2, <2>3, WFMin
  <2> QED
    BY <2>4
<1> QED
  BY <1>1, <1>7

LEMMA UnisexOnSeveralWalks ==
  ASSUME TypeInv, source = "uniqlo", NEW pair
  PROVE  Category(pair) = "UNISEX" <=>
           Cardinality({w \in ToSet(Walks[source]) : pair \in ListedIn(w)}) > 1
<1> DEFINE walks == {w \in ToSet(Walks[source]) : pair \in ListedIn(w)}
<1>1. ListingWalks(pair, DOMAIN requests) = walks
  BY PagesTyped DEF ListingWalks, ListedIn, ToSet
<1>2. Category(pair) = ByWalks(walks)
  BY <1>1, CategoryByWalks
<1>3. IsFiniteSet(walks)
  <2>1. IsFiniteSet(ToSet(Walks[source]))
    BY WalkNames, Elements DEF TypeInv
  <2> QED
    BY <2>1, FS_Subset
<1>4. \A w \in walks : w # "UNISEX"
  BY UniqloAssumption DEF TypeInv
<1> HIDE DEF walks
<1>5. Cardinality(walks) \in Nat /\ (Cardinality(walks) = 0 <=> walks = {})
      /\ (Cardinality(walks) = 1 <=> \E w : walks = {w})
  BY <1>3, FS_CardinalityType, FS_EmptySet, FS_Singleton
<1>6. CASE walks = {}
  BY <1>2, <1>5, <1>6 DEF ByWalks, walks
<1>7. CASE \E w \in walks : walks = {w}
  <2>1. ByWalks(walks) \in walks
    BY <1>7 DEF ByWalks
  <2>2. Cardinality(walks) = 1
    BY <1>5, <1>7
  <2> QED
    BY <1>2, <1>4, <2>1, <2>2 DEF walks
<1>8. CASE walks # {} /\ ~\E w \in walks : walks = {w}
  <2>1. ByWalks(walks) = "UNISEX"
    BY <1>8 DEF ByWalks
  <2>2. Cardinality(walks) # 0 /\ Cardinality(walks) # 1
    BY <1>5, <1>8
  <2>3. Cardinality(walks) > 1
    BY <1>5, <2>2
  <2> QED
    BY <1>2, <2>1, <2>3 DEF walks
<1> QED
  BY <1>6, <1>7, <1>8

(* A stock answer is that of its own pair, or unknown.                     *)
StockInv == \A s \in stock : s.sizes \in {SizesOf[s.pair], Unknown}

LEMMA StockStep == StockInv /\ [Next]_vars => StockInv'
<1> SUFFICES ASSUME StockInv, [Next]_vars
             PROVE  StockInv'
  OBVIOUS
<1> USE DEF vars, FetchVars, retailerVars, uniqloVars, ikeaVars
<1>1. ASSUME FetchStock
      PROVE  StockInv'
  <2> DEFINE pair == CHOOSE p \in Unasked : TRUE
  <2>1. PICK sizes \in {SizesOf[pair], Unknown} :
             stock' = stock \cup {[pair |-> pair, sizes |-> sizes]}
    BY <1>1 DEF FetchStock
  <2> HIDE DEF pair
  <2> QED
    BY <2>1 DEF StockInv
<1>2. ASSUME stock' = stock
      PROVE  StockInv'
  BY <1>2 DEF StockInv
<1>3. ASSUME Raise
      PROVE  StockInv'
  BY <1>3 DEF Raise, StockInv
<1>4. ASSUME NEW n \in 0..PageSize, UniqloPage(n)
      PROVE  stock' = stock
  BY <1>4 DEF UniqloPage
<1>5. EndStock \/ IkeaStep \/ RequestAgain \/ Put \/ Return \/ UNCHANGED vars => stock' = stock
  BY DEF EndStock, IkeaStep, RequestAgain, Put, Return
<1>6. RetailerMoves => stock' = stock
  BY DEF RetailerMoves, FetchVars
<1> QED
  BY <1>1, <1>2, <1>3, <1>4, <1>5, <1>6 DEF Next, Worker, UniqloStep

(* In every payload under construction an item is UNISEX exactly when two  *)
(* paths list it, however often a moving list repeats it on one path, and  *)
(* the sizes of a pair are its own stock answer, or unknown: parse() joins *)
(* what belongs together, for every catalog and page size.                 *)
THEOREM SnapshotsAreJoined == Spec => []SnapshotsJoinTheirOwn
<1>1. Init => StockInv
  BY DEF Init, StockInv
<1>2. Spec => []StockInv
  BY <1>1, StockStep, PTL DEF Spec
<1>3. TypeInv /\ StockInv => SnapshotsJoinTheirOwn
  <2> SUFFICES ASSUME TypeInv, StockInv, source = "uniqlo", NEW pair \in Pairs
               PROVE  /\ Category(pair) = "UNISEX" <=>
                           Cardinality({w \in ToSet(Walks[source]) : pair \in ListedIn(w)}) > 1
                      /\ Sizes(pair) \in {SizesOf[pair], Unknown}
                      /\ [pair |-> pair, sizes |-> SizesOf[pair]] \in stock => Sizes(pair) = SizesOf[pair]
    BY DEF SnapshotsJoinTheirOwn
  <2> DEFINE known == {s \in stock : s.sizes # Unknown /\ s.pair = pair}
  <2>1. \A s \in known : s.sizes = SizesOf[pair]
    BY DEF StockInv
  <2>2. Sizes(pair) = IF known = {} THEN Unknown ELSE (CHOOSE s \in known : TRUE).sizes
    BY DEF Sizes, StockKey
  <2>3. known # {} => Sizes(pair) = SizesOf[pair]
    BY <2>1, <2>2
  <2>4. [pair |-> pair, sizes |-> SizesOf[pair]] \in stock /\ SizesOf[pair] # Unknown => known # {}
    <3> SUFFICES ASSUME [pair |-> pair, sizes |-> SizesOf[pair]] \in stock, SizesOf[pair] # Unknown
                 PROVE  known # {}
      OBVIOUS
    <3>1. [pair |-> pair, sizes |-> SizesOf[pair]] \in known
      OBVIOUS
    <3> QED
      BY <3>1
  <2> HIDE DEF known
  <2> QED
    BY <2>2, <2>3, <2>4, UnisexOnSeveralWalks
<1> QED
  BY <1>2, <1>3, TypesInvariant, PTL

-----------------------------------------------------------------------------
(* What is left of a list while it moves, and what a page takes of it.     *)

Rest(list, o) == {list[j] : j \in {k \in DOMAIN list : k > o}}

LEMMA RestOfRemoved ==
  ASSUME NEW S, NEW list \in Seq(S), NEW i \in DOMAIN list, NEW o \in Nat
  PROVE  /\ Rest(list, o) \subseteq Rest(RemoveAt(list, i), o) \cup {list[i], list[o + 1]}
         /\ ToSet(list) \subseteq ToSet(RemoveAt(list, i)) \cup {list[i]}
<1> DEFINE short == RemoveAt(list, i)
<1>1. /\ short \in Seq(S)
      /\ Len(short) = Len(list) - 1
      /\ \A j \in 1..Len(list) - 1 : short[j] = IF j < i THEN list[j] ELSE list[j + 1]
  BY RemovedEntry
<1>2. /\ DOMAIN list = 1..Len(list) /\ Len(list) \in Nat
      /\ DOMAIN short = 1..Len(list) - 1
  BY <1>1, Elements
<1> HIDE DEF short
<1>3. ASSUME NEW j \in DOMAIN list, j < i
      PROVE  j \in DOMAIN short /\ short[j] = list[j]
  BY <1>1, <1>2, <1>3
<1>4. ASSUME NEW j \in DOMAIN list, j > i
      PROVE  j - 1 \in DOMAIN short /\ short[j - 1] = list[j]
  <2>1. j - 1 \in 1..Len(list) - 1 /\ ~(j - 1 < i) /\ j - 1 + 1 = j
    BY <1>2, <1>4
  <2> QED
    BY <1>1, <1>2, <2>1
<1>5. ASSUME NEW j \in DOMAIN list
      PROVE  list[j] \in ToSet(short) \cup {list[i]}
  <2>1. j < i \/ j = i \/ j > i
    BY <1>2
  <2> QED
    BY <1>3, <1>4, <2>1 DEF ToSet
<1>6. ASSUME NEW j \in DOMAIN list, j > o
      PROVE  list[j] \in Rest(short, o) \cup {list[i], list[o + 1]}
  <2>1. CASE j < i
    BY <1>3, <1>6, <2>1 DEF Rest
  <2>2. CASE j > i /\ j - 1 > o
    BY <1>4, <2>2 DEF Rest
  <2>3. CASE j > i /\ j - 1 <= o
    <3>1. j = o + 1
      BY <1>2, <1>6, <2>3
    <3> QED
      BY <3>1
  <2> QED
    BY <1>2, <2>1, <2>2, <2>3
<1>7. Rest(list, o) \subseteq Rest(short, o) \cup {list[i], list[o + 1]}
  BY <1>6 DEF Rest
<1>8. ToSet(list) \subseteq ToSet(short) \cup {list[i]}
  BY <1>5 DEF ToSet
<1> QED
  BY <1>7, <1>8 DEF short

LEMMA RestOfInserted ==
  ASSUME NEW S, NEW list \in Seq(S), NEW i \in 1..Len(list) + 1, NEW e \in S, NEW o \in Nat
  PROVE  /\ Rest(list, o) \subseteq Rest(InsertAt(list, i, e), o)
         /\ ToSet(list) \subseteq ToSet(InsertAt(list, i, e))
<1> DEFINE long == InsertAt(list, i, e)
<1>1. /\ long \in Seq(S)
      /\ Len(long) = Len(list) + 1
      /\ \A j \in 1..Len(list) + 1 :
           long[j] = IF j < i THEN list[j] ELSE IF j = i THEN e ELSE list[j - 1]
  BY InsertedEntry
<1>2. /\ DOMAIN list = 1..Len(list) /\ Len(list) \in Nat
      /\ DOMAIN long = 1..Len(list) + 1
  BY <1>1, Elements
<1> HIDE DEF long
<1>3. ASSUME NEW j \in DOMAIN list
      PROVE  \E k \in DOMAIN long : k >= j /\ long[k] = list[j]
  <2>1. CASE j < i
    BY <1>1, <1>2, <2>1
  <2>2. CASE j >= i
    <3>1. j + 1 \in 1..Len(list) + 1 /\ ~(j + 1 < i) /\ j + 1 # i /\ j + 1 - 1 = j /\ j + 1 >= j
      BY <1>2, <2>2
    <3> QED
      BY <1>1, <1>2, <3>1
  <2> QED
    BY <1>2, <2>1, <2>2
<1>4. ToSet(list) \subseteq ToSet(long)
  BY <1>3 DEF ToSet
<1>5. ASSUME NEW j \in DOMAIN list, j > o
      PROVE  list[j] \in Rest(long, o)
  <2>1. PICK k \in DOMAIN long : k >= j /\ long[k] = list[j]
    BY <1>3
  <2>2. k > o
    BY <1>2, <1>5, <2>1
  <2> QED
    BY <2>1, <2>2 DEF Rest
<1> QED
  BY <1>4, <1>5 DEF Rest, long

(* A first page leaves what is past it; the page of a category that fits   *)
(* leaves nothing of the category; the dearest page of a list of at most   *)
(* two pages takes what the cheapest left.                                 *)
LEMMA FirstPageTakes ==
  ASSUME NEW list \in Seq(Item)
  PROVE  /\ ToSet(list) \subseteq FirstPage(list) \cup Rest(list, PageSize)
         /\ ~Exceeds(list, 1) => ToSet(list) \subseteq FirstPage(list)
<1>1. DOMAIN list = 1..Len(list) /\ Len(list) \in Nat /\ PageSize \in Nat
  BY Elements, RetailerAssumption
<1>2. ASSUME NEW j \in DOMAIN list, j <= PageSize
      PROVE  list[j] \in FirstPage(list)
  <2> DEFINE before == {k \in DOMAIN list : k < j}
  <2>1. before = 1..j - 1
    BY <1>1
  <2>2. Cardinality(before) < PageSize
    <3> HIDE DEF before
    <3>1. 1 \in Int /\ j - 1 \in Int /\ ~(1 > j)
      BY <1>1
    <3>2. Cardinality(1..j - 1) = IF 1 > j - 1 THEN 0 ELSE j - 1 - 1 + 1
      BY <3>1, FS_Interval
    <3>3. Cardinality(before) = j - 1
      BY <1>1, <2>1, <3>2
    <3> QED
      BY <1>1, <1>2, <3>3
  <2> QED
    BY <2>2 DEF FirstPage, Cheapest
<1>3. ASSUME NEW j \in DOMAIN list, ~(j <= PageSize)
      PROVE  list[j] \in Rest(list, PageSize) /\ Exceeds(list, 1)
  BY <1>1, <1>3 DEF Rest, Exceeds
<1> QED
  BY <1>2, <1>3 DEF ToSet

LEMMA CategoryPageTakes ==
  ASSUME NEW list \in Seq(Item), NEW c, Cardinality(OfCategory(list, c)) <= PageSize
  PROVE  \A it \in ToSet(list) : it[2] = c => it \in Cheapest(list, OfCategory(list, c))
<1> DEFINE P == OfCategory(list, c)
<1>1. DOMAIN list = 1..Len(list) /\ Len(list) \in Nat /\ PageSize \in Nat
  BY Elements, RetailerAssumption
<1>2. IsFiniteSet(P) /\ P \subseteq 1..Len(list)
  <2>1. P \subseteq 1..Len(list)
    BY <1>1 DEF OfCategory
  <2>2. IsFiniteSet(1..Len(list))
    BY <1>1, FS_Interval
  <2> QED
    BY <2>1, <2>2, FS_Subset
<1>3. \A j \in DOMAIN list : list[j][2] = c => j \in P
  BY DEF OfCategory
<1>4. Cardinality(P) <= PageSize
  OBVIOUS
<1> HIDE DEF P
<1>5. ASSUME NEW j \in P
      PROVE  Cardinality({k \in P : k < j}) < PageSize
  <2> DEFINE before == {k \in P : k < j}
  <2>1. before \subseteq P /\ before # P
    BY <1>1, <1>2
  <2>2. Cardinality(before) \in Nat /\ Cardinality(P) \in Nat /\ Cardinality(before) < Cardinality(P)
    <3> HIDE DEF before
    <3>1. /\ IsFiniteSet(before)
          /\ Cardinality(before) <= Cardinality(P)
          /\ Cardinality(P) = Cardinality(before) => P = before
      BY <1>2, <2>1, FS_Subset
    <3>2. Cardinality(before) \in Nat /\ Cardinality(P) \in Nat
      BY <1>2, <3>1, FS_CardinalityType
    <3> QED
      BY <2>1, <3>1, <3>2
  <2> QED
    BY <1>1, <1>4, <2>2
<1>6. \A j \in P : list[j] \in Cheapest(list, P)
  BY <1>5 DEF Cheapest
<1> QED
  BY <1>3, <1>6 DEF ToSet, P

LEMMA DearestTakes ==
  ASSUME NEW list \in Seq(Item), ~Exceeds(list, 2)
  PROVE  Rest(list, PageSize) \subseteq Dearest(list)
<1>1. DOMAIN list = 1..Len(list) /\ Len(list) \in Nat /\ PageSize \in Nat
  BY Elements, RetailerAssumption
<1>2. \A j \in DOMAIN list : j > PageSize => j > Len(list) - PageSize
  BY <1>1 DEF Exceeds
<1> QED
  BY <1>2 DEF Rest, Dearest

-----------------------------------------------------------------------------
(* Steady items.  On the walk under way they are listed or still ahead, on *)
(* a walk that is over they are listed, but for one per departure, unless  *)
(* an answer hid a part of the list.                                       *)

Ahead ==
  IF source = "uniqlo" THEN Rest(feed[Current], offset)
  ELSE IF Current # "LAST_CHANCE"
       THEN {it \in ToSet(feed[Current]) : categories = {} \/ it[2] \in categories}
       ELSE IF sorts = 0 THEN ToSet(feed[Current])
            ELSE IF sorts = 1 THEN Rest(feed[Current], PageSize) ELSE {}

Lost(w) == steady[w] \ ListedIn(w)

WalkOver(k) == k < walk \/ pc # "list"

ListsInv ==
  /\ \A w \in AllWalks : IsFiniteSet(steady[w])
  /\ source = "ikea" /\ walk < Len(Walks[source]) => sorts = 0

UnreadInv ==
  pc = "list" => \A k \in walk + 1 .. Len(Walks[source]) :
                   steady[Walks[source][k]] \subseteq ToSet(feed[Walks[source][k]])

UnderWayInv ==
  pc = "list" => Current \in truncated \/ Cardinality(Lost(Current) \ Ahead) <= removed[Current]

OverInv ==
  pc # "failed" => \A k \in 1..Len(Walks[source]) :
    WalkOver(k) => \/ Walks[source][k] \in truncated
                   \/ Cardinality(Lost(Walks[source][k])) <= removed[Walks[source][k]]

LossInv == ListsInv /\ UnreadInv /\ UnderWayInv /\ OverInv

LEMMA LossCounts ==
  ASSUME NEW S, IsFiniteSet(S), NEW T
  PROVE  /\ IsFiniteSet(T) => Cardinality(T) \in Nat
         /\ T \subseteq S => IsFiniteSet(T) /\ Cardinality(T) \in Nat /\ Cardinality(T) <= Cardinality(S)
         /\ \A e : T \subseteq S \cup {e} => Cardinality(T) <= Cardinality(S) + 1
         /\ Cardinality(S) \in Nat
<1>1. Cardinality(S) \in Nat
  BY FS_CardinalityType
<1>2. ASSUME NEW e, T \subseteq S \cup {e}
      PROVE  Cardinality(T) <= Cardinality(S) + 1
  <2>1. IsFiniteSet(S \cup {e}) /\ Cardinality(S \cup {e}) <= Cardinality(S) + 1
    BY <1>1, FS_AddElement
  <2>2. /\ Cardinality(T) \in Nat /\ Cardinality(S \cup {e}) \in Nat
        /\ Cardinality(T) <= Cardinality(S \cup {e})
    BY <1>2, <2>1, FS_Subset, FS_CardinalityType
  <2> QED
    BY <1>1, <2>1, <2>2
<1>3. T \subseteq S => IsFiniteSet(T) /\ Cardinality(T) \in Nat /\ Cardinality(T) <= Cardinality(S)
  BY FS_Subset, FS_CardinalityType
<1> QED
  BY <1>1, <1>2, <1>3, FS_CardinalityType

LEMMA WalkInOrder ==
  ASSUME TypeInv
  PROVE  /\ Len(Walks[source]) \in Nat /\ walk \in 1..Len(Walks[source])
         /\ \A k \in 1..Len(Walks[source]) : Walks[source][k] \in AllWalks
         /\ \A k \in 1..Len(Walks[source]) : Walks[source][k] = Current => k = walk
         /\ source = "ikea" => (Current = "LAST_CHANCE" <=> walk = Len(Walks[source]))
<1>1. /\ Walks[source] \in Seq(STRING) /\ Len(Walks[source]) \in Nat
      /\ DOMAIN Walks[source] = 1..Len(Walks[source])
      /\ ToSet(Walks[source]) \subseteq AllWalks
      /\ \A i, j \in 1..Len(Walks[source]) : Walks[source][i] = Walks[source][j] => i = j
  BY WalkNames DEF TypeInv
<1>2. \A k \in 1..Len(Walks[source]) : Walks[source][k] \in AllWalks
  BY <1>1 DEF ToSet
<1>3. source = "ikea" => Walks[source][Len(Walks[source])] = "LAST_CHANCE"
  BY IkeaAssumption DEF TypeInv
<1>4. walk \in 1..Len(Walks[source]) /\ Len(Walks[source]) \in 1..Len(Walks[source])
  BY <1>1 DEF TypeInv
<1> QED
  BY <1>1, <1>2, <1>3, <1>4 DEF Current

(* A page of the walk under way: what was ahead is on the page or stays    *)
(* ahead, and when the walk ends nothing stays, or else the answer hid it. *)
LEMMA PageRead ==
  ASSUME TypeInv, LossInv, pc = "list",
         NEW items \in SUBSET Item, Answered(items), UNCHANGED retailerVars,
         truncated \subseteq truncated', source = "ikea" => sorts' = sorts \/ LastWalk,
         \/ StayInWalk /\ (Ahead \subseteq items \cup Ahead' \/ Current \in truncated')
         \/ /\ EndWalk("stock") \/ EndWalk("fetched")
            /\ Ahead \subseteq items \/ Current \in truncated'
            /\ ~LastWalk => Ahead' = ToSet(feed[Walks[source][walk + 1]])
  PROVE  LossInv'
<1> DEFINE W == Walks[source]
<1>1. /\ Len(W) \in Nat /\ walk \in 1..Len(W)
      /\ \A k \in 1..Len(W) : W[k] \in AllWalks
  BY WalkInOrder
<1>2. PICK c \in AllWalks : c = Current /\ c = W[walk]
  BY CurrentIsAWalk DEF Current
<1>3. UNCHANGED <<source, feed, moves, steady, removed>>
  BY DEF retailerVars
<1>4. ASSUME NEW w \in AllWalks
      PROVE  /\ Lost(w)' \subseteq Lost(w)
             /\ w = c => Lost(w)' \subseteq Lost(w) \ items
             /\ IsFiniteSet(Lost(w)) /\ removed[w] \in Nat
  <2>1. ListedIn(w)' = IF w = c THEN ListedIn(w) \cup items ELSE ListedIn(w)
    BY <1>2, AnsweredAdds DEF ListedIn
  <2>2. IsFiniteSet(Lost(w))
    BY FS_Subset DEF Lost, LossInv, ListsInv
  <2> QED
    BY <1>3, <2>1, <2>2 DEF Lost, TypeInv
<1>5. ASSUME NEW w \in AllWalks, NEW T, Lost(w)' \subseteq T, IsFiniteSet(T), Cardinality(T) <= removed[w]
      PROVE  Cardinality(Lost(w)') <= removed'[w]
  <2>1. Cardinality(Lost(w)') \in Nat /\ Cardinality(T) \in Nat /\ Cardinality(Lost(w)') <= Cardinality(T)
    BY <1>5, LossCounts
  <2> QED
    BY <1>3, <1>4, <1>5, <2>1
<1>6. /\ IsFiniteSet(Lost(c) \ Ahead)
      /\ c \in truncated' \/ Cardinality(Lost(c) \ Ahead) <= removed[c]
  <2>1. IsFiniteSet(Lost(c) \ Ahead)
    BY <1>4, FS_Subset
  <2> QED
    BY <1>2, <2>1 DEF LossInv, UnderWayInv
<1>7. ASSUME NEW k \in 1..Len(W), k < walk
      PROVE  W[k] \in truncated' \/ Cardinality(Lost(W[k])') <= removed'[W[k]]
  <2>1. W[k] \in truncated \/ Cardinality(Lost(W[k])) <= removed[W[k]]
    BY <1>7 DEF LossInv, OverInv, WalkOver
  <2>2. PICK w \in AllWalks : w = W[k]
    BY <1>1
  <2>3. W[k]' = w
    BY <1>3, <2>2
  <2>4. w \in truncated' \/ Cardinality(Lost(w)') <= removed'[w]
    BY <1>4, <1>5, <2>1, <2>2
  <2> QED
    BY <2>2, <2>3, <2>4 DEF Lost
<1>8. ListsInv'
  <2>1. walk' < Len(W) => walk < Len(W) /\ ~LastWalk
    BY <1>1 DEF StayInWalk, EndWalk, LastWalk
  <2>2. source' = "ikea" /\ walk' < Len(W) => sorts' = 0
    BY <1>3, <2>1 DEF LossInv, ListsInv
  <2> QED
    BY <1>3, <2>2 DEF LossInv, ListsInv
<1>9. CASE StayInWalk /\ (Ahead \subseteq items \cup Ahead' \/ c \in truncated')
  <2>1. walk' = walk /\ pc' = pc /\ Current' = c
    BY <1>2, <1>3, <1>9 DEF StayInWalk, Current
  <2>2. UnreadInv'
    BY <1>3, <2>1 DEF LossInv, UnreadInv
  <2>3. UnderWayInv'
    <3> SUFFICES ASSUME c \notin truncated'
                 PROVE  UnderWayInv'
      BY <2>1 DEF UnderWayInv
    <3> DEFINE now == Lost(c)' \ Ahead'
               before == Lost(c) \ Ahead
    <3>1. now \subseteq before
      BY <1>4, <1>9
    <3>2. now = (Lost(Current) \ Ahead)'
      BY <2>1 DEF Lost
    <3> HIDE DEF now, before
    <3>3. Cardinality(now) \in Nat /\ Cardinality(before) \in Nat /\ Cardinality(now) <= Cardinality(before)
      BY <1>6, <3>1, LossCounts DEF before
    <3>4. Cardinality(now) <= removed'[c]
      BY <1>3, <1>4, <1>6, <3>3 DEF before
    <3> QED
      BY <2>1, <3>2, <3>4 DEF UnderWayInv
  <2>4. OverInv'
    <3>1. \A k \in 1..Len(W) : WalkOver(k)' => k < walk
      BY <2>1 DEF WalkOver
    <3> QED
      BY <1>3, <1>7, <3>1 DEF OverInv
  <2> QED
    BY <1>8, <2>2, <2>3, <2>4 DEF LossInv
<1>10. ASSUME EndWalk("stock") \/ EndWalk("fetched"), Ahead \subseteq items \/ Current \in truncated',
              ~LastWalk => Ahead' = ToSet(feed[W[walk + 1]])
       PROVE  LossInv'
  <2>1. c \in truncated' \/ Cardinality(Lost(c)') <= removed'[c]
    <3>1. CASE Ahead \subseteq items
      <4>1. Lost(c)' \subseteq Lost(c) \ Ahead
        BY <1>4, <3>1
      <4> QED
        BY <1>5, <1>6, <4>1
    <3> QED
      BY <1>2, <1>10, <3>1
  <2>2. CASE LastWalk
    <3>1. walk' = walk /\ walk = Len(W) /\ pc' \in {"stock", "fetched"}
      BY <1>10, <2>2 DEF EndWalk, LastWalk
    <3>2. UnreadInv' /\ UnderWayInv'
      BY <3>1 DEF UnreadInv, UnderWayInv
    <3>3. \A k \in 1..Len(W) : k < walk \/ k = walk
      BY <1>1, <3>1
    <3>4. OverInv'
      BY <1>2, <1>3, <1>7, <2>1, <3>3 DEF OverInv
    <3> QED
      BY <1>8, <3>2, <3>4 DEF LossInv
  <2>3. CASE ~LastWalk
    <3>1. walk' = walk + 1 /\ pc' = "list" /\ walk + 1 \in 1..Len(W)
      BY <1>1, <1>10, <2>3 DEF EndWalk, LastWalk
    <3>2. PICK n \in AllWalks : n = W[walk + 1]
      BY <1>1, <3>1
    <3>3. Current' = n
      BY <1>3, <3>1, <3>2 DEF Current
    <3>4. UnreadInv'
      <4>1. \A k \in walk' + 1 .. Len(W) : k \in walk + 1 .. Len(W)
        BY <1>1, <3>1
      <4> QED
        BY <1>3, <4>1 DEF LossInv, UnreadInv
    <3>5. UnderWayInv'
      <4>1. steady[n] \subseteq ToSet(feed[n])
        <5>1. walk + 1 \in walk + 1 .. Len(W)
          BY <1>1, <3>1
        <5> QED
          BY <3>2, <5>1 DEF LossInv, UnreadInv
      <4>2. (Lost(Current) \ Ahead)' = {}
        BY <1>3, <1>10, <2>3, <3>2, <3>3, <4>1 DEF Lost
      <4>3. removed'[n] \in Nat
        BY <1>3, <1>4
      <4>4. Cardinality((Lost(Current) \ Ahead)') = 0
        BY <4>2, FS_EmptySet
      <4> QED
        BY <3>3, <4>3, <4>4 DEF UnderWayInv
    <3>6. OverInv'
      <4>1. \A k \in 1..Len(W) : WalkOver(k)' => k < walk \/ k = walk
        BY <1>1, <3>1 DEF WalkOver
      <4> QED
        BY <1>2, <1>3, <1>7, <2>1, <4>1 DEF OverInv
    <3> QED
      BY <1>8, <3>4, <3>5, <3>6 DEF LossInv
  <2> QED
    BY <2>2, <2>3
<1> QED
  BY <1>2, <1>9, <1>10

LEMMA WholeRest ==
  ASSUME NEW S, NEW list \in Seq(S)
  PROVE  Rest(list, 0) = ToSet(list)
<1>1. DOMAIN list = 1..Len(list) /\ Len(list) \in Nat
  BY Elements
<1> QED
  BY <1>1 DEF Rest, ToSet

LEMMA UniqloLoss ==
  ASSUME TypeInv, LossInv, NEW n \in 0..PageSize, UniqloPage(n), UNCHANGED ikeaVars
  PROVE  LossInv'
<1>1. PICK c \in AllWalks : c = Current /\ c = Walks[source][walk]
  BY CurrentIsAWalk DEF Current
<1>2. PICK list \in Seq(Item) : list = feed[c]
  BY <1>1 DEF TypeInv
<1>3. /\ DOMAIN list = 1..Len(list) /\ Len(list) \in Nat
      /\ \A j \in 1..Len(list) : list[j] \in Item
  BY Elements
<1>4. /\ source = "uniqlo" /\ pc = "list" /\ offset \in Nat /\ n \in Nat
      /\ UNCHANGED retailerVars /\ source' = source /\ feed' = feed
      /\ Answered(PageFrom(n))
  BY RetailerAssumption DEF UniqloPage, retailerVars, TypeInv
<1>5. /\ Ahead = Rest(list, offset)
      /\ PageFrom(n) = {list[j] : j \in offset + 1 .. offset + n}
      /\ Remaining = IF offset < Len(list) THEN Len(list) - offset ELSE 0
      /\ n <= Remaining
  BY <1>1, <1>2, <1>4 DEF Ahead, PageFrom, Remaining, UniqloPage
<1>6. PageFrom(n) \in SUBSET Item
  BY <1>3, <1>4, <1>5
<1>7. /\ truncated \subseteq truncated'
      /\ \/ EndWalk("stock") /\ offset' = 0 /\ CutShort(n < Remaining)
         \/ StayInWalk /\ offset' = offset + n
  <2>1. PICK count \in {0, n}, total \in 0..Len(feed[Current]) :
             \/ /\ PathEnded(count, total)
                /\ offset' = 0 /\ CutShort(n < Remaining) /\ EndWalk("stock")
             \/ /\ ~PathEnded(count, total)
                /\ offset' = NextOffset(count) /\ CutShort(FALSE) /\ StayInWalk
    BY DEF UniqloPage
  <2>2. ~PathEnded(count, total) => count = n
    BY DEF PathEnded
  <2> QED
    BY <2>1, <2>2 DEF CutShort, NextOffset
<1>8. CASE EndWalk("stock") /\ offset' = 0 /\ CutShort(n < Remaining)
  <2>1. EndWalk("stock") /\ offset' = 0
    BY <1>8
  <2>2. Ahead \subseteq PageFrom(n) \/ Current \in truncated'
    <3>1. CASE n < Remaining
      BY <1>8, <3>1 DEF CutShort
    <3>2. CASE ~(n < Remaining)
      <4>1. offset + n >= Len(list)
        <5>1. CASE offset < Len(list)
          <6>1. Remaining = Len(list) - offset
            BY <1>5, <5>1
          <6> QED
            BY <1>3, <1>4, <3>2, <6>1
        <5>2. CASE ~(offset < Len(list))
          BY <1>3, <1>4, <5>2
        <5> QED
          BY <5>1, <5>2
      <4>2. \A j \in DOMAIN list : j > offset => j \in offset + 1 .. offset + n
        BY <1>3, <1>4, <4>1
      <4> QED
        BY <1>5, <4>2 DEF Rest
    <3> QED
      BY <3>1, <3>2
  <2>3. ~LastWalk => Ahead' = ToSet(feed[Walks[source][walk + 1]])
    <3> SUFFICES ASSUME ~LastWalk
                 PROVE  Ahead' = ToSet(feed[Walks[source][walk + 1]])
      OBVIOUS
    <3>1. walk' = walk + 1 /\ walk + 1 \in 1..Len(Walks[source])
      BY <2>1, WalkInOrder DEF EndWalk, LastWalk
    <3>2. PICK w \in AllWalks : w = Walks[source][walk + 1]
      BY <3>1, WalkInOrder
    <3>3. Current' = w /\ feed[w] \in Seq(Item)
      BY <1>4, <3>1, <3>2 DEF Current, TypeInv
    <3>4. Ahead' = Rest(feed[w], 0)
      BY <1>4, <2>1, <3>3 DEF Ahead
    <3> QED
      BY <3>2, <3>3, <3>4, WholeRest
  <2> QED
    BY <1>4, <1>6, <1>7, <2>1, <2>2, <2>3, PageRead DEF ikeaVars
<1>9. CASE StayInWalk /\ offset' = offset + n
  <2>1. StayInWalk /\ offset' = offset + n
    BY <1>9
  <2>2. Ahead' = Rest(list, offset + n)
    BY <1>1, <1>2, <1>4, <2>1 DEF Ahead, Current, StayInWalk
  <2>3. Ahead \subseteq PageFrom(n) \cup Ahead'
    BY <1>3, <1>4, <1>5, <2>2 DEF Rest
  <2> QED
    BY <1>4, <1>6, <1>7, <2>1, <2>3, PageRead DEF ikeaVars
<1> QED
  BY <1>7, <1>8, <1>9

LEMMA OffersLoss ==
  ASSUME TypeInv, LossInv, OffersPage, UNCHANGED uniqloVars
  PROVE  LossInv'
<1>1. Current \in AllWalks /\ Current = Walks[source][walk] /\ Current # "LAST_CHANCE"
  BY CurrentIsAWalk DEF Current, OffersPage
<1>2. PICK list \in Seq(Item) : list = feed[Current]
  BY CurrentIsAWalk
<1>3. /\ source = "ikea" /\ pc = "list" /\ categories = {}
      /\ UNCHANGED <<retailerVars, source, feed, sorts>>
      /\ Answered(FirstPage(list))
  BY <1>2 DEF OffersPage, retailerVars
<1>4. Ahead = ToSet(list)
  BY <1>1, <1>2, <1>3 DEF Ahead
<1>5. /\ FirstPage(list) \in SUBSET Item
      /\ CategoriesNow = {it[2] : it \in ToSet(list)}
  BY <1>2, PagesHoldItems DEF CategoriesNow
<1>6. walk < Len(Walks[source]) /\ walk + 1 \in 1..Len(Walks[source]) /\ sorts = 0
  BY <1>1, <1>3, WalkInOrder DEF LossInv, ListsInv
<1>7. PICK report \in Reports(list), filter \in CategoryFilters :
           /\ categories' = CategoriesToAsk(report, filter)
           /\ CutShort(Exceeds(list, 1) /\ (~Capped(report) \/ filter = {}))
  BY <1>2 DEF OffersPage
<1>8. /\ truncated \subseteq truncated'
      /\ Exceeds(list, 1) /\ (~Capped(report) \/ filter = {}) => Current \in truncated'
  BY <1>7, CutShortTyped
<1>9. CASE categories' = {}
  <2>1. EndWalk("fetched")
    BY <1>9 DEF OffersPage
  <2>2. Exceeds(list, 1) => Current \in truncated'
    BY <1>7, <1>8, <1>9 DEF CategoriesToAsk
  <2>3. Ahead \subseteq FirstPage(list) \/ Current \in truncated'
    BY <1>4, <2>2, FirstPageTakes
  <2>4. Ahead' = ToSet(feed[Walks[source][walk + 1]])
    <3>1. walk' = walk + 1
      BY <1>6, <2>1, WalkInOrder DEF EndWalk, LastWalk
    <3>2. PICK w \in AllWalks : w = Walks[source][walk + 1]
      BY <1>6, WalkInOrder
    <3>3. Current' = w /\ source' = source /\ feed' = feed
      BY <1>3, <3>1, <3>2 DEF Current
    <3>4. categories' = {} /\ sorts' = 0
      BY <1>3, <1>6, <1>9
    <3> QED
      BY <1>3, <3>2, <3>3, <3>4 DEF Ahead
  <2> QED
    BY <1>3, <1>5, <1>8, <2>1, <2>3, <2>4, PageRead
<1>10. CASE categories' # {}
  <2>1. StayInWalk
    BY <1>10 DEF OffersPage
  <2>2. Current' = Current
    BY <1>3, <2>1 DEF Current, StayInWalk
  <2>3. categories' = CategoriesNow
    BY <1>7, <1>10 DEF CategoriesToAsk, CategoryFilters
  <2>4. Ahead' = {it \in ToSet(list) : it[2] \in CategoriesNow}
    BY <1>1, <1>2, <1>3, <1>10, <2>2, <2>3 DEF Ahead
  <2>5. Ahead \subseteq FirstPage(list) \cup Ahead'
    BY <1>4, <1>5, <2>4
  <2> QED
    BY <1>3, <1>5, <1>8, <2>1, <2>5, PageRead
<1> QED
  BY <1>9, <1>10

LEMMA CategoryLoss ==
  ASSUME TypeInv, LossInv, NEW c \in categories, CategoryPage(c), UNCHANGED uniqloVars
  PROVE  LossInv'
<1>1. Current \in AllWalks /\ Current = Walks[source][walk] /\ Current # "LAST_CHANCE"
  BY CurrentIsAWalk DEF Current, CategoryPage
<1>2. PICK list \in Seq(Item) : list = feed[Current]
  BY CurrentIsAWalk
<1> DEFINE items == Cheapest(list, OfCategory(list, c))
<1>3. /\ source = "ikea" /\ pc = "list" /\ categories' = categories \ {c}
      /\ UNCHANGED <<retailerVars, source, feed, sorts>>
      /\ Answered(items)
      /\ CutShort(Cardinality(OfCategory(list, c)) > PageSize)
      /\ truncated \subseteq truncated'
  BY <1>2 DEF CategoryPage, CutShort, retailerVars
<1>4. Ahead = {it \in ToSet(list) : it[2] \in categories}
  BY <1>1, <1>2, <1>3 DEF Ahead
<1>5. items \in SUBSET Item
  BY PagesHoldItems
<1>6. (\A it \in ToSet(list) : it[2] = c => it \in items) \/ Current \in truncated'
  <2>1. CASE Cardinality(OfCategory(list, c)) > PageSize
    BY <1>3, <2>1, CutShortTyped
  <2>2. CASE ~(Cardinality(OfCategory(list, c)) > PageSize)
    <3>1. Cardinality(OfCategory(list, c)) \in Nat
      <4>1. IsFiniteSet(DOMAIN list)
        BY Elements, FS_Interval
      <4>2. IsFiniteSet(OfCategory(list, c))
        BY <4>1, FS_Subset DEF OfCategory
      <4> QED
        BY <4>2, FS_CardinalityType
    <3>2. Cardinality(OfCategory(list, c)) <= PageSize
      BY <2>2, <3>1, RetailerAssumption
    <3> QED
      BY <3>2, CategoryPageTakes
  <2> QED
    BY <2>1, <2>2
<1> HIDE DEF items
<1>7. walk < Len(Walks[source]) /\ walk + 1 \in 1..Len(Walks[source]) /\ sorts = 0
  BY <1>1, <1>3, WalkInOrder DEF LossInv, ListsInv
<1>8. CASE categories' = {}
  <2>1. EndWalk("fetched")
    BY <1>8 DEF CategoryPage
  <2>2. Ahead \subseteq items \/ Current \in truncated'
    BY <1>3, <1>4, <1>6, <1>8
  <2>3. Ahead' = ToSet(feed[Walks[source][walk + 1]])
    <3>1. walk' = walk + 1
      BY <1>7, <2>1, WalkInOrder DEF EndWalk, LastWalk
    <3>2. PICK w \in AllWalks : w = Walks[source][walk + 1]
      BY <1>7, WalkInOrder
    <3>3. Current' = w /\ source' = source /\ feed' = feed
      BY <1>3, <3>1, <3>2 DEF Current
    <3>4. categories' = {} /\ sorts' = 0
      BY <1>3, <1>7, <1>8
    <3> QED
      BY <1>3, <3>2, <3>3, <3>4 DEF Ahead
  <2> QED
    BY <1>3, <1>5, <2>1, <2>2, <2>3, PageRead
<1>9. CASE categories' # {}
  <2>1. StayInWalk
    BY <1>9 DEF CategoryPage
  <2>2. Current' = Current
    BY <1>3, <2>1 DEF Current, StayInWalk
  <2>3. Ahead' = {it \in ToSet(list) : it[2] \in categories \ {c}}
    BY <1>1, <1>2, <1>3, <1>9, <2>2 DEF Ahead
  <2>4. Ahead \subseteq items \cup Ahead' \/ Current \in truncated'
    BY <1>4, <1>6, <2>3
  <2> QED
    BY <1>3, <1>5, <2>1, <2>4, PageRead
<1> QED
  BY <1>8, <1>9

LEMMA LastChanceLoss ==
  ASSUME TypeInv, LossInv, LastChancePage, UNCHANGED uniqloVars
  PROVE  LossInv'
<1>1. Current \in AllWalks /\ Current = Walks[source][walk] /\ Current = "LAST_CHANCE"
  BY CurrentIsAWalk DEF Current, LastChancePage
<1>2. PICK list \in Seq(Item) : list = feed[Current]
  BY CurrentIsAWalk
<1>3. /\ source = "ikea" /\ pc = "list" /\ sorts' = sorts + 1 /\ sorts \in Nat
      /\ UNCHANGED <<retailerVars, source, feed, categories>>
  BY DEF LastChancePage, retailerVars, TypeInv
<1>4. PICK items \in SortedPages(sorts + 1, list) : Answered(items)
  BY <1>2 DEF LastChancePage
<1>5. items \in SUBSET Item
  BY PagesHoldItems
<1>6. LastWalk
  BY <1>1, <1>3, WalkInOrder DEF LastWalk
<1>7. Ahead = IF sorts = 0 THEN ToSet(list) ELSE IF sorts = 1 THEN Rest(list, PageSize) ELSE {}
  BY <1>1, <1>2, <1>3 DEF Ahead
<1>8. sorts = 0 => items = FirstPage(list)
  BY <1>3, <1>4 DEF SortedPages
<1>9. PICK report \in Reports(list) :
           /\ CutShort(\/ sorts = 0 /\ Exceeds(list, 1) /\ ~Capped(report)
                       \/ sorts = 1 /\ Exceeds(list, 2))
           /\ IF ~Capped(report) \/ sorts + 1 = NumberOfSorts THEN EndWalk("fetched")
              ELSE StayInWalk
  BY <1>2 DEF LastChancePage
<1>10. /\ truncated \subseteq truncated'
       /\ sorts = 0 /\ Exceeds(list, 1) /\ ~Capped(report) => Current \in truncated'
       /\ sorts = 1 /\ Exceeds(list, 2) => Current \in truncated'
  BY <1>9, CutShortTyped
<1>11. sorts # 0 => Ahead \subseteq items \/ Current \in truncated'
  <2>1. CASE sorts = 1
    <3>1. items = Dearest(list)
      BY <1>4, <2>1 DEF SortedPages
    <3> QED
      BY <1>7, <1>10, <2>1, <3>1, DearestTakes
  <2>2. CASE sorts # 1
    BY <1>7, <2>2
  <2> QED
    BY <2>1, <2>2
<1>12. CASE ~Capped(report) \/ sorts + 1 = NumberOfSorts
  <2>1. EndWalk("fetched")
    BY <1>9, <1>12
  <2>2. sorts = 0 => ~Capped(report)
    BY <1>3, <1>12 DEF NumberOfSorts
  <2>3. Ahead \subseteq items \/ Current \in truncated'
    BY <1>7, <1>8, <1>10, <1>11, <2>2, FirstPageTakes
  <2> QED
    BY <1>3, <1>4, <1>5, <1>6, <1>10, <2>1, <2>3, PageRead
<1>13. CASE ~(~Capped(report) \/ sorts + 1 = NumberOfSorts)
  <2>1. StayInWalk
    BY <1>9, <1>13
  <2>2. Current' = Current
    BY <1>3, <2>1 DEF Current, StayInWalk
  <2>3. sorts = 0 => Ahead' = Rest(list, PageSize)
    BY <1>1, <1>2, <1>3, <2>2 DEF Ahead
  <2>4. Ahead \subseteq items \cup Ahead' \/ Current \in truncated'
    BY <1>7, <1>8, <1>11, <2>3, FirstPageTakes
  <2> QED
    BY <1>3, <1>4, <1>5, <1>6, <1>10, <2>1, <2>4, PageRead
<1> QED
  BY <1>12, <1>13

(* A departure loses at most the entry that moves up past the offset.      *)
LEMMA LeaveLoss ==
  ASSUME TypeInv, LossInv, NEW i \in DOMAIN feed[Current], Leave(i), UNCHANGED FetchVars
  PROVE  LossInv'
<1>1. PICK c \in AllWalks : c = Current
  BY CurrentIsAWalk
<1>2. PICK list \in Seq(Item) : list = feed[c]
  BY <1>1 DEF TypeInv
<1> DEFINE short == RemoveAt(list, i)
<1>3. i \in DOMAIN list /\ short \in Seq(Item)
  BY <1>1, <1>2, RemovedEntry
<1>4. /\ pc = "list" /\ source' = source
      /\ feed' = [feed EXCEPT ![c] = short]
      /\ steady' = [steady EXCEPT ![c] = @ \ {list[i]}]
      /\ removed' = [removed EXCEPT ![c] = @ + 1]
      /\ UNCHANGED <<pc, walk, requests, offset, truncated, categories, sorts>>
  BY <1>1, <1>2 DEF Leave, FetchVars, uniqloVars, ikeaVars
<1>5. feed \in [AllWalks -> Seq(Item)] /\ steady \in [AllWalks -> SUBSET Item] /\ removed \in [AllWalks -> Nat]
  BY DEF TypeInv
<1>6. Current' = c /\ \A w : ListedIn(w)' = ListedIn(w)
  BY <1>1, <1>4 DEF Current, ListedIn
<1>7. ASSUME NEW w \in AllWalks, w # c
      PROVE  feed'[w] = feed[w] /\ steady'[w] = steady[w] /\ removed'[w] = removed[w]
  BY <1>4, <1>5, <1>7
<1>8. /\ feed'[c] = short /\ steady'[c] = steady[c] \ {list[i]} /\ removed'[c] = removed[c] + 1
      /\ removed[c] \in Nat
  BY <1>4, <1>5
<1>9. ListsInv'
  <2>1. ASSUME NEW w \in AllWalks
        PROVE  IsFiniteSet(steady'[w])
    <3>1. IsFiniteSet(steady[w])
      BY DEF LossInv, ListsInv
    <3>2. IsFiniteSet(steady[w] \ {list[i]})
      BY <3>1, FS_Subset
    <3>3. CASE w = c
      BY <1>8, <3>2, <3>3
    <3>4. CASE w # c
      BY <1>7, <3>1, <3>4
    <3> QED
      BY <3>3, <3>4
  <2>2. source' = "ikea" /\ walk' < Len(Walks[source]) => sorts' = 0
    BY <1>4 DEF LossInv, ListsInv
  <2> QED
    BY <1>4, <2>1, <2>2 DEF ListsInv
<1>10. UnreadInv'
  <2> SUFFICES ASSUME NEW k \in walk + 1 .. Len(Walks[source])
               PROVE  steady'[Walks[source][k]] \subseteq ToSet(feed'[Walks[source][k]])
    BY <1>4 DEF UnreadInv
  <2>1. k \in 1..Len(Walks[source]) /\ k # walk
    BY WalkInOrder
  <2>2. PICK w \in AllWalks : w = Walks[source][k] /\ w # c
    BY <1>1, <2>1, WalkInOrder
  <2>3. steady[w] \subseteq ToSet(feed[w])
    BY <1>4, <2>2 DEF LossInv, UnreadInv
  <2> QED
    BY <1>7, <2>2, <2>3
<1>11. OverInv'
  <2> SUFFICES ASSUME NEW k \in 1..Len(Walks[source]), k < walk
               PROVE  \/ Walks[source][k] \in truncated
                      \/ Cardinality(Lost(Walks[source][k])') <= removed'[Walks[source][k]]
    BY <1>4 DEF OverInv, WalkOver, Lost
  <2>1. k # walk
    BY WalkInOrder
  <2>2. PICK w \in AllWalks : w = Walks[source][k] /\ w # c
    BY <1>1, <2>1, WalkInOrder
  <2>3. w \in truncated \/ Cardinality(Lost(w)) <= removed[w]
    BY <1>4, <2>2 DEF LossInv, OverInv, WalkOver
  <2>4. Lost(w)' = Lost(w) /\ Walks[source][k]' = w
    BY <1>4, <1>6, <1>7, <2>2 DEF Lost
  <2>5. w \in truncated \/ Cardinality(Lost(w)') <= removed'[w]
    BY <1>7, <2>2, <2>3, <2>4
  <2> QED
    BY <2>2, <2>4, <2>5 DEF Lost
<1>12. UnderWayInv'
  <2> SUFFICES ASSUME c \notin truncated
               PROVE  UnderWayInv'
    BY <1>4, <1>6 DEF UnderWayInv
  <2>1. PICK e : Ahead \subseteq Ahead' \cup {list[i], e}
    <3>1. CASE source = "uniqlo"
      <4>1. Ahead = Rest(list, offset) /\ Ahead' = Rest(short, offset)
        BY <1>1, <1>2, <1>4, <1>6, <1>8, <3>1 DEF Ahead
      <4>2. Rest(list, offset) \subseteq Rest(short, offset) \cup {list[i], list[offset + 1]}
        BY <1>3, RestOfRemoved DEF TypeInv
      <4> QED
        BY <4>1, <4>2
    <3>2. CASE source # "uniqlo"
      <4>1. Rest(list, PageSize) \subseteq Rest(short, PageSize) \cup {list[i], list[PageSize + 1]}
        BY <1>3, RestOfRemoved, RetailerAssumption
      <4>2. ToSet(list) \subseteq ToSet(short) \cup {list[i]}
        BY <1>3, RestOfRemoved
      <4>3. Ahead = IF c # "LAST_CHANCE"
                    THEN {it \in ToSet(list) : categories = {} \/ it[2] \in categories}
                    ELSE IF sorts = 0 THEN ToSet(list)
                         ELSE IF sorts = 1 THEN Rest(list, PageSize) ELSE {}
        BY <1>1, <1>2, <3>2 DEF Ahead
      <4>4. Ahead' = IF c # "LAST_CHANCE"
                     THEN {it \in ToSet(short) : categories = {} \/ it[2] \in categories}
                     ELSE IF sorts = 0 THEN ToSet(short)
                          ELSE IF sorts = 1 THEN Rest(short, PageSize) ELSE {}
        <5>1. feed'[Current'] = short /\ Current' = c
          BY <1>6, <1>8
        <5>2. source' = source /\ categories' = categories /\ sorts' = sorts
          BY <1>4
        <5> HIDE DEF short
        <5> QED
          BY <3>2, <5>1, <5>2 DEF Ahead
      <4> HIDE DEF short
      <4>5. Ahead \subseteq Ahead' \cup {list[i], list[PageSize + 1]}
        BY <4>1, <4>2, <4>3, <4>4
      <4> QED
        BY <4>5
    <3> QED
      BY <3>1, <3>2
  <2> DEFINE now == Lost(c)' \ Ahead'
             before == Lost(c) \ Ahead
  <2>2. Lost(c)' = Lost(c) \ {list[i]}
    BY <1>6, <1>8 DEF Lost
  <2>3. now \subseteq before \cup {e}
    BY <2>1, <2>2
  <2>4. IsFiniteSet(before)
    BY FS_Subset DEF Lost, LossInv, ListsInv
  <2>5. Cardinality(before) <= removed[c]
    BY <1>1, <1>4 DEF LossInv, UnderWayInv
  <2>6. now = (Lost(Current) \ Ahead)'
    BY <1>6 DEF Lost
  <2> HIDE DEF now, before
  <2>7. IsFiniteSet(before \cup {e})
    BY <2>4, FS_AddElement
  <2>8. Cardinality(now) \in Nat /\ Cardinality(now) <= Cardinality(before) + 1 /\ Cardinality(before) \in Nat
    BY <2>3, <2>4, <2>7, LossCounts
  <2>9. Cardinality(now) <= removed'[c]
    BY <1>8, <2>5, <2>8
  <2> QED
    BY <1>6, <2>6, <2>9 DEF UnderWayInv
<1> QED
  BY <1>9, <1>10, <1>11, <1>12 DEF LossInv

(* An entry loses nothing: what is ahead only moves down.                  *)
LEMMA EnterLoss ==
  ASSUME TypeInv, LossInv, NEW i \in 1..Len(feed[Current]) + 1, NEW it \in Item, Enter(i, it),
         UNCHANGED FetchVars
  PROVE  LossInv'
<1>1. PICK c \in AllWalks : c = Current
  BY CurrentIsAWalk
<1>2. PICK list \in Seq(Item) : list = feed[c]
  BY <1>1 DEF TypeInv
<1> DEFINE long == InsertAt(list, i, it)
<1>3. i \in 1..Len(list) + 1
  BY <1>1, <1>2
<1>4. /\ pc = "list" /\ source' = source
      /\ feed' = [feed EXCEPT ![c] = long]
      /\ UNCHANGED <<steady, removed, pc, walk, requests, offset, truncated, categories, sorts>>
  BY <1>1, <1>2 DEF Enter, FetchVars, uniqloVars, ikeaVars
<1>5. /\ feed'[c] = long
      /\ \A w \in AllWalks : w # c => feed'[w] = feed[w]
      /\ \A w \in AllWalks : ToSet(feed[w]) \subseteq ToSet(feed'[w])
  <2>1. ToSet(list) \subseteq ToSet(long)
    BY <1>3, RestOfInserted
  <2> QED
    BY <1>2, <1>4, <2>1 DEF TypeInv
<1> HIDE DEF long
<1>6. Current' = c /\ \A w : Lost(w)' = Lost(w)
  BY <1>1, <1>4 DEF Current, Lost, ListedIn
<1>7. ListsInv'
  BY <1>4 DEF LossInv, ListsInv
<1>8. UnreadInv'
  <2> SUFFICES ASSUME NEW k \in walk + 1 .. Len(Walks[source])
               PROVE  steady[Walks[source][k]] \subseteq ToSet(feed'[Walks[source][k]])
    BY <1>4 DEF UnreadInv
  <2>1. Walks[source][k] \in AllWalks
    BY WalkInOrder
  <2>2. steady[Walks[source][k]] \subseteq ToSet(feed[Walks[source][k]])
    BY <1>4 DEF LossInv, UnreadInv
  <2> QED
    BY <1>5, <2>1, <2>2
<1>9. OverInv'
  BY <1>4, <1>6 DEF LossInv, OverInv, WalkOver, Lost, ListedIn
<1>10. UnderWayInv'
  <2> SUFFICES ASSUME c \notin truncated
               PROVE  UnderWayInv'
    BY <1>4, <1>6 DEF UnderWayInv
  <2>1. Ahead \subseteq Ahead'
    <3>1. /\ \A o \in Nat : Rest(list, o) \subseteq Rest(long, o)
          /\ ToSet(list) \subseteq ToSet(long)
      BY <1>3, RestOfInserted DEF long
    <3>2. feed'[Current'] = long /\ Current' = c /\ source' = source
      BY <1>4, <1>5, <1>6
    <3>3. offset' = offset /\ categories' = categories /\ sorts' = sorts /\ offset \in Nat
      BY <1>4 DEF TypeInv
    <3>4. CASE source = "uniqlo"
      <4>1. Ahead = Rest(list, offset) /\ Ahead' = Rest(long, offset)
        BY <1>1, <1>2, <3>2, <3>3, <3>4 DEF Ahead
      <4> QED
        BY <3>1, <3>3, <4>1
    <3>5. CASE source # "uniqlo"
      <4>1. Ahead = IF c # "LAST_CHANCE"
                    THEN {e \in ToSet(list) : categories = {} \/ e[2] \in categories}
                    ELSE IF sorts = 0 THEN ToSet(list)
                         ELSE IF sorts = 1 THEN Rest(list, PageSize) ELSE {}
        BY <1>1, <1>2, <3>5 DEF Ahead
      <4>2. Ahead' = IF c # "LAST_CHANCE"
                     THEN {e \in ToSet(long) : categories = {} \/ e[2] \in categories}
                     ELSE IF sorts = 0 THEN ToSet(long)
                          ELSE IF sorts = 1 THEN Rest(long, PageSize) ELSE {}
        BY <3>2, <3>3, <3>5 DEF Ahead
      <4>3. Rest(list, PageSize) \subseteq Rest(long, PageSize)
        BY <3>1, RetailerAssumption
      <4> QED
        BY <3>1, <4>1, <4>2, <4>3
    <3> QED
      BY <3>4, <3>5
  <2> DEFINE now == Lost(c) \ Ahead'
             before == Lost(c) \ Ahead
  <2>2. now \subseteq before
    BY <2>1
  <2>3. IsFiniteSet(before)
    BY FS_Subset DEF Lost, LossInv, ListsInv
  <2>4. Cardinality(before) <= removed[c] /\ removed[c] \in Nat
    BY <1>1, <1>4 DEF LossInv, UnderWayInv, TypeInv
  <2>5. now = (Lost(Current) \ Ahead)'
    BY <1>4, <1>6 DEF Lost, ListedIn
  <2> HIDE DEF now, before
  <2>6. Cardinality(now) \in Nat /\ Cardinality(now) <= Cardinality(before) /\ Cardinality(before) \in Nat
    BY <2>2, <2>3, LossCounts
  <2>7. Cardinality(now) <= removed[c]
    BY <2>4, <2>6
  <2> QED
    BY <1>4, <1>6, <2>5, <2>7 DEF UnderWayInv
<1> QED
  BY <1>7, <1>8, <1>9, <1>10 DEF LossInv

(* A fetch that starts has everything ahead.                               *)
Fresh ==
  /\ source \in DOMAIN Walks
  /\ feed \in Feeds
  /\ steady = [w \in AllWalks |-> ToSet(feed[w])]
  /\ removed = [w \in AllWalks |-> 0]
  /\ pc \in {"list", "failed"} /\ walk = 1
  /\ requests = <<>>
  /\ offset = 0 /\ categories = {} /\ sorts = 0

LEMMA FreshLoss == Fresh => LossInv
<1> SUFFICES ASSUME Fresh
             PROVE  LossInv
  OBVIOUS
<1>1. feed \in [AllWalks -> Seq(Item)]
  BY FreshFetch DEF Fresh
<1>2. \A w \in AllWalks : /\ IsFiniteSet(steady[w])
                          /\ steady[w] = ToSet(feed[w]) /\ removed[w] = 0
  BY <1>1, Elements DEF Fresh
<1>3. ToSet(Walks[source]) \subseteq AllWalks /\ Len(Walks[source]) \in Nat \ {0}
      /\ DOMAIN Walks[source] = 1..Len(Walks[source])
  BY WalkNames DEF Fresh
<1>4. \A k \in 1..Len(Walks[source]) : Walks[source][k] \in AllWalks
  BY <1>3 DEF ToSet
<1>5. ListsInv
  BY <1>2 DEF ListsInv, Fresh
<1>6. UnreadInv
  <2>1. \A k \in walk + 1 .. Len(Walks[source]) : k \in 1..Len(Walks[source])
    BY <1>3 DEF Fresh
  <2> QED
    BY <1>2, <1>4, <2>1 DEF UnreadInv
<1>7. OverInv
  <2>1. \A k \in 1..Len(Walks[source]) : ~(k < walk)
    BY <1>3 DEF Fresh
  <2> QED
    BY <2>1 DEF OverInv, WalkOver, Fresh
<1>8. UnderWayInv
  <2>1. Current \in AllWalks
    BY <1>3, <1>4 DEF Current, Fresh
  <2>2. Ahead = ToSet(feed[Current])
    BY <1>1, <2>1, WholeRest DEF Ahead, Fresh
  <2>3. Lost(Current) \ Ahead = {}
    BY <1>2, <2>1, <2>2 DEF Lost
  <2>4. Cardinality(Lost(Current) \ Ahead) = 0
    BY <2>3, FS_EmptySet
  <2> QED
    BY <1>2, <2>1, <2>4 DEF UnderWayInv
<1> QED
  BY <1>5, <1>6, <1>7, <1>8 DEF LossInv

(* Once the lists are read, nothing about them changes.                    *)
LEMMA LaterLoss ==
  ASSUME LossInv, UNCHANGED <<source, feed, steady, removed, walk, requests, offset, truncated,
                              categories, sorts>>,
         pc' = pc \/ (pc \notin {"list", "failed"} /\ pc' # "list")
  PROVE  LossInv'
<1>1. ListsInv'
  BY DEF LossInv, ListsInv
<1>2. UnreadInv'
  BY DEF LossInv, UnreadInv
<1>3. Lost(Current)' = Lost(Current) /\ Ahead' = Ahead /\ Current' = Current
  BY DEF Lost, ListedIn, Current, Ahead
<1>4. UnderWayInv'
  BY <1>3 DEF LossInv, UnderWayInv, Lost, ListedIn, Current
<1>5. OverInv'
  BY DEF LossInv, OverInv, WalkOver, Lost, ListedIn
<1> QED
  BY <1>1, <1>2, <1>4, <1>5 DEF LossInv

LEMMA LossStep == TypeInv /\ LossInv /\ [Next]_vars => LossInv'
<1> SUFFICES ASSUME TypeInv, LossInv, [Next]_vars
             PROVE  LossInv'
  OBVIOUS
<1>1. ASSUME UniqloStep
      PROVE  LossInv'
  <2>1. CASE \E n \in 0..PageSize : UniqloPage(n)
    BY <1>1, <2>1, UniqloLoss DEF UniqloStep
  <2>2. CASE FetchStock \/ EndStock
    BY <1>1, <2>2, LaterLoss DEF UniqloStep, FetchStock, EndStock, retailerVars, uniqloVars, ikeaVars
  <2> QED
    BY <1>1, <2>1, <2>2 DEF UniqloStep
<1>2. ASSUME IkeaStep
      PROVE  LossInv'
  BY <1>2, OffersLoss, LastChanceLoss, CategoryLoss DEF IkeaStep
<1>3. ASSUME RequestAgain \/ Put \/ Return \/ UNCHANGED vars
      PROVE  LossInv'
  <2>1. UNCHANGED <<source, feed, steady, removed, walk, requests, offset, truncated,
                    categories, sorts>>
    BY <1>3 DEF RequestAgain, Put, Return, vars, FetchVars, retailerVars, uniqloVars, ikeaVars
  <2>2. pc' = pc \/ (pc \notin {"list", "failed"} /\ pc' # "list")
    BY <1>3 DEF RequestAgain, Put, Return, vars, FetchVars
  <2> QED
    BY <2>1, <2>2, LaterLoss
<1>4. ASSUME Raise
      PROVE  LossInv'
  <2>1. Fresh'
    BY <1>4 DEF Raise, Fresh, TypeInv
  <2>2. Fresh' => LossInv'
    BY FreshLoss, PTL
  <2> QED
    BY <2>1, <2>2
<1>5. ASSUME RetailerMoves
      PROVE  LossInv'
  BY <1>5, LeaveLoss, EnterLoss DEF RetailerMoves
<1> QED
  BY <1>1, <1>2, <1>3, <1>4, <1>5 DEF Next, Worker

(* Whatever enters or leaves a list while it is read, however short the    *)
(* pages and whatever a page reports of its end, a payload holds all       *)
(* steady items of each list but one for each departure, or an answer hid  *)
(* a part of the list: for every catalog, page size, order of sorts and    *)
(* number of moves.                                                        *)
THEOREM SteadyItemsFetched == Spec => []SteadyItemsAreFetched
<1>1. Init => LossInv
  BY FreshLoss DEF Init, Fresh
<1>2. (TypeInv /\ PayloadInv) /\ LossInv /\ [Next]_vars => LossInv'
  BY LossStep
<1>3. Spec => []LossInv
  BY <1>1, <1>2, TypesInvariant, PTL DEF Spec
<1>4. TypeInv /\ LossInv => SteadyItemsAreFetched
  <2> SUFFICES ASSUME TypeInv, LossInv, pc \in {"fetched", "stored", "done"},
                      NEW w \in ToSet(Walks[source]) \ truncated
               PROVE  Cardinality(steady[w] \ ListedIn(w)) <= removed[w]
    BY DEF SteadyItemsAreFetched
  <2>1. PICK k \in 1..Len(Walks[source]) : w = Walks[source][k]
    BY WalkNames DEF TypeInv, ToSet
  <2> QED
    BY <2>1 DEF LossInv, OverInv, WalkOver, Lost
<1> QED
  BY <1>3, <1>4, TypesInvariant, PTL
=============================================================================
