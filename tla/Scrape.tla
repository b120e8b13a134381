------------------------------- MODULE Scrape -------------------------------
(***************************************************************************)
(* services/ingest.py run_scrape in its Lambda: fetch a retailer's whole   *)
(* catalog with the adapter of the source, then put one payload.  Lambda   *)
(* retries a run that raises or times out; the retry fetches again from    *)
(* the start and puts a payload of its own.                                *)
(***************************************************************************)
EXTENDS UniqloFetch, IkeaFetch

CONSTANT MaxAttempts  \* the first invocation and maximum_retry_attempts

ASSUME ScrapeAssumption ==
  /\ MaxAttempts \in Nat \ {0}
  /\ DOMAIN Walks \subseteq {"uniqlo", "ikea"}

VARIABLES attempt, payloads  \* payloads put so far

FetchVars == <<pc, walk, tries, requests, truncated, uniqloVars, ikeaVars>>

vars == <<retailerVars, FetchVars, attempt, payloads>>

(* A fetch starts with the lists as they are then.                         *)
Init ==
  /\ source \in DOMAIN Walks
  /\ feed \in Feeds
  /\ moves = 0
  /\ steady = [w \in AllWalks |-> ToSet(feed[w])]
  /\ removed = [w \in AllWalks |-> 0]
  /\ pc = "list" /\ walk = 1 /\ tries = 0
  /\ requests = <<>>
  /\ offset = 0 /\ stock = {} /\ truncated = {}
  /\ categories = {} /\ sorts = 0
  /\ attempt = 1
  /\ payloads = 0

UniqloStep ==
  /\ \/ \E n \in 0..PageSize : UniqloPage(n)
     \/ FetchStock
     \/ EndStock
  /\ UNCHANGED <<ikeaVars, attempt, payloads>>

IkeaStep ==
  /\ OffersPage \/ LastChancePage \/ \E c \in categories : CategoryPage(c)
  /\ UNCHANGED <<uniqloVars, attempt, payloads>>

RequestAgain ==
  /\ RetryRequest
  /\ UNCHANGED <<retailerVars, pc, walk, requests, truncated, uniqloVars, ikeaVars, attempt,
                 payloads>>

Put ==
  /\ pc = "fetched"
  /\ payloads' = payloads + 1
  /\ pc' = "stored"
  /\ UNCHANGED <<retailerVars, walk, tries, requests, truncated, uniqloVars, ikeaVars, attempt>>

Return ==
  /\ pc = "stored"
  /\ pc' = "done"
  /\ UNCHANGED <<retailerVars, walk, tries, requests, truncated, uniqloVars, ikeaVars, attempt,
                 payloads>>

(* A request fails for good or answers nonsense, the put fails, or Lambda  *)
(* kills the run at its timeout, even after the put: nothing of the fetch  *)
(* survives, and the retry starts afresh.                                  *)
Raise ==
  /\ pc \in {"list", "stock", "fetched", "stored"}
  /\ \/ attempt < MaxAttempts /\ attempt' = attempt + 1 /\ pc' = "list"
     \/ attempt = MaxAttempts /\ attempt' = attempt /\ pc' = "failed"
  /\ feed' \in Feeds
  /\ moves' = 0
  /\ steady' = [w \in AllWalks |-> ToSet(feed'[w])]
  /\ removed' = [w \in AllWalks |-> 0]
  /\ walk' = 1 /\ tries' = 0 /\ requests' = <<>>
  /\ offset' = 0 /\ stock' = {} /\ truncated' = {}
  /\ categories' = {} /\ sorts' = 0
  /\ UNCHANGED <<source, payloads>>

RetailerMoves ==
  /\ \/ \E i \in DOMAIN feed[Current] : Leave(i)
     \/ \E i \in 1..Len(feed[Current]) + 1, it \in Item : Enter(i, it)
  /\ UNCHANGED <<FetchVars, attempt, payloads>>

Worker == UniqloStep \/ IkeaStep \/ RequestAgain \/ Put \/ Return

Over == pc \in {"done", "failed"}

Next == Worker \/ Raise \/ RetailerMoves

(* A request is answered, or fails at the client's timeout of 20 seconds.  *)
Spec == Init /\ [][Next]_vars /\ WF_vars(Worker)

-----------------------------------------------------------------------------
(* Properties.                                                             *)

ScrapeTypeOK ==
  /\ source \in DOMAIN Walks
  /\ \A w \in AllWalks : ToSet(feed[w]) \subseteq Item /\ steady[w] \subseteq Item
  /\ pc \in {"list", "stock", "fetched", "stored", "done", "failed"}
  /\ walk \in 1..Len(Walks[source])
  /\ tries \in 0..MaxTries - 1
  /\ \A r \in ToSet(requests) : r.walk \in ToSet(Walks[source]) /\ r.items \subseteq Item
  /\ stock \subseteq [pair : Item, sizes : {Unknown} \cup {SizesOf[it] : it \in Item}]
  /\ categories \subseteq {it[2] : it \in Item}
  /\ payloads \in 0..MaxAttempts

(* A payload that is put holds every item that stayed on a list while that *)
(* list was read, except at most one for each item that left the list in   *)
(* the meantime: entries, short pages and failed requests lose nothing     *)
(* (architecture.md: the run fails "rather than storing a partial          *)
(* payload"; uniqlo.py's offset, ikea.py's categories and sort orders).    *)
(* The exception are walks in which an answer hid a part of the list: a    *)
(* page before the end of a path that is empty or without its count or     *)
(* total; a page of a list that is longer than its `max` admits, or a      *)
(* capped one without its categories; a category that exceeds a page, or   *)
(* last chances that exceed two.  The code takes each for complete, and    *)
(* stores the payload.                                                     *)
SteadyItemsAreFetched ==
  pc \in {"fetched", "stored", "done"} =>
    \A w \in ToSet(Walks[source]) \ truncated :
      Cardinality(steady[w] \ ListedIn(w)) <= removed[w]

(* An item is categorised UNISEX if and only if two paths list it, though  *)
(* a list that grows while it is read shows items of a single path twice;  *)
(* and the sizes shown as buyable are those of the pair's own stock call,  *)
(* not of another price group of its product, or unknown if that call      *)
(* failed (uniqlo.py: "Items listed under several gender paths (unisex     *)
(* basics) are kept once and categorised UNISEX").                         *)
SnapshotsJoinTheirOwn ==
  source = "uniqlo" => \A pair \in Pairs :
    /\ Category(pair) = "UNISEX" <=>
         Cardinality({w \in ToSet(Walks[source]) : pair \in ListedIn(w)}) > 1
    /\ Sizes(pair) \in {SizesOf[pair], Unknown}
    /\ [pair |-> pair, sizes |-> SizesOf[pair]] \in stock => Sizes(pair) = SizesOf[pair]

(* A run ends, in a stored payload or in an alarm, although its list moves *)
(* and its server fails, throttles or answers empty pages.                 *)
ScrapeEnds == <>Over
=============================================================================
