------------------------------ MODULE Retailer ------------------------------
(***************************************************************************)
(* What the adapters of both retailers share: a catalog that moves while   *)
(* it is read, the HTTP client of sources/http.py, and the payload under   *)
(* construction.                                                           *)
(*                                                                         *)
(* A fetch is a sequence of walks, each over one list of the retailer (a   *)
(* gender path, the offers, the last-chance items).  Only the list under   *)
(* way moves: what happens to a list before or after its walk is another   *)
(* list for that walk.                                                     *)
(***************************************************************************)
EXTENDS Naturals, SequencesExt

CONSTANTS
  Item,       \* items: <<product id, price group>> or <<item number, category>>
  Walks,      \* [retailer code -> the sequence of its walks]
  Feeds,      \* the lists the retailer may start from: a set of [walk -> Seq(Item)]
  PageSize,   \* PAGE_SIZE, the server's maximum
  MaxTries,   \* attempts of tenacity, stop_after_attempt
  MaxMoves    \* bound: entries and departures during a run

VARIABLES
  source,     \* the retailer of this run
  feed,       \* [walk -> Seq(Item)]: the lists as they are
  moves,      \* entries and departures so far
  pc,         \* where run_scrape is
  walk,       \* index of the walk under way
  tries,      \* failed attempts of the request under way
  requests,   \* raw["requests"]: sequence of [walk, items]
  truncated,  \* history: walks whose list the endpoint did not serve to its end
  steady,     \* history: [walk -> items on the list throughout the walk]
  removed     \* history: [walk -> departures during the walk]

retailerVars == <<source, feed, moves, steady, removed>>

AllWalks == UNION {ToSet(Walks[s]) : s \in DOMAIN Walks}

ASSUME RetailerAssumption ==
  /\ PageSize \in Nat \ {0}
  /\ MaxTries \in Nat \ {0}
  /\ MaxMoves \in Nat
  /\ \A s \in DOMAIN Walks :
       Walks[s] \in Seq(STRING) /\ Walks[s] # <<>> /\ IsInjective(Walks[s])
  /\ Feeds \subseteq [AllWalks -> Seq(Item)]

Current == Walks[source][walk]

-----------------------------------------------------------------------------
(* The retailer.                                                           *)

Leave(i) ==
  /\ pc = "list" /\ moves < MaxMoves
  /\ moves' = moves + 1
  /\ feed' = [feed EXCEPT ![Current] = RemoveAt(@, i)]
  /\ steady' = [steady EXCEPT ![Current] = @ \ {feed[Current][i]}]
  /\ removed' = [removed EXCEPT ![Current] = @ + 1]
  /\ UNCHANGED source

Enter(i, it) ==
  /\ pc = "list" /\ moves < MaxMoves
  /\ it \notin ToSet(feed[Current])
  /\ moves' = moves + 1
  /\ feed' = [feed EXCEPT ![Current] = InsertAt(@, i, it)]
  /\ UNCHANGED <<source, steady, removed>>

-----------------------------------------------------------------------------
(* get_json, and the walks.                                                *)

(* Mutant: one attempt too many.                                           *)
OneMoreTry == tries < MaxTries

TriesLeft == tries + 1 < MaxTries

(* A transport error, or a status of _RETRY_STATUSES, with attempts left.  *)
(* Any other failure raises: module Scrape's Raise.                        *)
RetryRequest ==
  /\ pc = "list"
  /\ TriesLeft
  /\ tries' = tries + 1

(* The body of a list page joins the payload; an empty one adds nothing.   *)
Answered(items) ==
  /\ requests' = IF items = {} THEN requests
                 ELSE Append(requests, [walk |-> Current, items |-> items])
  /\ tries' = 0

(* An answer that hides a part of the list: nothing in it tells the client *)
(* that there is more.                                                     *)
CutShort(hidden) ==
  truncated' = IF hidden THEN truncated \cup {Current} ELSE truncated

LastWalk == walk = Len(Walks[source])

(* The loop over the paths or tags goes on, or the list stage is over.     *)
EndWalk(next) ==
  /\ walk' = IF LastWalk THEN walk ELSE walk + 1
  /\ pc' = IF LastWalk THEN next ELSE "list"

StayInWalk == UNCHANGED <<walk, pc>>

ListedIn(w) == UNION {r.items : r \in {q \in ToSet(requests) : q.walk = w}}
=============================================================================
