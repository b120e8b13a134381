------------------------------ MODULE Catalog ------------------------------
(***************************************************************************)
(* What upsert_products (db/repo.py) promises of the product table: a row  *)
(* depends on which payloads have been stored and on nothing else, neither *)
(* on their order nor on how often each was stored.  It shows the newest   *)
(* of the payloads that list the product, and its first and last time seen *)
(* are those of the oldest and the newest.                                 *)
(***************************************************************************)
EXTENDS Integers

CONSTANTS
  Key, Product, NoKey,
  Lists,      \* [Key -> SUBSET Product]
  FetchedAt   \* [Key -> Nat]

VARIABLES
  stored,     \* payloads stored at least once
  catalog     \* [Product -> [shows, first, last]]

Unlisted == [shows |-> NoKey, first |-> 0, last |-> 0]

Row == [shows : Key \cup {NoKey}, first : Int, last : Int]

Listing(p) == {k \in stored : p \in Lists[k]}

Older(k, l) == FetchedAt[k] <= FetchedAt[l]

(* The row of p, given the payloads stored.                                *)
Follows(row, p) ==
  \/ Listing(p) = {} /\ row = Unlisted
  \/ /\ row.shows \in Listing(p)
     /\ \A k \in Listing(p) : Older(k, row.shows) /\ row.first <= FetchedAt[k]
     /\ row.last = FetchedAt[row.shows]
     /\ \E k \in Listing(p) : row.first = FetchedAt[k]

Faithful == \A p \in Product : Follows(catalog[p], p)

Init == stored = {} /\ catalog = [p \in Product |-> Unlisted]

(* A payload is stored for the first time.  To store it again changes      *)
(* nothing, provided that no two payloads that list a product have the     *)
(* same time.                                                              *)
Store(k) ==
  /\ k \notin stored
  /\ stored' = stored \cup {k}
  /\ catalog' \in [Product -> Row]
  /\ Faithful'

Next == \E k \in Key : Store(k)

Spec == Init /\ [][Next]_<<stored, catalog>>
=============================================================================
