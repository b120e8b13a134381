------------------------------ MODULE MCIngest ------------------------------
(***************************************************************************)
(* Small instances of Ingest for TLC: payloads of retailer A, `a1` and the *)
(* newer `a2`, and of retailer B, whose runs share nothing with A but the  *)
(* summary refresh: `b0` of long ago and the newer `b1`.  From a1 to a2    *)
(* the price of p falls by 30%, q leaves the feed and r stays in it at     *)
(* half its list price; a3 is a broken response with a single product.     *)
(***************************************************************************)
EXTENDS Ingest, TLC

CONSTANTS a1, a2, a3, b0, b1, p, q, r, z, A, B

Row(price, list, flag) == [price |-> price, list |-> list, flag |-> flag]

MCSourceOf == [k \in Key |-> IF k \in {b0, b1} THEN B ELSE A]
MCFetchedAt == [k \in Key |-> CASE k = b0 -> 0 [] k = a1 -> 1 [] k \in {a2, b1} -> 2 [] k = a3 -> 3]
MCPayload ==
  [k \in Key |->
     CASE k = a1 -> (p :> Row(100, NoPrice, FALSE)) @@ (q :> Row(50, 60, FALSE)) @@ (r :> Row(20, 40, TRUE))
       [] k = a2 -> (p :> Row(70, NoPrice, TRUE)) @@ (r :> Row(20, 40, TRUE))
       [] k = a3 -> (p :> Row(90, NoPrice, FALSE))
       [] k \in {b0, b1} -> (z :> Row(30, 60, FALSE))]
MCMinProducts == [s \in Source |-> IF s = A THEN 2 ELSE 0]
MCSubscription == {[product |-> p, email |-> "w", min |-> 100]}

Symmetry == Permutations(Invocation)
=============================================================================
