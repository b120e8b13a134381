------------------------------ MODULE MCNotify ------------------------------
(***************************************************************************)
(* A small instance of Notify for TLC: the result `full` of key k1 with    *)
(* hits for two watchers whose addresses differ in case only, the skipped  *)
(* result `dup` of a duplicate event for the same key, and the result      *)
(* `next` of another key with news for the default recipient and a hit for *)
(* one of the watchers.                                                    *)
(***************************************************************************)
EXTENDS Notify, TLC

CONSTANTS k1, k2, full, dup, next, ops, ann, Ann, anns

Hit(emails) == [kind |-> "watch_hit", emails |-> emails]

MCKeyOf == [r \in Result |-> IF r = next THEN k2 ELSE k1]
MCAlertsOf ==
  [r \in Result |->
     CASE r = full -> {Hit({ann, Ann})}
       [] r = dup -> {}
       [] r = next -> {[kind |-> "price_drop", emails |-> {}], Hit({ann})}]
MCFoldCase == [a \in Address |-> IF a \in {ann, Ann} THEN anns ELSE a]

Symmetry == Permutations(Notification)
=============================================================================
