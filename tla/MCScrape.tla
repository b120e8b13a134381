------------------------------ MODULE MCScrape ------------------------------
(***************************************************************************)
(* A small instance of Scrape.  UNIQLO: two paths that share an item, and  *)
(* a product with two price groups.  IKEA: two offer tags, of which one    *)
(* has two categories and more than a page of items and the other starts   *)
(* empty, and last-chance items of more than a page.  With the items that  *)
(* enter, a category may exceed a page.                                    *)
(***************************************************************************)
EXTENDS Scrape

CONSTANTS a, b, c, x, y

MCItem == {<<a, x>>, <<a, y>>, <<b, x>>, <<c, x>>}

MCWalks == [s \in {"uniqlo", "ikea"} |->
              IF s = "uniqlo" THEN <<"WOMEN", "MEN">> ELSE <<"OFFERS", "FAMILY", "LAST_CHANCE">>]

MCFeeds ==
  {[w \in {"WOMEN", "MEN", "OFFERS", "FAMILY", "LAST_CHANCE"} |->
     CASE w = "MEN" -> <<<<b, x>>>>
       [] w = "FAMILY" -> <<>>
       [] w = "LAST_CHANCE" -> <<<<a, y>>, <<c, x>>, <<b, x>>>>
       [] OTHER -> <<<<a, x>>, <<b, x>>, <<a, y>>>>]}

MCSizesOf == [it \in MCItem |-> it]
=============================================================================
