------------------------------- MODULE MCShop -------------------------------
(* Instances of Shop for TLC.                                              *)
EXTENDS Shop, TLC

CONSTANT Pile

At(where, n) == [NoObj EXCEPT !.where = where, !.quan = n]
Stocked(pile, own, bag, size, gold) ==
  [obj |-> [o \in Objects |-> CASE o = 1 -> pile [] o = 2 -> own [] o = Bag -> bag [] OTHER -> NoObj],
   billsz |-> size, purse |-> gold]

(* Goods and a bag in the shop and a hero with something to sell: two      *)
(* things fill the bill.  With a bill of one line: a pile of goods; a hero *)
(* with a bag and something to put into it; one who has money.             *)
ShopBag == Stocked(At("shelf", 1), At("inv", 1), At("shelf", 1), 2, 0)
PileOnly == Stocked(At("shelf", Pile), NoObj, NoObj, 1, 0)
OwnBag == Stocked(NoObj, At("inv", 1), At("inv", 1), 1, 0)
Buyer == Stocked(At("shelf", 1), NoObj, NoObj, 1, 1)
All == {ShopBag, PileOnly, OwnBag, Buyer}

(* A hero with a bag, and a pile in the shop.                              *)
HeroBag == {Stocked(At("shelf", Pile), NoObj, At("inv", 1), 2, 0)}
SingleThings == Ids
AnyThing == Objects
=============================================================================
