-------------------------------- MODULE Shop --------------------------------
(***************************************************************************)
(* A shop, its shopkeeper and his bill (shk.c), and what the rest of the   *)
(* game does to goods: picking up, dropping, throwing, splitting, merging, *)
(* putting into a bag, using up and altering them (pickup.c, do.c,         *)
(* dothrow.c, invent.c, mkobj.c), with a hero who walks in and out and a   *)
(* shopkeeper who pursues him, is teleported away, comes back or dies.     *)
(*                                                                         *)
(* What the hero owes is held twice: in the bill, by object id, and in the *)
(* objects' own "unpaid" and "no_charge" marks.  Each routine below maps   *)
(* the whole state, a record m, to the next one.                           *)
(***************************************************************************)
EXTENDS Integers, FiniteSets, FiniteSetsExt

CONSTANTS
  MaxId,     \* the goods, all of one stackable kind, have o_id 1 to MaxId
  Stocks,    \* initial [obj, billsz, purse]: objects, BILLSZ and the hero's gold
  Price,     \* what getprice() says of one object
  Fee,       \* cost_per_charge() of an unpaid object
  Peace,     \* what an angry shopkeeper wants who was not robbed: 1000
  Snags,     \* what a grappling hook may catch: objects
  MaxDebt    \* bound of the instance, on debit + credit + robbed

VARIABLES
  obj,    \* obj[o]: struct obj of o
  shk,    \* struct eshk and the whereabouts of the shopkeeper
  hero,   \* where the hero is, u.ushops and gold; "till": gold on the floor
  wrong   \* what impossible() and panic() complained of

vars == <<obj, shk, hero, wrong>>

Ids == 1 .. MaxId
Bag == 0                          \* o_id of the only container
Objects == 0 .. MaxId
Floor == {"shelf", "spot", "street"}  \* shop proper; free spot or door; outside
Obj == [where : Floor \cup {"none", "inv", "bag", "loose", "bill", "mon"},
        quan : Nat, unpaid : BOOLEAN, no_charge : BOOLEAN]
NoObj == [where |-> "none", quan |-> 0, unpaid |-> FALSE, no_charge |-> FALSE]
Bill == [bo_id : Objects, bquan : Nat \ {0}, useup : BOOLEAN, price : Nat]
Keeper == [at : {"home", "out", "dead"}, bill : SUBSET Bill, bill_p : {"null", "ok", "wild"},
           billsz : Nat, robbed : Nat, credit : Nat, debit : Nat, loan : Nat, cash : Nat,
           angry : BOOLEAN, surcharge : BOOLEAN, following : BOOLEAN]
Hero == [at : {"inside", "spot", "street", "away"}, ushops : BOOLEAN, gold : Nat, till : Nat]

(* Who starts has things of his own, and goods lie in the shop.            *)
ASSUME ShopAssumption ==
  /\ MaxId \in Nat /\ Price \in Nat \ {0} /\ Fee \in Nat /\ Peace \in Nat /\ MaxDebt \in Nat
  /\ Snags \subseteq Objects
ASSUME StocksAssumption == \A stock \in Stocks :
  /\ stock.obj \in [Objects -> Obj] /\ stock.billsz \in Nat /\ stock.purse \in Nat
  /\ \A o \in Objects : LET thing == stock.obj[o] IN
       /\ thing = NoObj \/ (thing.where \in Floor \cup {"inv", "bag"} /\ thing.quan > 0)
       /\ ~thing.unpaid /\ ~thing.no_charge
       /\ thing.where = "bag" => o # Bag /\ stock.obj[Bag] # NoObj
  /\ stock.obj[Bag].quan <= 1

State == [obj |-> obj, shk |-> shk, hero |-> hero, wrong |-> wrong]
Complain(m, what) == [m EXCEPT !.wrong = @ \cup {what}]

(* The game has ended: a panic, or a write through a bill_p of -1000.      *)
Fatal == {"add_to_billobjs: obj not free", "bill_p"}
Over(m) == m.wrong \cap Fatal # {}

----------------------------------------------------------------------------
(* Objects.                                                                *)

Contents(m) == {o \in Objects : m.obj[o].where = "bag"}
HasContents(m, o) == o = Bag /\ Contents(m) # {}
Within(m, o) == IF o = Bag THEN Contents(m) ELSE {}
Top(m, o) == IF m.obj[o].where = "bag" THEN Bag ELSE o
TopWhere(m, o) == m.obj[Top(m, o)].where
OnFloor(m, o) == TopWhere(m, o) \in Floor
IsUnpaid(m, o) == \E c \in {o} \cup Within(m, o) : m.obj[c].unpaid
Square == [inside |-> "shelf", spot |-> "spot", street |-> "street"]
Reach(m, o) == m.hero.at # "away" /\ m.obj[o].where = Square[m.hero.at]

(* next_ident(); "no room" is a bound of the instance, see Commit.         *)
Unused(m) == {o \in Ids : m.obj[o].where = "none"}
NewObj(m) == Min(Unused(m))
MakeObj(m, o, d, n) == [m EXCEPT !.obj[d] = [m.obj[o] EXCEPT !.quan = n]]

Put(m, o, where) == [m EXCEPT !.obj[o].where = where]
Freed(m, S) == [m EXCEPT !.obj = [o \in Objects |-> IF o \in S THEN NoObj ELSE @[o]]]
Charged(m, S) == [m EXCEPT !.obj = [o \in Objects |->
                     IF o \in S THEN [@[o] EXCEPT !.no_charge = FALSE] ELSE @[o]]]

----------------------------------------------------------------------------
(* The bill.                                                               *)

Billed(m, o) == \E bp \in m.shk.bill : bp.bo_id = o
Entry(m, o) == CHOOSE bp \in m.shk.bill : bp.bo_id = o
Rebilled(m, o, bp) == [m EXCEPT !.shk.bill = (@ \ {Entry(m, o)}) \cup {bp}]
Unbilled(m, o) == [m EXCEPT !.shk.bill = @ \ {Entry(m, o)}]
BillFull(m) == Cardinality(m.shk.bill) >= m.shk.billsz
AddUpBill(m) == SumFunction([bp \in m.shk.bill |-> bp.price * bp.bquan])
Tended(m) == m.shk.at = "home"

(* onbill() with its complaints.                                           *)
OnBill(m, o) ==
  CASE Billed(m, o) /\ ~m.obj[o].unpaid -> Complain(m, "paid obj on bill")
    [] ~Billed(m, o) /\ m.obj[o].unpaid -> Complain(m, "unpaid obj not on bill")
    [] OTHER -> m

(* rile_shk(), and shop_keeper(), which riles one who is angry already.    *)
Rile_Kept(m) == [m EXCEPT !.shk.angry = TRUE, !.shk.surcharge = TRUE]
Rile(m) ==
  IF m.shk.surcharge THEN [m EXCEPT !.shk.angry = TRUE]
  ELSE [m EXCEPT !.shk.angry = TRUE, !.shk.surcharge = TRUE,
                 !.shk.bill = {[bp EXCEPT !.price = @ + (@ + 2) \div 3] : bp \in @}]
ShopKeeper(m) == IF m.shk.at # "dead" /\ m.shk.angry THEN Rile(m) ELSE m

GetCost(m) == IF m.shk.surcharge THEN Price + (Price + 2) \div 3 ELSE Price
SetCost(n) == Max({1, ((n * Price * 10) \div 2 + 5) \div 10})

(* sub_one_frombill(): what was used up of the stack stays on the bill.    *)
SubOne_Forgotten(m, o) ==
  IF Billed(m, o) THEN Unbilled([OnBill(m, o) EXCEPT !.obj[o].unpaid = FALSE], o) ELSE m
SubOne(m, o) ==
  LET off == [OnBill(m, o) EXCEPT !.obj[o].unpaid = FALSE]
      bp == Entry(m, o)
      used == bp.bquan - m.obj[o].quan
      d == NewObj(m)
  IN CASE ~Billed(m, o) -> off
       [] Billed(m, o) /\ used <= 0 -> Unbilled(off, o)
       [] Billed(m, o) /\ used > 0 /\ Unused(m) = {} -> Complain(m, "no room")
       [] OTHER -> Rebilled([off EXCEPT !.obj[d] = [NoObj EXCEPT !.where = "bill", !.quan = used]],
                            o, [bp EXCEPT !.bo_id = d, !.bquan = used, !.useup = TRUE])
SubFromBill(m, o) ==
  LET off[n \in Objects] == IF n = 0 THEN SubOne(m, o)
                            ELSE IF n \in Within(m, o) THEN SubOne(off[n - 1], n) ELSE off[n - 1]
  IN off[MaxId]

(* add_one_tobill() of an object that billable() lets pass.                *)
Opened(m) == IF m.shk.bill_p = "null" THEN [m EXCEPT !.shk.bill_p = "ok"] ELSE m
Entered(m, o, dummy) ==
  LET bp == [bo_id |-> o, bquan |-> m.obj[o].quan, useup |-> dummy, price |-> GetCost(m)]
  IN [m EXCEPT !.shk.bill = @ \cup {bp}, !.obj[o].unpaid = TRUE]
AddOne(m, o, dummy) ==
  LET n == Opened(m)
  IN CASE Billed(n, o) -> OnBill(n, o)
       [] ~Billed(n, o) /\ BillFull(n) -> n
       [] ~Billed(n, o) /\ ~BillFull(n) /\ n.shk.bill_p = "wild" -> Complain(n, "bill_p")
       [] OTHER -> IF ~dummy THEN Entered(n, o, FALSE)
                   ELSE IF n.obj[o].where # "loose"
                   THEN Complain(n, "add_to_billobjs: obj not free")
                   ELSE Put(Entered(n, o, TRUE), o, "bill")

AddAll(m, S, dummy) ==
  LET on[n \in Objects] == IF n = 0 THEN m
                           ELSE IF n \in S THEN AddOne(on[n - 1], n, dummy) ELSE on[n - 1]
  IN on[MaxId]

(* The contents contained_cost() puts a price on: those of a bag that is   *)
(* not carried lie where the hero stands.                                  *)
ForSale(m, S) == {c \in S : ~m.obj[c].no_charge /\ m.hero.at # "spot"}

(* addtobill(); "here": the caller stands in this shop, or pretends to.    *)
ItselfBilled(m, o) == IF m.obj[o].no_charge THEN m ELSE AddOne(m, o, FALSE)
AddGoods(m, o) ==
  IF ForSale(m, Within(m, o)) = {} THEN ItselfBilled(m, o)
  ELSE AddAll(ItselfBilled(m, o), {c \in Within(m, o) : ~m.obj[c].no_charge}, FALSE)
PickedContainer(m, S) == IF Over(m) THEN m ELSE Charged(m, S)
AddToBill(m, o, here) ==
  LET free == m.obj[o].no_charge /\ ForSale(m, Within(m, o)) = {}
  IN CASE ~here \/ ~Tended(m) -> m
       [] here /\ Tended(m) /\ Billed(m, o) -> OnBill(m, o)
       [] here /\ Tended(m) /\ ~Billed(m, o) /\ free -> Charged(m, {o} \cup Within(m, o))
       [] here /\ Tended(m) /\ ~Billed(m, o) /\ ~free /\ BillFull(m) -> m
       [] OTHER -> PickedContainer(AddGoods(m, o), {o} \cup Within(m, o))

(* obfree(): goods on the bill go to billobjs, marked used up.             *)
FreeOne(m, o) ==
  LET n == OnBill(m, o)
  IN IF Billed(m, o)
     THEN Rebilled([n EXCEPT !.obj[o].where = "bill", !.obj[o].unpaid = FALSE],
                   o, [Entry(m, o) EXCEPT !.useup = TRUE])
     ELSE Freed(n, {o})

(* obfree() of an object merged into t: one entry of the bill goes.        *)
MergeFree_Lost(m, t, o) == Freed(IF Billed(m, o) THEN Unbilled(m, o) ELSE m, {o})
MergeFree(m, t, o) ==
  CASE ~Billed(m, o) -> Freed(OnBill(m, o), {o})
    [] Billed(m, o) /\ ~Billed(m, t) -> Complain(m, "obfree: not on bill")
    [] OTHER -> Freed(Rebilled(Unbilled(m, o), t,
                  [Entry(m, t) EXCEPT !.bquan = @ + Entry(m, o).bquan]), {o})

Alike(m, t, o) ==
  /\ t # o /\ Bag \notin {t, o}
  /\ m.obj[t].unpaid = m.obj[o].unpaid /\ m.obj[t].no_charge = m.obj[o].no_charge
Mergable(m, t, o) ==
  /\ Alike(m, t, o)
  /\ m.obj[o].unpaid => /\ Billed(m, t) /\ Billed(m, o)
                        /\ Entry(m, t).price = Entry(m, o).price   \* same_price()

Merged(m, t, o) == MergeFree([m EXCEPT !.obj[t].quan = @ + m.obj[o].quan], t, o)

(* Putting o where goods merge if they can: all of an inventory or a bag,  *)
(* on the floor only what lies on the same square.                         *)
Mates(m, o, where) == {t \in Objects : m.obj[t].where = where /\ Mergable(m, t, o)}
PutMerged(m, o, where) ==
  LET mates == Mates(m, o, where)
  IN IF mates = {} THEN Put(m, o, where) ELSE Merged(m, Min(mates), o)
PutDown(m, o, where) ==
  {Put(m, o, where)} \cup {Merged(m, t, o) : t \in Mates(m, o, where)}

(* addinv(): carried things have no "no_charge".                           *)
AddInv(m, o) ==
  LET n == Charged(m, {o} \cup Within(m, o))
  IN IF o = Bag THEN Put(n, o, "inv") ELSE PutMerged(n, o, "inv")

(* splitbill() after d was split off o; no entry left for it: it is free.  *)
SplitBill(m, o, d) ==
  LET bp == Entry(m, o)
      n == m.obj[d].quan
      less == Rebilled(m, o, [bp EXCEPT !.bquan = @ - n])
  IN CASE ~(m.hero.ushops /\ Tended(m)) -> Complain(m, "splitbill: no resident shopkeeper")
       [] m.hero.ushops /\ Tended(m) /\ ~Billed(m, o) -> Complain(m, "splitbill: not on bill")
       [] m.hero.ushops /\ Tended(m) /\ Billed(m, o) /\ bp.bquan <= n ->
            Complain(m, "splitbill: quantity")
       [] OTHER -> IF BillFull(m) THEN [less EXCEPT !.obj[d].unpaid = FALSE]
                   ELSE [less EXCEPT !.shk.bill =
                           @ \cup {[bp EXCEPT !.bo_id = d, !.bquan = n, !.useup = FALSE]}]

(* splitobj(): n of o, as a record of the state and the piece.             *)
Piece(m, o, n) == IF n = m.obj[o].quan \/ Unused(m) = {} THEN o ELSE NewObj(m)
SplitObj(m, o, n) ==
  LET d == NewObj(m)
      apart == [MakeObj(m, o, d, n) EXCEPT !.obj[o].quan = @ - n]
  IN IF n = m.obj[o].quan THEN m
     ELSE IF Unused(m) = {} THEN Complain(m, "no room")
     ELSE IF m.obj[o].unpaid THEN SplitBill(apart, o, d) ELSE apart

----------------------------------------------------------------------------
(* Robbery and anger.                                                      *)

(* setpaid(): only what is on this bill loses its mark.                    *)
Settled(m, o) == [m.obj[o] EXCEPT
  !.unpaid = @ /\ ~Billed(m, o), !.no_charge = @ /\ ~OnFloor(m, o)]
SetPaid_NotThrown(m) ==
  [m EXCEPT !.shk.bill = {}, !.shk.credit = 0, !.shk.debit = 0, !.shk.loan = 0,
            !.obj = [o \in Objects |-> CASE m.obj[o].where = "bill" -> NoObj
                                         [] m.obj[o].where = "loose" -> m.obj[o]
                                         [] OTHER -> Settled(m, o)]]
SetPaid(m) ==
  [m EXCEPT !.shk.bill = {}, !.shk.credit = 0, !.shk.debit = 0, !.shk.loan = 0,
            !.obj = [o \in Objects |-> IF m.obj[o].where = "bill" THEN NoObj ELSE Settled(m, o)]]

HotPursuit(m) ==
  Charged([Rile(m) EXCEPT !.shk.following = TRUE], {o \in Objects : OnFloor(m, o)})

Robbed(m, n) == [m EXCEPT !.shk.robbed = @ + n]
Indebted(m, n) == [m EXCEPT !.shk.debit = @ + n]
RobShop(m) ==
  LET stolen == Max({0, AddUpBill(m) + m.shk.debit - m.shk.credit})
  IN IF stolen = 0 THEN SetPaid(m) ELSE HotPursuit(Robbed(SetPaid(m), stolen))
Owing_BillOnly(m) == m.shk.bill # {}
Owing(m) == m.shk.bill # {} \/ m.shk.debit > 0

(* u_left_shop() of a hero who is out, and remote_burglary().              *)
LeftShop(m) ==
  LET n == ShopKeeper(m) IN IF Tended(n) /\ Owing(n) THEN RobShop(n) ELSE n

EnteredShop(m) ==
  CASE m.shk.at = "dead" -> [m EXCEPT !.hero.ushops = FALSE]
    [] m.shk.at = "out" -> [ShopKeeper(m) EXCEPT !.hero.ushops = FALSE, !.shk.bill_p = "wild"]
    [] OTHER -> [ShopKeeper(m) EXCEPT !.shk.bill_p = "ok"]

(* check_special_room() with move_update(), for a hero who has moved.      *)
CheckSpecialRoom(m) ==
  LET within == m.hero.at \in {"inside", "spot"}
      n == [m EXCEPT !.hero.ushops = within]
  IN CASE m.hero.ushops /\ ~within -> LeftShop(n)
       [] ~m.hero.ushops /\ within -> EnteredShop(n)
       [] OTHER -> n

AfterShkMove(m) ==
  IF m.shk.bill_p = "wild" /\ Tended(m)
  THEN CheckSpecialRoom([m EXCEPT !.shk.bill_p = "ok"]) ELSE m

MakeAngry(m) ==
  LET due == m.shk.robbed + AddUpBill(m) + m.shk.debit + m.shk.loan - m.shk.credit
      paid == [SetPaid(m) EXCEPT !.shk.robbed = Max({0, due})]
  IN HotPursuit(IF Owing(m) \/ m.shk.loan > 0 \/ m.shk.credit > 0 THEN paid ELSE m)

MakeHappy(m) ==
  LET calm == [m EXCEPT !.shk.angry = FALSE, !.shk.following = FALSE, !.shk.robbed = 0]
  IN IF m.shk.at = "home" THEN calm ELSE AfterShkMove([calm EXCEPT !.shk.at = "home"])

CheckCredit(m, n) == [m EXCEPT !.shk.credit = Max({0, @ - n})]
AfterCredit(m, n) == Max({0, n - m.shk.credit})

(* stolen_value() of goods in reach of this shop: what was billed for them *)
(* becomes a debt, or a theft if the shopkeeper is not peaceful.           *)
BilledFor(m, o) == Entry(m, o).bquan * Entry(m, o).price
WorthOf(m, o, stays) ==
  CASE Billed(m, o) -> BilledFor(m, o)
    [] ~Billed(m, o) /\ stays -> m.obj[o].quan * GetCost(m)
    [] OTHER -> 0
StolenValue(m, o, peaceful) ==
  LET carried == TopWhere(m, o) \in {"inv", "loose"}
      value == WorthOf(m, o, ~m.obj[o].no_charge)
               + SumFunction([c \in Within(m, o) |->
                   WorthOf(m, c, IF carried THEN m.obj[c].unpaid ELSE ~m.obj[c].no_charge)])
      off == SubFromBill(Charged(m, Within(m, o)), o)
      owed == AfterCredit(m, value)
  IN IF Within(m, o) = {} /\ ~Billed(m, o) /\ m.obj[o].no_charge
     THEN Charged(m, {o})
     ELSE IF ~peaceful THEN HotPursuit(Robbed(off, value))
     ELSE IF m.shk.angry THEN Robbed(CheckCredit(off, value), owed)
     ELSE Indebted(CheckCredit(off, value), owed)

----------------------------------------------------------------------------
(* Selling.                                                                *)

(* dropped_container(): what the shopkeeper did not buy stays the hero's.  *)
Keeps(m, S) == [m EXCEPT !.obj = [o \in Objects |->
                  IF o \in S /\ ~m.obj[o].unpaid THEN [@[o] EXCEPT !.no_charge = TRUE] ELSE @[o]]]

Unsold(m, o) == [m EXCEPT !.obj[o].no_charge = TRUE]

(* donate_gold()                                                           *)
DonateGold_LoanKept(m, n) ==
  IF m.shk.debit >= n THEN [m EXCEPT !.shk.debit = @ - n]
  ELSE [m EXCEPT !.shk.credit = @ + n - m.shk.debit, !.shk.debit = 0, !.shk.loan = 0]
DonateGold(m, n) ==
  IF m.shk.debit >= n
  THEN [m EXCEPT !.shk.loan = Max({0, @ - n}), !.shk.debit = @ - n]
  ELSE [m EXCEPT !.shk.credit = @ + n - m.shk.debit, !.shk.debit = 0, !.shk.loan = 0]

CreditFor(m, n) == [m EXCEPT !.shk.credit = @ + n]
CashFor(m, n) == [m EXCEPT !.shk.cash = @ - n, !.hero.gold = @ + n]

(* sellobj() at a costly spot: "keep" is SELL_DONTSELL, "yes" the answer.  *)
SellObj(m0, o, keep, yes) ==
  LET m == ShopKeeper(m0)
      all == {o} \cup Within(m, o)
      own == {c \in all : ~m.obj[c].unpaid}
      offer == SumFunction([c \in own |-> SetCost(m.obj[c].quan)])
      kept == SubFromBill(Keeps(m, all), o)
      sold == SubFromBill(m, o)
      credit == (offer * 9) \div 10 + (IF offer <= 1 THEN 1 ELSE 0)
      price == Min({offer, m.shk.cash})
  IN CASE m.obj[o].unpaid /\ ~HasContents(m, o) -> SubOne(m, o)
       [] ~(m.obj[o].unpaid /\ ~HasContents(m, o)) /\ m.shk.angry -> sold
       [] ~(m.obj[o].unpaid /\ ~HasContents(m, o)) /\ ~m.shk.angry /\ (offer = 0 \/ keep) ->
            IF IsUnpaid(m, o) THEN kept ELSE Keeps(m, all)
       [] ~(m.obj[o].unpaid /\ ~HasContents(m, o)) /\ ~m.shk.angry /\ offer > 0 /\ ~keep
            /\ BillFull(m) -> Unsold(Keeps(m, all), o)
       [] OTHER -> IF ~yes THEN kept
                   ELSE IF m.shk.cash = 0 THEN CreditFor(sold, credit) ELSE CashFor(sold, price)

(* What landing on the floor does to an object that was dropped.           *)
Costly(m, where) == where = "shelf" /\ Tended(m)

(* bill_dummy_object(): the hero buys what has been changed.  Its copy     *)
(* shares the contents, unless the caller hides them (breakchestlock).     *)
OffBill(m, o, hide) ==
  IF m.obj[o].unpaid THEN IF hide THEN SubOne(m, o) ELSE SubFromBill(m, o) ELSE m
CopyOnBill(m, off, o, d) ==
  LET copy == [MakeObj(off, o, d, off.obj[o].quan) EXCEPT !.obj[d].where = "loose"]
      new == IF m.obj[o].no_charge THEN copy ELSE AddOne(copy, d, TRUE)
  IN IF m.obj[o].unpaid /\ Billed(new, d)   \* alter_cost()
     THEN Rebilled(new, d, [Entry(new, d) EXCEPT !.price = Entry(m, o).price]) ELSE new
DummyBilled(m, off, o, hide) ==
  LET top == CopyOnBill(m, off, o, NewObj(off))
      goods == ForSale(off, Within(off, o))
  IN IF Unused(off) = {} THEN Complain(off, "no room")
     ELSE IF BillFull(off) THEN off
     ELSE IF Within(off, o) = {} \/ hide \/ goods = {} THEN top ELSE AddAll(top, goods, TRUE)
Remarked(m, o, free) == [m EXCEPT !.obj[o].unpaid = FALSE, !.obj[o].no_charge = free]
Cleared(m) ==
  [m EXCEPT !.obj = [c \in Objects |-> IF @[c].where = "loose" THEN NoObj ELSE @[c]]]
Altered(m, o, free) == IF Over(m) THEN m ELSE Cleared(Remarked(m, o, free))
BillDummy(m, o, hide) ==
  LET off == OffBill(m, o, hide)
  IN Altered(DummyBilled(m, off, o, hide), o, off.obj[o].where \in Floor \cup {"bag"})

----------------------------------------------------------------------------
(* Paying.                                                                 *)

Funds(m) == m.hero.gold + m.shk.credit
Resident(m) == Tended(m) /\ m.hero.ushops

(* pay(): credit first, and a payment counts against an old robbery too.   *)
Pay(m, n) ==
  LET gold == AfterCredit(m, n)
  IN [CheckCredit(m, n) EXCEPT !.hero.gold = @ - gold, !.shk.cash = @ + gold,
                               !.shk.robbed = Max({0, @ - n})]

PayDebit(m) ==
  LET gold == AfterCredit(m, m.shk.debit)
  IN [CheckCredit(m, m.shk.debit) EXCEPT !.hero.gold = @ - gold, !.shk.cash = @ + gold,
                                         !.shk.debit = 0, !.shk.loan = 0]

(* The parts of the itemized bill.                                         *)
Quan(m, bp) == m.obj[bp.bo_id].quan
FullyUsedUp(m, bp) == m.obj[bp.bo_id].where = "bill"
PartlyUsedUp(m, bp) == ~FullyUsedUp(m, bp) /\ Quan(m, bp) < bp.bquan

(* dopayobj() with update_bill(): the used-up part, or the whole entry.    *)
BuyUsedUp_Whole(m, bp) == Unbilled(Pay(m, bp.price * (bp.bquan - Quan(m, bp))), bp.bo_id)
BuyUsedUp(m, bp) ==
  Rebilled(Pay(m, bp.price * (bp.bquan - Quan(m, bp))), bp.bo_id,
           [bp EXCEPT !.bquan = Quan(m, bp)])
BuyEntry(m, bp) ==
  LET paid == Unbilled(Pay(m, bp.price * bp.bquan), bp.bo_id)
  IN IF FullyUsedUp(m, bp) THEN Freed(paid, {bp.bo_id})
     ELSE [paid EXCEPT !.obj[bp.bo_id].unpaid = FALSE]

(* buy_container(): everything in the bag and the bag, or nothing.         *)
InBag(m) == {bp \in m.shk.bill : bp.bo_id = Bag \/ m.obj[bp.bo_id].where = "bag"}
CostInBag(m) == SumFunction([bp \in InBag(m) |-> bp.price * Quan(m, bp)])
BuyContainer(m) ==
  LET Bought(n, o) == IF \E bp \in InBag(m) : bp.bo_id = o THEN BuyEntry(n, Entry(m, o)) ELSE n
      bought[n \in Objects] == Bought(IF n = 0 THEN m ELSE bought[n - 1], n)
  IN bought[MaxId]

----------------------------------------------------------------------------
(* Steps.  Bounds: an id for every new object, and debts below MaxDebt.    *)
(* A panic ends the game, the shopkeeper's death this model of the shop.   *)

Commit(m) ==
  /\ ~Over(State) /\ shk.at # "dead"
  /\ "no room" \notin m.wrong
  /\ m.shk.debit + m.shk.credit + m.shk.robbed <= MaxDebt
  /\ obj' = m.obj /\ shk' = m.shk /\ hero' = m.hero /\ wrong' = m.wrong

Init ==
  /\ \E stock \in Stocks :
       /\ obj = stock.obj
       /\ shk = [at |-> "home", bill |-> {}, bill_p |-> "null", billsz |-> stock.billsz,
                 robbed |-> 0, credit |-> 0, debit |-> 0, loan |-> 0, cash |-> 0,
                 angry |-> FALSE, surcharge |-> FALSE, following |-> FALSE]
       /\ hero = [at |-> "street", ushops |-> FALSE, gold |-> stock.purse, till |-> 0]
  /\ wrong = {}

(* The hero moves, or comes back to the level, and arrives at p.           *)
Walk(p) == Commit(CheckSpecialRoom([State EXCEPT !.hero.at = p]))

(* goto_level(): check_special_room(TRUE) comes first.                     *)
LeaveLevel ==
  /\ hero.at # "away"
  /\ LET gone == [State EXCEPT !.hero.at = "away", !.hero.ushops = FALSE]
     IN Commit(IF hero.ushops THEN LeftShop(gone) ELSE gone)

(* pick_obj() of n of o, which lies at "where".                            *)
PickObj(m0, o, where) ==
  LET costly == Costly(m0, where)
      m == IF costly THEN ShopKeeper(m0) ELSE m0
      lifted == Put(m, o, "loose")
      billed == IF costly THEN AddToBill(lifted, o, TRUE) ELSE lifted
      kept == AddInv(billed, o)
  IN IF Over(billed) THEN billed
     ELSE IF costly /\ billed.obj[o].unpaid /\ ~m.hero.ushops THEN LeftShop(kept) ELSE kept
PickUp(o, n) ==
  /\ Reach(State, o)
  /\ Commit(PickObj(SplitObj(State, o, n), Piece(State, o, n), obj[o].where))

(* use_grapple(): one of the goods of the shop, from the door or outside.  *)
Hook(o) ==
  /\ hero.at \in {"spot", "street"} /\ obj[o].where = "shelf" /\ o \in Snags
  /\ Commit(PickObj(SplitObj(State, o, 1), Piece(State, o, 1), "shelf"))

(* dropz(): place it, offer it for sale, stack it.                         *)
Drop(o, n, yes) ==
  LET p == Piece(State, o, n)
      where == Square[hero.at]
      down == Put(SplitObj(State, o, n), p, where)
      sold == IF hero.ushops /\ Costly(down, where) THEN SellObj(down, p, FALSE, yes) ELSE down
  IN /\ obj[o].where = "inv" /\ hero.at # "away"
     /\ \E m \in PutDown(sold, p, where) : Commit(m)

(* check_shop_obj() for what was thrown and lies at "where".               *)
CheckShopObj(m, o, where, keeper) ==
  CASE ~m.hero.ushops -> m
    [] m.hero.ushops /\ ~Costly(m, where) /\ IsUnpaid(m, o) ->
         IF Tended(m) THEN StolenValue(m, o, ~m.shk.angry) ELSE OnBill(m, o)
    [] m.hero.ushops /\ Costly(m, where) /\ IsUnpaid(m, o) -> SubFromBill(m, o)
    [] m.hero.ushops /\ Costly(m, where) /\ ~IsUnpaid(m, o) /\ ~keeper -> SellObj(m, o, FALSE, TRUE)
    [] OTHER -> m

(* throwit(): a levitating hero drifts away from where one of o flies to,  *)
(* which may be the shopkeeper's own square.                               *)
Depth == [street |-> 0, spot |-> 1, shelf |-> 2, inside |-> 2]
Recoil(where) == {q \in {"inside", "spot", "street"} :
  (Depth[q] - Depth[hero.at]) * (Depth[where] - Depth[hero.at]) <= 0}
Throw(o) ==
  LET p == Piece(State, o, 1)
      flying == Put(SplitObj(State, o, 1), p, "loose")
      Drifted(q) == IF q = hero.at THEN flying
                    ELSE CheckSpecialRoom([flying EXCEPT !.hero.at = q])
  IN /\ obj[o].where = "inv" /\ hero.at # "away"
     /\ \E where \in Floor, keeper \in BOOLEAN : \E q \in Recoil(where) :
          /\ keeper => where = "shelf"
          /\ LET landed == CheckShopObj(Put(Drifted(q), p, where), p, where, keeper)
             IN \E m \in PutDown(landed, p, where) : Commit(m)

Divide(o) == /\ obj[o].where = "inv" /\ obj[o].quan > 1
             /\ Commit(SplitObj(State, o, 1))

(* useup() of something carried.                                           *)
UseUp(o) ==
  /\ obj[o].where = "inv" /\ o # Bag
  /\ Commit(IF obj[o].quan > 1 THEN [State EXCEPT !.obj[o].quan = @ - 1] ELSE FreeOne(State, o))

(* useupf(): it is billed, then deleted, which leaves it on the bill.      *)
UseUpFloor(o) ==
  /\ hero.at = "inside" /\ Reach(State, o) /\ o # Bag
  /\ LET p == Piece(State, o, 1)
         m == SplitObj(State, o, 1)
         billed == IF Tended(m) THEN AddToBill(ShopKeeper(m), p, hero.ushops) ELSE m
     IN Commit(IF Over(billed) THEN billed ELSE FreeOne(billed, p))

BagAtHand == obj[Bag].where = "inv" \/ Reach(State, Bag)

(* in_container(): into a bag on the shop's floor it is offered for sale.  *)
PutIn(o, yes) ==
  /\ obj[o].where = "inv" /\ o # Bag /\ BagAtHand
  /\ LET m == Put(State, o, "loose")
         shown == obj[Bag].where = "shelf" /\ Tended(m) /\ hero.ushops
     IN Commit(PutMerged(IF shown THEN SellObj(m, o, obj[Bag].no_charge, yes) ELSE m, o, "bag"))

(* out_container() of n of o.                                              *)
TakeOut(o, n) ==
  /\ obj[o].where = "bag" /\ BagAtHand
  /\ LET p == Piece(State, o, n)
         m == Put(SplitObj(State, o, n), p, "loose")
         billed == IF ~m.obj[p].unpaid /\ Costly(m, obj[Bag].where)
                   THEN AddToBill(ShopKeeper(m), p, hero.ushops) ELSE m
     IN Commit(IF Over(billed) THEN billed ELSE AddInv(billed, p))

(* costly_alteration(); "hide" is breakchestlock().                        *)
Alter(o, hide) ==
  LET m == ShopKeeper(State)
      contents == IF hide THEN {} ELSE {c \in Within(m, o) : ~m.obj[c].no_charge}
      billable == ~Billed(m, o) /\ (~m.obj[o].no_charge \/ contents # {})
  IN /\ hide => o = Bag
     /\ hero.at # "away"
     /\ \/ obj[o].where = "inv" /\ obj[o].unpaid /\ Tended(m) /\ hero.ushops
           /\ Commit(BillDummy(m, o, hide))
        \/ obj[o].where = "shelf" /\ Tended(m) /\ billable
           /\ Commit(IF hero.at = "inside" /\ hero.ushops THEN BillDummy(m, o, hide)
                     ELSE StolenValue(m, o, FALSE))

(* check_unpaid_usage(): a charge of an unpaid thing was used.             *)
UseCharge(o) ==
  /\ obj[o].where = "inv" /\ obj[o].unpaid /\ hero.ushops /\ Tended(State)
  /\ Commit([ShopKeeper(State) EXCEPT !.shk.debit = @ + Fee])

(* steal() by a monster, and subfrombill().                                *)
MonsterSteals(o) ==
  /\ obj[o].where = "inv" /\ o # Bag
  /\ Commit(Put(IF obj[o].unpaid THEN SubFromBill(State, o) ELSE State, o, "mon"))

(* Gold of the shop: costly_gold(); gold dropped in it: donate_gold().     *)
TakeGold ==
  /\ hero.at = "inside" /\ hero.till > 0
  /\ LET m == [State EXCEPT !.hero.till = @ - 1, !.hero.gold = @ + 1]
         owed == IF shk.credit = 0 THEN 1 ELSE 0
     IN Commit(IF ~Tended(m) THEN m
               ELSE [CheckCredit(ShopKeeper(m), 1) EXCEPT !.shk.debit = @ + owed,
                                                          !.shk.loan = @ + owed])
DropGold ==
  /\ hero.at = "inside" /\ hero.gold > 0
  /\ LET m == [State EXCEPT !.hero.till = @ + 1, !.hero.gold = @ - 1]
     IN Commit(IF ~Tended(m) \/ ~hero.ushops \/ shk.angry THEN m ELSE DonateGold(m, 1))

(* dopay() to the resident shopkeeper: the debit first, then the bill.     *)
SettleDebit ==
  /\ Resident(State) /\ shk.debit > 0 /\ Funds(State) >= shk.debit
  /\ Commit(PayDebit(State))
Buying == Resident(State) /\ shk.debit = 0 /\ Funds(State) > 0
BuyIntact(bp) ==
  LET unpaidIn == {c \in Within(State, bp.bo_id) : obj[c].unpaid}
  IN /\ ~PartlyUsedUp(State, bp) /\ obj[bp.bo_id].where # "bag" /\ unpaidIn = {}
     /\ Funds(State) >= bp.price * bp.bquan
     /\ Commit(BuyEntry(State, bp))
BuyUsed(bp) ==
  /\ PartlyUsedUp(State, bp)
  /\ Funds(State) >= bp.price * (bp.bquan - Quan(State, bp))
  /\ Commit(BuyUsedUp(State, bp))
BuyBag ==
  /\ \E bp \in InBag(State) : bp.bo_id # Bag
  /\ ~\E bp \in InBag(State) : PartlyUsedUp(State, bp)    \* reject_purchase()
  /\ obj[Bag].where = "inv" /\ Funds(State) >= CostInBag(State)
  /\ Commit(BuyContainer(State))

(* dopay() to one who was robbed or is just angry, in his shop or not.     *)
Compensate ==
  /\ shk.at # "dead" /\ hero.at # "away" /\ ~Owing(State)
  /\ shk.robbed > 0 /\ hero.gold >= shk.robbed \div 2
  /\ Commit(MakeHappy(Pay(State, Min({hero.gold, shk.robbed}))))
Appease(happy) ==
  /\ shk.at # "dead" /\ hero.at # "away" /\ ~Owing(State)
  /\ shk.robbed = 0 /\ shk.angry /\ hero.gold >= Peace
  /\ LET paid == Pay(State, Peace) IN Commit(IF happy THEN MakeHappy(paid) ELSE paid)
PayElsewhere ==
  /\ shk.at # "dead" /\ hero.at # "away" /\ ~Resident(State) /\ shk.angry /\ Owing(State)
  /\ Commit(Complain(State, "dopay: not to shopkeeper"))

(* The hero attacks the shopkeeper, or breaks a door or a wall of his and  *)
(* pays for it (a unit of gold) or not: wakeup(), pay_for_damage().       *)
Attack ==
  /\ shk.at # "dead" /\ hero.at # "away" /\ ~shk.angry
  /\ Commit(IF hero.ushops THEN [State EXCEPT !.shk.angry = TRUE] ELSE HotPursuit(State))
Damage(paid) ==
  /\ Tended(State) /\ hero.at # "away"
  /\ paid => ~shk.angry /\ ~shk.following /\ Funds(State) >= 1
  /\ Commit(IF ~paid THEN HotPursuit(State)
            ELSE LET gold == AfterCredit(State, 1)
                 IN [CheckCredit(State, 1) EXCEPT !.hero.gold = @ - gold, !.shk.cash = @ + gold])

(* tamedog() on a shopkeeper only calms him.                               *)
Tame == /\ shk.at # "dead" /\ hero.at # "away"
        /\ Commit(MakeHappy(State))

(* shk_move(): he goes after a hero who left, unless there is a bill; and  *)
(* comes back.  Teleporting him does not come by after_shk_move().         *)
ShkLeaves ==
  /\ shk.at = "home" /\ shk.following /\ shk.bill = {} /\ hero.at = "street"
  /\ Commit([State EXCEPT !.shk.at = "out"])
ShkReturns ==
  /\ shk.at = "out" \/ (shk.at = "home" /\ shk.bill_p = "wild")
  /\ hero.at # "away"
  /\ Commit(AfterShkMove([State EXCEPT !.shk.at = "home"]))
TeleportedOut ==
  /\ shk.at = "home" /\ hero.at # "away"
  /\ Commit(MakeAngry([State EXCEPT !.shk.at = "out"]))
TeleportedHome ==
  /\ shk.at = "out" /\ hero.at # "away"
  /\ Commit([State EXCEPT !.shk.at = "home"])

(* shkgone(): goods on the shop floor are ordinary things from now on.     *)
ShkDies ==
  /\ shk.at # "dead" /\ hero.at # "away"
  /\ LET m == Charged([State EXCEPT !.shk.at = "dead"],
                      {o \in Objects : obj[o].where \in {"shelf", "spot"}})
     IN Commit(IF hero.ushops
               THEN [SetPaid(m) EXCEPT !.shk.bill_p = "null", !.hero.ushops = FALSE] ELSE m)

Handling == \E o \in Objects :
  \/ \E n \in 1 .. obj[o].quan : PickUp(o, n) \/ TakeOut(o, n)
  \/ \E n \in 1 .. obj[o].quan, yes \in BOOLEAN : Drop(o, n, yes)
  \/ \E yes \in BOOLEAN : PutIn(o, yes)
  \/ Throw(o) \/ Hook(o) \/ Divide(o) \/ UseUp(o) \/ UseUpFloor(o) \/ UseCharge(o) \/ MonsterSteals(o)
  \/ \E hide \in BOOLEAN : Alter(o, hide)
Moving == LeaveLevel \/ \E p \in {"inside", "spot", "street"} : Walk(p)
Trading ==
  \/ TakeGold \/ DropGold \/ SettleDebit \/ Compensate \/ PayElsewhere
  \/ Buying /\ (BuyBag \/ \E bp \in shk.bill : BuyIntact(bp) \/ BuyUsed(bp))
  \/ \E happy \in BOOLEAN : Appease(happy)
Shopkeeping ==
  \/ Attack \/ Tame \/ (\E paid \in BOOLEAN : Damage(paid))
  \/ ShkLeaves \/ ShkReturns
  \/ TeleportedOut \/ TeleportedHome \/ ShkDies

Next == Handling \/ Moving \/ Trading \/ Shopkeeping
Spec == Init /\ [][Next]_vars

----------------------------------------------------------------------------
(* What must hold.                                                         *)

(* Every routine keeps the objects, the eshk and the hero well formed.     *)
TypeOK ==
  /\ obj \in [Objects -> Obj] /\ shk \in Keeper /\ hero \in Hero
  /\ \A o \in Objects : (obj[o].where = "loose" => Over(State)) /\ (obj[o].where = "none" <=> obj[o].quan = 0)
  /\ Cardinality(shk.bill) <= shk.billsz /\ shk.loan <= shk.debit

(* The bill and the "unpaid" marks agree: one entry for every unpaid       *)
(* object and for every object used up, none for anything else, with at    *)
(* least the quantity there is (add_one_tobill, splitbill, obfree,         *)
(* sub_one_frombill, update_bill, setpaid).                                *)
BillMatches ==
  /\ \A bp \in shk.bill :
       /\ \A other \in shk.bill : other.bo_id = bp.bo_id => other = bp
       /\ bp.useup <=> obj[bp.bo_id].where = "bill"
       /\ obj[bp.bo_id].where # "none" /\ bp.bquan >= obj[bp.bo_id].quan
       /\ obj[bp.bo_id].unpaid \/ bp.useup
  /\ \A o \in Objects : obj[o].unpaid \/ obj[o].where = "bill" => Billed(State, o)

(* A shopkeeper whose bill is full does not want the hero's things: a bag  *)
(* of such things that is unpaid, or holds what is, stays so on the shelf. *)
Refused(m) == {o \in {Bag} \cup Contents(m) : m.obj[o].unpaid /\ TopWhere(m, o) = "shelf"}

(* Where a thing belongs that is not refused: if unpaid, it is carried,    *)
(* used up, or lies in the door or on the free spot of a tended shop; if   *)
(* it is no charge, it lies in a tended shop and is not unpaid.  Not so of *)
(* what lies in a bag on the floor when its shopkeeper dies (shkgone()     *)
(* does not look into it), nor of goods the hero bought by altering them   *)
(* from one who then leaves to pursue him.                                 *)
Belongs(o) ==
  /\ obj[o].unpaid => Tended(State) /\ hero.ushops
  /\ obj[o].unpaid /\ o \notin Refused(State) =>
       ~obj[o].no_charge /\ (TopWhere(State, o) \in {"inv", "spot"} \/ obj[o].where = "bill")
  /\ obj[o].no_charge =>
       \/ Tended(State) /\ TopWhere(State, o) \in {"shelf", "spot"}
       \/ shk.at = "out" /\ TopWhere(State, o) = "shelf"
       \/ shk.at = "dead" /\ obj[o].where = "bag"

(* shop_obj_sanity(): whatever is done, everything is where its marks say; *)
(* and a thing is refused only when the bill is full (sellobj(), splitbill,*)
(* setpaid(), addinv(), ...).  After a panic there is nothing to check.    *)
GoodsWhereTheyBelong == [][
  /\ Over(State') \/ \A o \in Objects : Belongs(o)'
  /\ Refused(State') \subseteq Refused(State) \/ BillFull(State)]_vars

(* The shopkeeper is in his shop, and knows who else is: bill_p is wild    *)
(* from when the hero came while he was out until he moves in his shop,    *)
(* which being teleported home is not.                                     *)
Minded(m) == Tended(m) /\ m.shk.bill_p # "wild"

(* One shop, one price: whether the surcharge was there when a thing went  *)
(* on the bill or came later makes no difference (get_cost, rile_shk).     *)
OnePrice == \A bp \in shk.bill : bp.price = GetCost(State)

(* Nobody gets out of a tended shop with a debt, and nobody makes one      *)
(* outside: a hero who owes something out there did so before (u_left_shop,*)
(* remote_burglary).  And who was robbed stays angry until he is paid.     *)
Debts(m) == m.shk.bill # {} \/ m.shk.debit > 0
SettledOutside == [][
  /\ Minded(State') /\ ~hero'.ushops /\ hero'.at # "inside" /\ Debts(State')
       => ~hero.ushops /\ Debts(State)
  /\ shk'.robbed > 0 => shk'.angry]_vars

(* None of the routines meets a state that it calls impossible(), but      *)
(* dopay(): a debt made while the shopkeeper was not minded (see Minded)   *)
(* is still there when the hero is out again.                              *)
NoImpossible == wrong \subseteq Fatal \cup {"dopay: not to shopkeeper"}

(* Goods do not leave a tended shop for nothing: when the shop has fewer   *)
(* of them, on its shelves or on the bill, then at least their price was   *)
(* paid in gold or credit or is owed as a debit or a robbery.  What costs  *)
(* him is a full bill, the bag refused for it (addtobill() does not look   *)
(* into a bag that is on the bill), a thieving monster, a bag whose        *)
(* contents are priced while the hero stands on the free spot, where       *)
(* nothing has a price (contained_cost), and not being minded.             *)
Stock(m) == {o \in Objects : TopWhere(m, o) = "shelf" /\ ~m.obj[o].no_charge}
Owned(m) == SumFunction([o \in Stock(m) |-> m.obj[o].quan])
            + SumFunction([bp \in m.shk.bill |-> bp.bquan])
Received(m) == m.shk.cash - m.shk.credit
Due(m) == m.shk.debit + m.shk.robbed
Stolen(m) == SumFunction([o \in {c \in Objects : m.obj[c].where = "mon"} |-> m.obj[o].quan])
PaidOrOwed ==
  Minded(State) /\ Minded(State') /\ ~Over(State') =>
    LET lost == (Owned(State) - Owned(State') - (Stolen(State') - Stolen(State))) * Price
    IN  \/ lost <= 0 \/ BillFull(State) \/ (BillFull(State') /\ Contents(State) # {})
        \/ Refused(State) # {}
        \/ hero.at = "spot" /\ Contents(State) # {}
        \/ Received(State') - Received(State) >= lost
        \/ Received(State') + Due(State') - Received(State) - Due(State) >= lost
NothingForNothing == [][PaidOrOwed]_vars
=============================================================================
