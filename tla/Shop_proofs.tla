----------------------------- MODULE Shop_proofs -----------------------------
(***************************************************************************)
(* The safety of Shop, for any number of goods, any room on the bill and   *)
(* any prices.                                                             *)
(*                                                                         *)
(* In the order of the proof: numbers, sums and loops; what a sound state  *)
(* is; each routine on it; the invariant Inv; that each action keeps it;   *)
(* and that the properties follow.                                         *)
(***************************************************************************)
EXTENDS Shop, FiniteSetTheorems, WellFoundedInduction, TLAPS

(* A set of numbers has a least element; what holds at 0 and is handed on  *)
(* holds up to N.                                                          *)
LEMMA LeastOf ==
  ASSUME NEW T \in SUBSET Nat, T # {}
  PROVE  Min(T) \in T /\ \A m \in T : Min(T) <= m
<1>1. \E x \in T : \A y \in T : ~(<<y, x>> \in OpToRel(<, Nat))
  BY NatLessThanWellFounded, WFMin
<1>2. PICK x \in T : \A y \in T : ~(<<y, x>> \in OpToRel(<, Nat))
  BY <1>1
<1>3. \A y \in T : ~(y < x)
  BY <1>2 DEF OpToRel
<1>4. \A y \in T : x <= y
  BY <1>3
<1> QED
  BY <1>4 DEF Min

LEMMA CountedTo ==
  ASSUME NEW N \in Nat, NEW T, 0 \in T, \A n \in 0 .. N - 1 : n \in T => n + 1 \in T
  PROVE  \A n \in 0 .. N : n \in T
<1> DEFINE F == {n \in 0 .. N : n \notin T}
<1> SUFFICES F = {}
  OBVIOUS
<1>1. ASSUME F # {} PROVE FALSE
  <2> DEFINE x == Min(F)
  <2>1. x \in F /\ \A y \in F : x <= y
    BY <1>1, LeastOf
  <2> HIDE DEF x
  <2>2. x \in 1 .. N /\ x - 1 \in 0 .. N - 1
    BY <2>1
  <2>3. x - 1 \in T
    BY <2>1, <2>2
  <2> QED
    BY <2>1, <2>2, <2>3
<1> QED
  BY <1>1

(* A sum over a finite set: unfolded along subsets of one element more,    *)
(* whichever element is taken first.                                       *)
SumsUp(sum, S, fun) ==
  /\ SumFunction(fun) = sum[S] /\ sum[{}] = 0
  /\ \A s \in SUBSET S : sum[s] \in Nat
  /\ \A s \in SUBSET S : \A x \in s : sum[s] = fun[x] + sum[s \ {x}]
LEMMA SumAlong ==
  ASSUME NEW S, IsFiniteSet(S), NEW fun \in [S -> Nat]
  PROVE  \E sum : SumsUp(sum, S, fun)
<1> DEFINE pick(s) == CHOOSE x \in s : TRUE
           Body(f, s) == IF s = {} THEN 0 ELSE fun[pick(s)] + f[s \ {pick(s)}]
           sum == CHOOSE f : f = [s \in SUBSET S |-> Body(f, s)]
           N == Cardinality(S)
           T == {k \in 0 .. N : \E f \in [SUBSET S -> Nat] :
                   \A s \in SUBSET S : Cardinality(s) <= k => f[s] = Body(f, s)}
<1>1. SumFunction(fun) = sum[S]
  <2>1. DOMAIN fun = S
    OBVIOUS
  <2> QED
    BY <2>1 DEF SumFunction, SumFunctionOnSet, FoldFunctionOnSet, MapThenFoldSet
<1>2. /\ N \in Nat
      /\ \A s \in SUBSET S : Cardinality(s) \in 0 .. N /\ (Cardinality(s) = 0 <=> s = {})
  BY FS_CardinalityType, FS_Subset, FS_EmptySet
<1>3. \A s \in SUBSET S : s # {} => /\ pick(s) \in s /\ fun[pick(s)] \in Nat
                                    /\ s \ {pick(s)} \in SUBSET S
                                    /\ Cardinality(s \ {pick(s)}) = Cardinality(s) - 1
  BY FS_RemoveElement, FS_Subset
<1> HIDE DEF pick, N
<1>4. 0 \in T
  <2> DEFINE f == [s \in SUBSET S |-> 0]
  <2>1. f \in [SUBSET S -> Nat]
    OBVIOUS
  <2>2. \A s \in SUBSET S : Cardinality(s) <= 0 => f[s] = Body(f, s)
    BY <1>2
  <2> HIDE DEF f, Body
  <2> QED
    BY <2>1, <2>2, <1>2
<1>5. ASSUME NEW k \in 0 .. N - 1, k \in T PROVE k + 1 \in T
  <2> HIDE DEF Body
  <2>1. PICK f \in [SUBSET S -> Nat] : \A s \in SUBSET S : Cardinality(s) <= k => f[s] = Body(f, s)
    BY <1>5
  <2> DEFINE g == [s \in SUBSET S |-> IF Cardinality(s) <= k THEN f[s] ELSE Body(f, s)]
  <2>2. g \in [SUBSET S -> Nat]
    BY <1>3 DEF Body
  <2>3. ASSUME NEW s \in SUBSET S, Cardinality(s) <= k + 1 PROVE g[s] = Body(g, s)
    <3>1. g[s] = Body(f, s)
      BY <2>1
    <3>2. s # {} => g[s \ {pick(s)}] = f[s \ {pick(s)}]
      BY <1>2, <1>3, <2>3, <1>5
    <3> HIDE DEF g
    <3> QED
      BY <3>1, <3>2 DEF Body
  <2> HIDE DEF g
  <2> QED
    BY <2>2, <2>3, <1>2, <1>5
<1>6. N \in T
  <2> HIDE DEF T
  <2>1. \A n \in 0 .. N - 1 : n \in T => n + 1 \in T
    BY <1>5
  <2>2. \A n \in 0 .. N : n \in T
    BY <1>2, <1>4, <2>1, CountedTo
  <2> QED
    BY <1>2, <2>2
<1>7. \E f : f = [s \in SUBSET S |-> Body(f, s)]
  <2> HIDE DEF Body
  <2>1. PICK f \in [SUBSET S -> Nat] : \A s \in SUBSET S : Cardinality(s) <= N => f[s] = Body(f, s)
    BY <1>6
  <2>2. f = [s \in SUBSET S |-> Body(f, s)]
    BY <1>2, <2>1
  <2> QED
    BY <2>2
<1>8. sum = [s \in SUBSET S |-> Body(sum, s)]
  <2> HIDE DEF Body
  <2> QED
    BY <1>7
<1> HIDE DEF sum, Body, T
<1> DEFINE V == {k \in 0 .. N : \A s \in SUBSET S : Cardinality(s) = k => sum[s] \in Nat}
<1>12. \A s \in SUBSET S : sum[s] \in Nat
  <2>0. 0 \in V
    BY <1>2, <1>8 DEF Body
  <2>1. ASSUME NEW k \in 0 .. N - 1, k \in V PROVE k + 1 \in V
    <3>1. ASSUME NEW s \in SUBSET S, Cardinality(s) = k + 1 PROVE sum[s] \in Nat
      <4>0. s # {} /\ sum[s] = Body(sum, s)
        BY <1>2, <1>8, <3>1
      <4>1. s # {} /\ sum[s] = fun[pick(s)] + sum[s \ {pick(s)}]
        BY <4>0 DEF Body
      <4>2. sum[s \ {pick(s)}] \in Nat
        BY <1>2, <1>3, <2>1, <3>1, <4>1
      <4> QED
        BY <1>3, <4>1, <4>2
    <3> QED
      BY <1>2, <3>1
  <2> HIDE DEF V
  <2>2. \A n \in 0 .. N - 1 : n \in V => n + 1 \in V
    BY <2>1
  <2>3. \A n \in 0 .. N : n \in V
    BY <1>2, <2>0, <2>2, CountedTo
  <2> QED
    BY <1>2, <2>3 DEF V
<1> HIDE DEF V
<1> DEFINE U == {k \in 0 .. N : \A s \in SUBSET S : Cardinality(s) = k =>
                   sum[s] \in Nat /\ \A x \in s : sum[s] = fun[x] + sum[s \ {x}]}
<1>9. 0 \in U /\ sum[{}] = 0
  BY <1>2, <1>8, <1>12 DEF Body
<1>10. ASSUME NEW k \in 0 .. N - 1, k \in U PROVE k + 1 \in U
  <2>1. ASSUME NEW s \in SUBSET S, Cardinality(s) = k + 1
        PROVE  sum[s] \in Nat /\ \A x \in s : sum[s] = fun[x] + sum[s \ {x}]
    <3>0. s # {} /\ sum[s] = Body(sum, s)
      BY <1>2, <1>8, <2>1
    <3>a. PICK p : p = pick(s)
      OBVIOUS
    <3>1. s # {} /\ sum[s] = fun[p] + sum[s \ {p}] /\ p \in s /\ fun[p] \in Nat
      BY <1>3, <3>0, <3>a DEF Body
    <3>2. \A x \in s : s \ {x} \in SUBSET S /\ Cardinality(s \ {x}) = k
      <4>1. IsFiniteSet(s)
        BY FS_Subset
      <4>2. ASSUME NEW x \in s PROVE Cardinality(s \ {x}) = k
        <5>1. Cardinality(s \ {x}) = Cardinality(s) - 1
          BY <4>1, FS_RemoveElement
        <5> QED
          BY <1>2, <1>10, <2>1, <5>1
      <4> QED
        BY <4>2
    <3>3. \A x \in s : sum[s \ {x}] \in Nat /\ \A y \in s \ {x} : sum[s \ {x}] = fun[y] + sum[(s \ {x}) \ {y}]
      BY <1>10, <3>2
    <3>4. ASSUME NEW x \in s, x # p PROVE sum[s] = fun[x] + sum[s \ {x}]
      <4>a. PICK both : both = sum[(s \ {p}) \ {x}]
        OBVIOUS
      <4>1. (s \ {p}) \ {x} = (s \ {x}) \ {p} /\ x \in s \ {p} /\ p \in s \ {x}
        BY <3>1, <3>4
      <4>2. sum[s \ {p}] = fun[x] + both /\ sum[s \ {x}] = fun[p] + both
        BY <3>1, <3>3, <4>1, <4>a
      <4>3. both \in Nat
        <5>1. (s \ {p}) \ {x} \in SUBSET S
          OBVIOUS
        <5> QED
          BY <1>12, <4>a, <5>1
      <4>4. fun[x] \in Nat /\ fun[p] \in Nat
        BY <3>1
      <4> QED
        BY <3>1, <4>2, <4>3, <4>4
    <3>5. sum[s] \in Nat
      BY <3>1, <3>3
    <3> QED
      BY <3>1, <3>4, <3>5
  <2> QED
    BY <1>2, <2>1
<1>11. \A n \in 0 .. N : n \in U
  <2> HIDE DEF U
  <2>1. \A n \in 0 .. N - 1 : n \in U => n + 1 \in U
    BY <1>10
  <2> QED
    BY <1>2, <1>9, <2>1, CountedTo
<1>13. \A s \in SUBSET S : \A x \in s : sum[s] = fun[x] + sum[s \ {x}]
  BY <1>2, <1>11
<1>a. PICK all : all = sum
  OBVIOUS
<1>14. SumsUp(all, S, fun)
  BY <1>1, <1>9, <1>12, <1>13, <1>a DEF SumsUp
<1> WITNESS all
<1> QED
  BY <1>14

LEMMA SumNat ==
  ASSUME NEW S, IsFiniteSet(S), NEW fun \in [S -> Nat]
  PROVE  SumFunction(fun) \in Nat
<1>1. PICK sum : SumsUp(sum, S, fun)
  BY SumAlong
<1> QED
  BY <1>1 DEF SumsUp

LEMMA MaxZero ==
  ASSUME NEW n \in Int
  PROVE  /\ Max({0, n}) = IF n > 0 THEN n ELSE 0
         /\ Max({0, n}) \in Nat
<1> DEFINE k == IF n > 0 THEN n ELSE 0
<1>1. k \in {0, n} /\ \A y \in {0, n} : k >= y
  OBVIOUS
<1>2. \A x \in {0, n} : (\A y \in {0, n} : x >= y) => x = k
  OBVIOUS
<1> HIDE DEF k
<1>3. Max({0, n}) = k
  BY <1>1, <1>2 DEF Max
<1> QED
  BY <1>3 DEF k

LEMMA MinTwo ==
  ASSUME NEW i \in Int, NEW j \in Int
  PROVE  Min({i, j}) = IF i < j THEN i ELSE j
<1> DEFINE k == IF i < j THEN i ELSE j
<1>1. k \in {i, j} /\ \A y \in {i, j} : k =< y
  OBVIOUS
<1>2. \A x \in {i, j} : (\A y \in {i, j} : x =< y) => x = k
  OBVIOUS
<1> HIDE DEF k
<1>3. Min({i, j}) = k
  BY <1>1, <1>2 DEF Min
<1> QED
  BY <1>3 DEF k


----------------------------------------------------------------------------
(* Sound states.                                                           *)

Words == {"no room", "bill_p", "add_to_billobjs: obj not free", "paid obj on bill",
          "unpaid obj not on bill", "obfree: not on bill", "splitbill: no resident shopkeeper",
          "splitbill: not on bill", "splitbill: quantity", "dopay: not to shopkeeper"}
Rec == [obj : [Objects -> Obj], shk : Keeper, hero : Hero, wrong : SUBSET Words]

Lines(bill, o) == {bp \in bill : bp.bo_id = o}

(* What a thing and its lines on the bill have to do with each other.      *)
Fits(thing, lines, cost) ==
  /\ \A b, c \in lines : b = c
  /\ \A b \in lines : /\ b.useup <=> thing.where = "bill"
                      /\ thing.where # "none" /\ b.bquan >= thing.quan
                      /\ thing.unpaid \/ b.useup
                      /\ b.price = cost
  /\ thing.unpaid \/ thing.where = "bill" => lines # {}
  /\ thing.where = "none" <=> thing.quan = 0

BillRight(k) == /\ IsFiniteSet(k.bill) /\ Cardinality(k.bill) <= k.billsz
                /\ k.loan <= k.debit
BagRight(things) == /\ things[Bag].quan <= 1 /\ things[Bag].where \notin {"bag", "bill", "mon"}
                    /\ (\E o \in Objects : things[o].where = "bag") => things[Bag].where # "none"
Sound(m) == /\ m \in Rec /\ BillRight(m.shk) /\ BagRight(m.obj)
            /\ \A o \in Objects : Fits(m.obj[o], Lines(m.shk.bill, o), GetCost(m))

(* The price of one thing.                                                 *)
LEMMA CostType ==
  ASSUME NEW m \in Rec
  PROVE  GetCost(m) \in Nat
BY ShopAssumption DEF GetCost

(* Entry() is the one line there is.                                       *)
LEMMA TheEntry ==
  ASSUME NEW m, Sound(m), NEW o \in Objects, Billed(m, o)
  PROVE  /\ Entry(m, o) \in m.shk.bill /\ Entry(m, o) \in Bill /\ Entry(m, o).bo_id = o
         /\ Lines(m.shk.bill, o) = {Entry(m, o)}
         /\ Entry(m, o).price = GetCost(m) /\ Entry(m, o).bquan >= m.obj[o].quan
         /\ Entry(m, o).useup <=> m.obj[o].where = "bill"
         /\ m.obj[o].where # "none" /\ (m.obj[o].unpaid \/ m.obj[o].where = "bill")
<1> DEFINE e == Entry(m, o)
<1>1. e \in m.shk.bill /\ e.bo_id = o
  BY DEF Billed, Entry
<1> HIDE DEF e
<1>2. e \in Lines(m.shk.bill, o) /\ e \in Bill
  BY <1>1 DEF Lines, Sound, Rec, Keeper
<1>3. Fits(m.obj[o], Lines(m.shk.bill, o), GetCost(m))
  BY DEF Sound
<1>4. Lines(m.shk.bill, o) = {e}
  BY <1>2, <1>3 DEF Fits
<1> QED
  BY <1>1, <1>2, <1>3, <1>4 DEF Fits, e

LEMMA NotBilled ==
  ASSUME NEW m, Sound(m), NEW o \in Objects
  PROVE  /\ Billed(m, o) <=> Lines(m.shk.bill, o) # {}
         /\ Billed(m, o) <=> m.obj[o].unpaid \/ m.obj[o].where = "bill"
<1>1. Billed(m, o) <=> Lines(m.shk.bill, o) # {}
  BY DEF Billed, Lines
<1>2. Fits(m.obj[o], Lines(m.shk.bill, o), GetCost(m))
  BY DEF Sound
<1>3. Lines(m.shk.bill, o) # {} => m.obj[o].unpaid \/ m.obj[o].where = "bill"
  BY <1>2 DEF Fits
<1> QED
  BY <1>1, <1>2, <1>3 DEF Fits

LEMMA FitsOne ==
  ASSUME NEW thing \in Obj, NEW b \in Bill, NEW cost, b.price = cost,
         b.useup <=> thing.where = "bill", thing.where # "none", b.bquan >= thing.quan,
         thing.unpaid \/ b.useup, thing.quan # 0
  PROVE  Fits(thing, {b}, cost)
BY DEF Fits

LEMMA FitsNone ==
  ASSUME NEW thing \in Obj, NEW cost, ~thing.unpaid, thing.where # "bill",
         thing.where = "none" <=> thing.quan = 0
  PROVE  Fits(thing, {}, cost)
BY DEF Fits

(* Lines that come and go.                                                 *)
LEMMA LineDropped ==
  ASSUME NEW bill \in SUBSET Bill, IsFiniteSet(bill), NEW e \in bill
  PROVE  LET rest == bill \ {e} IN
         /\ rest \in SUBSET Bill /\ IsFiniteSet(rest) /\ Cardinality(rest) = Cardinality(bill) - 1
         /\ Cardinality(bill) \in Nat /\ Cardinality(rest) \in Nat
         /\ \A c : Lines(rest, c) = Lines(bill, c) \ {e}
         /\ \A c : c # e.bo_id => Lines(rest, c) = Lines(bill, c)
<1>1. \A c : Lines(bill \ {e}, c) = Lines(bill, c) \ {e}
  BY DEF Lines
<1>2. \A c : c # e.bo_id => Lines(bill \ {e}, c) = Lines(bill, c)
  BY DEF Lines
<1> QED
  BY <1>1, <1>2, FS_RemoveElement, FS_CardinalityType

LEMMA LineAdded ==
  ASSUME NEW bill \in SUBSET Bill, IsFiniteSet(bill), NEW e \in Bill
  PROVE  LET more == bill \cup {e} IN
         /\ more \in SUBSET Bill /\ IsFiniteSet(more) /\ Cardinality(more) <= Cardinality(bill) + 1
         /\ Cardinality(bill) \in Nat /\ Cardinality(more) \in Nat
         /\ Lines(more, e.bo_id) = Lines(bill, e.bo_id) \cup {e}
         /\ \A c : c # e.bo_id => Lines(more, c) = Lines(bill, c)
<1>1. Lines(bill \cup {e}, e.bo_id) = Lines(bill, e.bo_id) \cup {e}
  BY DEF Lines
<1>2. \A c : c # e.bo_id => Lines(bill \cup {e}, c) = Lines(bill, c)
  BY DEF Lines
<1>3. /\ IsFiniteSet(bill \cup {e}) /\ Cardinality(bill) \in Nat
      /\ Cardinality(bill \cup {e}) = IF e \in bill THEN Cardinality(bill) ELSE Cardinality(bill) + 1
  BY FS_AddElement, FS_CardinalityType
<1> QED
  BY <1>1, <1>2, <1>3

LEMMA LineReplaced ==
  ASSUME NEW bill \in SUBSET Bill, IsFiniteSet(bill), NEW e \in bill, NEW f \in Bill,
         Lines(bill, e.bo_id) = {e}, f.bo_id = e.bo_id \/ Lines(bill, f.bo_id) = {}
  PROVE  LET new == (bill \ {e}) \cup {f} IN
         /\ new \in SUBSET Bill /\ IsFiniteSet(new) /\ Cardinality(new) <= Cardinality(bill)
         /\ Cardinality(bill) \in Nat /\ Cardinality(new) \in Nat
         /\ Lines(new, f.bo_id) = {f}
         /\ e.bo_id # f.bo_id => Lines(new, e.bo_id) = {}
         /\ \A c : c \notin {e.bo_id, f.bo_id} => Lines(new, c) = Lines(bill, c)
<1> DEFINE rest == bill \ {e}
<1>1. /\ rest \in SUBSET Bill /\ IsFiniteSet(rest) /\ Cardinality(rest) = Cardinality(bill) - 1
      /\ Cardinality(bill) \in Nat
      /\ Lines(rest, e.bo_id) = {} /\ \A c : c # e.bo_id => Lines(rest, c) = Lines(bill, c)
  <2>1. /\ rest \in SUBSET Bill /\ IsFiniteSet(rest) /\ Cardinality(rest) = Cardinality(bill) - 1
        /\ Cardinality(bill) \in Nat
        /\ \A c : Lines(rest, c) = Lines(bill, c) \ {e}
        /\ \A c : c # e.bo_id => Lines(rest, c) = Lines(bill, c)
    BY LineDropped, Zenon
  <2> QED
    BY <2>1
<1> HIDE DEF rest
<1> DEFINE new == rest \cup {f}
<1>2. /\ new \in SUBSET Bill /\ IsFiniteSet(new) /\ Cardinality(new) <= Cardinality(rest) + 1
      /\ Cardinality(new) \in Nat
      /\ Lines(new, f.bo_id) = Lines(rest, f.bo_id) \cup {f}
      /\ \A c : c # f.bo_id => Lines(new, c) = Lines(rest, c)
  BY <1>1, LineAdded
<1>3. Lines(rest, f.bo_id) = {}
  BY <1>1
<1> HIDE DEF new
<1>4. new = (bill \ {e}) \cup {f}
  BY DEF new, rest
<1>5. Cardinality(new) <= Cardinality(bill)
  BY <1>1, <1>2
<1> QED
  BY <1>1, <1>2, <1>3, <1>4, <1>5

(* A line in place of another.                                             *)
Swapped(bill, e, f) == (bill \ {e}) \cup {f}
LEMMA LineSwap ==
  ASSUME NEW bill \in SUBSET Bill, IsFiniteSet(bill), NEW e \in bill, NEW f \in Bill,
         Lines(bill, e.bo_id) = {e}, f.bo_id = e.bo_id \/ Lines(bill, f.bo_id) = {},
         NEW new, new = Swapped(bill, e, f)
  PROVE  /\ new \in SUBSET Bill /\ IsFiniteSet(new) /\ Cardinality(new) <= Cardinality(bill)
         /\ Cardinality(bill) \in Nat /\ Cardinality(new) \in Nat /\ bill # {}
         /\ Lines(new, f.bo_id) = {f}
         /\ e.bo_id # f.bo_id => Lines(new, e.bo_id) = {}
         /\ \A c : c \notin {e.bo_id, f.bo_id} => Lines(new, c) = Lines(bill, c)
<1>1. LET l == (bill \ {e}) \cup {f} IN
      /\ l \in SUBSET Bill /\ IsFiniteSet(l) /\ Cardinality(l) <= Cardinality(bill)
      /\ Cardinality(bill) \in Nat /\ Cardinality(l) \in Nat
      /\ Lines(l, f.bo_id) = {f}
      /\ e.bo_id # f.bo_id => Lines(l, e.bo_id) = {}
      /\ \A c : c \notin {e.bo_id, f.bo_id} => Lines(l, c) = Lines(bill, c)
  BY LineReplaced, ZenonT(90)
<1> QED
  BY <1>1 DEF Swapped

(* onbill() has nothing to complain of.                                    *)
LEMMA OnBillQuiet ==
  ASSUME NEW m, Sound(m), NEW o \in Objects, m.obj[o].where # "bill"
  PROVE  OnBill(m, o) = m
<1>1. Billed(m, o) <=> m.obj[o].unpaid
  BY NotBilled
<1>2. ~(Billed(m, o) /\ ~m.obj[o].unpaid) /\ ~(~Billed(m, o) /\ m.obj[o].unpaid)
  BY <1>1
<1> DEFINE b == Billed(m, o)  u == m.obj[o].unpaid  c(what) == Complain(m, what)
<1>3. OnBill(m, o) = CASE b /\ ~u -> c("paid obj on bill")
                       [] ~b /\ u -> c("unpaid obj not on bill")
                       [] OTHER -> m
  BY DEF OnBill
<1> HIDE DEF b, u, c
<1>4. ~(b /\ ~u) /\ ~(~b /\ u)
  BY <1>2 DEF b, u
<1> QED
  BY <1>3, <1>4

----------------------------------------------------------------------------
(* Taking things off the bill.                                             *)

LEMMA NewObjFree ==
  ASSUME NEW m \in Rec, Unused(m) # {}
  PROVE  /\ NewObj(m) \in Ids /\ NewObj(m) \in Objects /\ NewObj(m) # Bag
         /\ m.obj[NewObj(m)].where = "none"
<1>1. Unused(m) \in SUBSET Nat /\ Ids \subseteq Objects /\ Bag \notin Ids
  BY ShopAssumption DEF Unused, Ids, Objects, Bag
<1>2. NewObj(m) \in Unused(m)
  BY <1>1, LeastOf DEF NewObj
<1> QED
  BY <1>1, <1>2 DEF Unused

(* n is m with the things of S off the bill; what was used up of them      *)
(* stays on it, under an id of its own.                                    *)
Sheds(m, n, S) ==
  /\ n.hero = m.hero /\ n.shk = [m.shk EXCEPT !.bill = n.shk.bill]
  /\ m.wrong \subseteq n.wrong /\ n.wrong \subseteq m.wrong \cup {"no room"}
  /\ m.shk.bill = {} => n.shk.bill = {}
  /\ \A c \in Objects :
       \/ n.obj[c] = m.obj[c]
       \/ c \in S /\ n.obj[c] = [m.obj[c] EXCEPT !.unpaid = FALSE]
       \/ /\ c # Bag /\ m.obj[c].where = "none" /\ n.obj[c].where = "bill"
          /\ ~n.obj[c].unpaid /\ ~n.obj[c].no_charge
  /\ "no room" \notin n.wrong => \A c \in S : ~n.obj[c].unpaid
  /\ "no room" \in n.wrong => "no room" \in m.wrong \/ Unused(n) = {}

LEMMA SubOneSheds ==
  ASSUME NEW m, Sound(m), NEW o \in Objects, m.obj[o].where \notin {"none", "bill"}
  PROVE  Sound(SubOne(m, o)) /\ Sheds(m, SubOne(m, o), {o})
<1> DEFINE off == [m EXCEPT !.obj[o].unpaid = FALSE]
           bp == Entry(m, o)
           used == bp.bquan - m.obj[o].quan
           d == NewObj(m)
           more == [off EXCEPT !.obj[d] = [NoObj EXCEPT !.where = "bill", !.quan = used]]
           line == [bp EXCEPT !.bo_id = d, !.bquan = used, !.useup = TRUE]
           rest == m.shk.bill \ {bp}
           n == SubOne(m, o)
<1>0. /\ m \in Rec /\ BillRight(m.shk) /\ BagRight(m.obj) /\ GetCost(m) \in Nat
      /\ \A c \in Objects : Fits(m.obj[c], Lines(m.shk.bill, c), GetCost(m))
      /\ m.shk.bill \in SUBSET Bill /\ m.shk \in Keeper
  BY CostType DEF Sound, Rec, Keeper
<1>1. /\ off \in Rec /\ off.shk = m.shk /\ off.hero = m.hero /\ off.wrong = m.wrong
      /\ \A c \in Objects : off.obj[c] = IF c = o THEN [m.obj[o] EXCEPT !.unpaid = FALSE] ELSE m.obj[c]
      /\ off.obj[o].where = m.obj[o].where /\ off.obj[o].quan = m.obj[o].quan
      /\ off.obj[o].unpaid = FALSE /\ off.obj[o].no_charge = m.obj[o].no_charge
  BY <1>0 DEF Rec, Obj
<1>2. BagRight(off.obj)
  BY <1>0, <1>1 DEF BagRight, Bag, Objects
<1>3. /\ ~Billed(m, o) => n = off
      /\ Billed(m, o) /\ used <= 0 => n = Unbilled(off, o)
      /\ Billed(m, o) /\ used > 0 /\ Unused(m) = {} => n = Complain(m, "no room")
      /\ Billed(m, o) /\ used > 0 /\ Unused(m) # {} => n = Rebilled(more, o, line)
  <2> DEFINE p == Billed(m, o)  q == used <= 0  r == used > 0  z == Unused(m) = {}
             n1 == Unbilled(off, o)  n2 == Complain(m, "no room")  n3 == Rebilled(more, o, line)
  <2>1. n = CASE ~p -> off [] p /\ q -> n1 [] p /\ r /\ z -> n2 [] OTHER -> n3
    BY OnBillQuiet DEF SubOne
  <2>2. ASSUME Billed(m, o) PROVE used \in Int
    <3> HIDE DEF p
    <3>1. bp.bquan \in Nat /\ m.obj[o].quan \in Nat
      BY <1>0, <2>2, TheEntry DEF Rec, Obj, Bill
    <3> QED
      BY <3>1
  <2>3. p => ~(q /\ r)
    BY <2>2
  <2> HIDE DEF p, q, r, z, n1, n2, n3, n, off
  <2>4. /\ ~p => n = off
        /\ p /\ q => n = n1
        /\ p /\ r /\ z => n = n2
        /\ p /\ r /\ ~z => n = n3
    BY <2>1, <2>3
  <2> QED
    BY <2>4 DEF p, q, r, z, n1, n2, n3
<1>4. CASE ~Billed(m, o)
  <2>1. n = off /\ ~m.obj[o].unpaid
    BY <1>3, <1>4, NotBilled
  <2> HIDE DEF n, off
  <2> QED
    <3>1. \A c \in Objects : Fits(off.obj[c], Lines(off.shk.bill, c), GetCost(off))
      BY <2>1, <1>0, <1>1 DEF Fits, GetCost
    <3>2. Sound(n)
      BY <2>1, <3>1, <1>0, <1>1, <1>2 DEF Sound
    <3>3. Sheds(m, n, {o})
      BY <2>1, <1>0, <1>1 DEF Sheds, Keeper
    <3> QED
      BY <3>2, <3>3 DEF n
<1>5. CASE Billed(m, o)
  <2>1. /\ bp \in m.shk.bill /\ bp \in Bill /\ bp.bo_id = o /\ Lines(m.shk.bill, o) = {bp}
        /\ bp.price = GetCost(m) /\ bp.bquan >= m.obj[o].quan /\ m.obj[o].unpaid
        /\ bp.bquan \in Nat /\ m.obj[o].quan \in Nat
    BY <1>0, <1>5, TheEntry DEF Rec, Obj, Bill
  <2> HIDE DEF n, off, bp
  <2>2. CASE used <= 0
    <3> DEFINE k == [m.shk EXCEPT !.bill = rest]
    <3>1. n = Unbilled(off, o)
      BY <1>3, <1>5, <2>2
    <3>2. n = [off EXCEPT !.shk = k]
      BY <3>1, <1>1 DEF Unbilled, Entry, bp
    <3>3. /\ rest \in SUBSET Bill /\ IsFiniteSet(rest) /\ Cardinality(rest) <= m.shk.billsz
          /\ Lines(rest, o) = {} /\ \A c : c # o => Lines(rest, c) = Lines(m.shk.bill, c)
      <4> HIDE DEF rest
      <4>1. /\ rest \in SUBSET Bill /\ IsFiniteSet(rest) /\ Cardinality(rest) = Cardinality(m.shk.bill) - 1
            /\ Cardinality(m.shk.bill) \in Nat
            /\ \A c : Lines(rest, c) = Lines(m.shk.bill, c) \ {bp}
            /\ \A c : c # o => Lines(rest, c) = Lines(m.shk.bill, c)
        BY <1>0, <2>1, LineDropped, Zenon DEF rest, BillRight
      <4>2. m.shk.billsz \in Nat /\ Cardinality(m.shk.bill) <= m.shk.billsz
        BY <1>0 DEF Keeper, BillRight
      <4> QED
        BY <4>1, <4>2, <2>1
    <3> HIDE DEF rest
    <3>4. /\ k \in Keeper /\ k.bill = rest /\ BillRight(k) /\ k.surcharge = m.shk.surcharge
      BY <1>0, <3>3 DEF Keeper, BillRight
    <3> HIDE DEF k
    <3>5. n \in Rec /\ n.obj = off.obj /\ n.shk = k /\ n.hero = m.hero /\ n.wrong = m.wrong
      BY <1>1, <3>2, <3>4 DEF Rec
    <3>6. ASSUME NEW c \in Objects PROVE Fits(n.obj[c], Lines(rest, c), GetCost(n))
      BY <1>0, <1>1, <2>1, <3>3, <3>4, <3>5 DEF Fits, GetCost
    <3>7. Sound(n)
      BY <1>2, <3>4, <3>5, <3>6 DEF Sound
    <3>8. Sheds(m, n, {o})
      BY <1>1, <2>1, <3>4, <3>5 DEF Sheds, k
    <3> QED
      BY <3>7, <3>8 DEF n
  <2>3. CASE used > 0 /\ Unused(m) = {}
    <3>1. n = Complain(m, "no room")
      BY <1>3, <1>5, <2>3, <2>1
    <3>2. n \in Rec /\ n.obj = m.obj /\ n.shk = m.shk /\ n.hero = m.hero /\ n.wrong = m.wrong \cup {"no room"}
      BY <1>0, <3>1 DEF Complain, Rec, Words
    <3>3. Sound(n)
      BY <1>0, <3>2 DEF Sound, GetCost
    <3>4. Sheds(m, n, {o})
      <4>1. Unused(n) = {}
        BY <2>3, <3>2 DEF Unused
      <4> QED
        BY <1>0, <3>2, <4>1 DEF Sheds, Keeper
    <3> QED
      BY <3>3, <3>4 DEF n
  <2>4. CASE used > 0 /\ Unused(m) # {}
    <3> DEFINE new == rest \cup {line}
               k == [m.shk EXCEPT !.bill = new]
    <3>1. n = Rebilled(more, o, line)
      BY <1>3, <1>5, <2>4, <2>1
    <3>0. d \in Ids /\ d \in Objects /\ d # Bag /\ m.obj[d].where = "none" /\ d # o
      BY <1>0, <2>4, NewObjFree
    <3> HIDE DEF d
    <3>2. used \in Nat /\ used > 0
      BY <2>1, <2>4
    <3> HIDE DEF used
    <3>3. /\ more \in Rec /\ more.shk = m.shk /\ more.hero = m.hero /\ more.wrong = m.wrong
          /\ \A c \in Objects : c # d => more.obj[c] = off.obj[c]
          /\ more.obj[d] = [NoObj EXCEPT !.where = "bill", !.quan = used]
          /\ more.obj[d].where = "bill" /\ more.obj[d].quan = used
          /\ ~more.obj[d].unpaid /\ ~more.obj[d].no_charge
      BY <1>1, <3>0, <3>2 DEF Rec, Obj, NoObj
    <3> HIDE DEF more
    <3>4. n = [more EXCEPT !.shk = k]
      BY <3>1, <3>3 DEF Rebilled, Entry, bp
    <3>5. line \in Bill /\ line.bo_id = d /\ line.bquan = used /\ line.useup = TRUE /\ line.price = GetCost(m)
      <4>1. d \in Objects /\ used \in Nat \ {0} /\ TRUE \in BOOLEAN /\ bp \in Bill
        BY <2>1, <3>0, <3>2
      <4>2. line \in Bill /\ line.bo_id = d /\ line.bquan = used /\ line.useup = TRUE /\ line.price = bp.price
        BY <4>1 DEF Bill
      <4> QED
        BY <4>2, <2>1
    <3> HIDE DEF line
    <3>6. Lines(m.shk.bill, d) = {}
      BY <1>0, <3>0 DEF Fits
    <3>7. /\ new \in SUBSET Bill /\ IsFiniteSet(new) /\ Cardinality(new) <= Cardinality(m.shk.bill)
          /\ Cardinality(m.shk.bill) \in Nat /\ Cardinality(new) \in Nat
          /\ Lines(new, d) = {line} /\ Lines(new, o) = {}
          /\ \A c : c \notin {o, d} => Lines(new, c) = Lines(m.shk.bill, c)
      <4> HIDE DEF new
      <4>1. /\ new \in SUBSET Bill /\ IsFiniteSet(new) /\ Cardinality(new) <= Cardinality(m.shk.bill)
            /\ Cardinality(m.shk.bill) \in Nat /\ Cardinality(new) \in Nat
            /\ Lines(new, line.bo_id) = {line}
            /\ bp.bo_id # line.bo_id => Lines(new, bp.bo_id) = {}
            /\ \A c : c \notin {bp.bo_id, line.bo_id} => Lines(new, c) = Lines(m.shk.bill, c)
        <5>1. Lines(m.shk.bill, bp.bo_id) = {bp} /\ Lines(m.shk.bill, line.bo_id) = {}
          BY <2>1, <3>5, <3>6
        <5>2. m.shk.bill \in SUBSET Bill /\ IsFiniteSet(m.shk.bill)
          BY <1>0 DEF BillRight
        <5> QED
          BY <5>1, <5>2, <2>1, <3>5, LineReplaced, ZenonT(90) DEF rest, new
      <4> QED
        BY <4>1, <2>1, <3>5, <3>0
    <3> HIDE DEF new
    <3>8. /\ k \in Keeper /\ k.bill = new /\ BillRight(k) /\ k.surcharge = m.shk.surcharge
      BY <1>0, <3>7 DEF Keeper, BillRight
    <3> HIDE DEF k
    <3>9. n \in Rec /\ n.obj = more.obj /\ n.shk = k /\ n.hero = m.hero /\ n.wrong = m.wrong
      BY <3>3, <3>4, <3>8 DEF Rec
    <3>10. ASSUME NEW c \in Objects PROVE Fits(n.obj[c], Lines(new, c), GetCost(n))
      <4>1. GetCost(n) = GetCost(m)
        BY <3>8, <3>9 DEF GetCost
      <4>2. CASE c = d
        <5>1. n.obj[c] \in Obj /\ n.obj[c].where = "bill" /\ n.obj[c].quan = used
          BY <4>2, <3>3, <3>9 DEF Rec
        <5>2. /\ line.price = GetCost(n) /\ (line.useup <=> n.obj[c].where = "bill")
              /\ n.obj[c].where # "none" /\ line.bquan >= n.obj[c].quan
              /\ (n.obj[c].unpaid \/ line.useup) /\ n.obj[c].quan # 0
          BY <4>1, <5>1, <3>2, <3>5
        <5>3. Fits(n.obj[c], {line}, GetCost(n))
          BY <5>1, <5>2, <3>2, <3>5, FitsOne
        <5> QED
          BY <4>2, <5>3, <3>7
      <4>3. CASE c = o
        BY <4>1, <4>3, <3>0, <1>0, <1>1, <3>3, <3>7, <3>9 DEF Fits
      <4>4. CASE c \notin {o, d}
        BY <4>1, <4>4, <1>0, <1>1, <3>3, <3>7, <3>9
      <4> QED
        BY <4>2, <4>3, <4>4
    <3>11. BagRight(n.obj)
      <4>1. Bag \in Objects
        BY ShopAssumption DEF Bag, Objects
      <4>2. n.obj[Bag] = off.obj[Bag]
        BY <4>1, <3>0, <3>3, <3>9
      <4>3. \A c \in Objects : n.obj[c].where = "bag" => off.obj[c].where = "bag"
        BY <3>3, <3>9
      <4> QED
        BY <4>2, <4>3, <1>2 DEF BagRight
    <3>12. Sound(n)
      BY <3>8, <3>9, <3>10, <3>11 DEF Sound
    <3>13. Sheds(m, n, {o})
      <4>1. \A c \in Objects :
               \/ n.obj[c] = m.obj[c]
               \/ c \in {o} /\ n.obj[c] = [m.obj[c] EXCEPT !.unpaid = FALSE]
               \/ /\ c # Bag /\ m.obj[c].where = "none" /\ n.obj[c].where = "bill"
                  /\ ~n.obj[c].unpaid /\ ~n.obj[c].no_charge
        BY <1>1, <3>0, <3>3, <3>9
      <4>2. ~n.obj[o].unpaid
        BY <1>1, <3>0, <3>3, <3>9
      <4>3. n.shk = [m.shk EXCEPT !.bill = n.shk.bill] /\ m.shk.bill # {}
        BY <2>1, <3>8, <3>9 DEF k
      <4> QED
        BY <4>1, <4>2, <4>3, <3>9 DEF Sheds
    <3> QED
      BY <3>12, <3>13 DEF n
  <2> QED
    BY <2>1, <2>2, <2>3, <2>4
<1> QED
  BY <1>4, <1>5

----------------------------------------------------------------------------
(* Things with their contents: the loops of subfrombill() and              *)
(* bill_box_content(), unfolded.                                           *)

LEMMA SubFromBillUnfolds ==
  ASSUME NEW m, NEW o
  PROVE  \E f : /\ f[0] = SubOne(m, o)
                /\ \A n \in 0 .. MaxId - 1 : f[n + 1] = IF n + 1 \in Within(m, o) THEN SubOne(f[n], n + 1) ELSE f[n]
                /\ SubFromBill(m, o) = f[MaxId]
<1> DEFINE Body(f, n) == IF n = 0 THEN SubOne(m, o) ELSE IF n \in Within(m, o) THEN SubOne(f[n - 1], n) ELSE f[n - 1]
           T == {k \in 0 .. MaxId : \E f : f = [n \in 0 .. k |-> Body(f, n)]}
<1>0. MaxId \in Nat
  BY ShopAssumption
<1>1. 0 \in T
  <2> DEFINE f == [n \in 0 .. 0 |-> SubOne(m, o)]
  <2>1. f = [n \in 0 .. 0 |-> Body(f, n)]
    OBVIOUS
  <2> HIDE DEF f, Body
  <2> QED
    BY <1>0, <2>1
<1>2. ASSUME NEW k \in 0 .. MaxId - 1, k \in T PROVE k + 1 \in T
  <2>1. PICK f : f = [n \in 0 .. k |-> Body(f, n)]
    BY <1>2
  <2> DEFINE g == [n \in 0 .. k + 1 |-> IF n <= k THEN f[n] ELSE Body(f, k + 1)]
  <2>2. \A n \in 0 .. k + 1 : g[n] = Body(g, n)
    <3> TAKE n \in 0 .. k + 1
    <3>1. CASE n <= k
      <4>1. g[n] = f[n] /\ f[n] = Body(f, n)
        <5> HIDE DEF Body
        <5> QED
          BY <1>0, <2>1, <3>1
      <4>2. n # 0 => f[n - 1] = g[n - 1]
        BY <1>0, <3>1
      <4> QED
        BY <4>1, <4>2
    <3>2. CASE n = k + 1
      <4>1. g[n] = Body(f, k + 1) /\ f[n - 1] = g[n - 1]
        BY <1>0, <3>2
      <4> QED
        BY <1>0, <3>2, <4>1
    <3> QED
      BY <1>0, <3>1, <3>2
  <2>3. g = [n \in 0 .. k + 1 |-> Body(g, n)]
    BY <2>2
  <2> HIDE DEF g, Body
  <2> QED
    BY <1>0, <2>3
<1>3. \E f : f = [n \in 0 .. MaxId |-> Body(f, n)]
  <2> HIDE DEF Body
  <2>1. \A n \in 0 .. MaxId - 1 : n \in T => n + 1 \in T
    BY <1>2
  <2>2. MaxId \in T
    <3> HIDE DEF T
    <3>1. \A n \in 0 .. MaxId : n \in T
      BY <1>0, <1>1, <2>1, CountedTo
    <3> QED
      BY <1>0, <3>1
  <2> QED
    BY <2>2
<1> DEFINE whole == CHOOSE f : f = [n \in 0 .. MaxId |-> Body(f, n)]
<1>4. SubFromBill(m, o) = whole[MaxId]
  BY DEF SubFromBill, Objects
<1>5. whole = [n \in 0 .. MaxId |-> Body(whole, n)]
  <2> HIDE DEF Body
  <2> QED
    BY <1>3
<1> HIDE DEF whole, Body
<1>6. /\ whole[0] = Body(whole, 0)
      /\ \A n \in 0 .. MaxId - 1 : whole[n + 1] = Body(whole, n + 1)
  BY <1>0, <1>5
<1>7. /\ whole[0] = SubOne(m, o)
      /\ \A n \in 0 .. MaxId - 1 : whole[n + 1] = IF n + 1 \in Within(m, o) THEN SubOne(whole[n], n + 1) ELSE whole[n]
  <2>1. \A n \in 0 .. MaxId - 1 : n + 1 # 0 /\ n + 1 - 1 = n
    BY <1>0
  <2> QED
    BY <1>6, <2>1 DEF Body
<1> QED
  BY <1>4, <1>7

LEMMA AddAllUnfolds ==
  ASSUME NEW m, NEW S, NEW dummy
  PROVE  \E f : /\ f[0] = m
                /\ \A n \in 0 .. MaxId - 1 : f[n + 1] = IF n + 1 \in S THEN AddOne(f[n], n + 1, dummy) ELSE f[n]
                /\ AddAll(m, S, dummy) = f[MaxId]
<1> DEFINE Body(f, n) == IF n = 0 THEN m ELSE IF n \in S THEN AddOne(f[n - 1], n, dummy) ELSE f[n - 1]
           T == {k \in 0 .. MaxId : \E f : f = [n \in 0 .. k |-> Body(f, n)]}
<1>0. MaxId \in Nat
  BY ShopAssumption
<1>1. 0 \in T
  <2> DEFINE f == [n \in 0 .. 0 |-> m]
  <2>1. f = [n \in 0 .. 0 |-> Body(f, n)]
    OBVIOUS
  <2> HIDE DEF f, Body
  <2> QED
    BY <1>0, <2>1
<1>2. ASSUME NEW k \in 0 .. MaxId - 1, k \in T PROVE k + 1 \in T
  <2>1. PICK f : f = [n \in 0 .. k |-> Body(f, n)]
    BY <1>2
  <2> DEFINE g == [n \in 0 .. k + 1 |-> IF n <= k THEN f[n] ELSE Body(f, k + 1)]
  <2>2. \A n \in 0 .. k + 1 : g[n] = Body(g, n)
    <3> TAKE n \in 0 .. k + 1
    <3>1. CASE n <= k
      <4>1. g[n] = f[n] /\ f[n] = Body(f, n)
        <5> HIDE DEF Body
        <5> QED
          BY <1>0, <2>1, <3>1
      <4>2. n # 0 => f[n - 1] = g[n - 1]
        BY <1>0, <3>1
      <4> QED
        BY <4>1, <4>2
    <3>2. CASE n = k + 1
      <4>1. g[n] = Body(f, k + 1) /\ f[n - 1] = g[n - 1]
        BY <1>0, <3>2
      <4> QED
        BY <1>0, <3>2, <4>1
    <3> QED
      BY <1>0, <3>1, <3>2
  <2>3. g = [n \in 0 .. k + 1 |-> Body(g, n)]
    BY <2>2
  <2> HIDE DEF g, Body
  <2> QED
    BY <1>0, <2>3
<1>3. \E f : f = [n \in 0 .. MaxId |-> Body(f, n)]
  <2> HIDE DEF Body
  <2>1. \A n \in 0 .. MaxId - 1 : n \in T => n + 1 \in T
    BY <1>2
  <2>2. MaxId \in T
    <3> HIDE DEF T
    <3>1. \A n \in 0 .. MaxId : n \in T
      BY <1>0, <1>1, <2>1, CountedTo
    <3> QED
      BY <1>0, <3>1
  <2> QED
    BY <2>2
<1> DEFINE whole == CHOOSE f : f = [n \in 0 .. MaxId |-> Body(f, n)]
<1>4. AddAll(m, S, dummy) = whole[MaxId]
  BY DEF AddAll, Objects
<1>5. whole = [n \in 0 .. MaxId |-> Body(whole, n)]
  <2> HIDE DEF Body
  <2> QED
    BY <1>3
<1> HIDE DEF whole, Body
<1>6. /\ whole[0] = Body(whole, 0)
      /\ \A n \in 0 .. MaxId - 1 : whole[n + 1] = Body(whole, n + 1)
  BY <1>0, <1>5
<1>7. /\ whole[0] = m
      /\ \A n \in 0 .. MaxId - 1 : whole[n + 1] = IF n + 1 \in S THEN AddOne(whole[n], n + 1, dummy) ELSE whole[n]
  <2>1. \A n \in 0 .. MaxId - 1 : n + 1 # 0 /\ n + 1 - 1 = n
    BY <1>0
  <2> QED
    BY <1>6, <2>1 DEF Body
<1> QED
  BY <1>4, <1>7

(* Taking things off one after the other.                                  *)
LEMMA ShedsTwice ==
  ASSUME NEW m \in Rec, NEW n \in Rec, NEW k \in Rec, NEW S, NEW T, Sheds(m, n, S), Sheds(n, k, T),
         \A c \in T : c \in Objects /\ m.obj[c].where # "none", S \subseteq Objects
  PROVE  Sheds(m, k, S \cup T)
<1>1. k.hero = m.hero /\ k.shk = [m.shk EXCEPT !.bill = k.shk.bill]
  <2> DEFINE X == n.shk.bill  Y == k.shk.bill  p == m.shk  q == n.shk  r == k.shk
  <2>1. q = [p EXCEPT !.bill = X] /\ r = [q EXCEPT !.bill = Y] /\ p \in Keeper
    BY DEF Sheds, Rec
  <2> HIDE DEF X, Y, p, q, r
  <2>2. r = [p EXCEPT !.bill = Y]
    BY <2>1 DEF Keeper
  <2> QED
    BY <2>2 DEF Sheds, p, r, Y
<1>2. /\ m.wrong \subseteq k.wrong /\ k.wrong \subseteq m.wrong \cup {"no room"}
      /\ m.shk.bill = {} => k.shk.bill = {}
      /\ "no room" \notin k.wrong => "no room" \notin n.wrong
  BY DEF Sheds
<1>3. ASSUME NEW c \in Objects
      PROVE  \/ k.obj[c] = m.obj[c]
             \/ c \in S \cup T /\ k.obj[c] = [m.obj[c] EXCEPT !.unpaid = FALSE]
             \/ /\ c # Bag /\ m.obj[c].where = "none" /\ k.obj[c].where = "bill"
                /\ ~k.obj[c].unpaid /\ ~k.obj[c].no_charge
  <2>1. m.obj[c] \in Obj /\ n.obj[c] \in Obj /\ k.obj[c] \in Obj
    BY DEF Rec
  <2>2. CASE n.obj[c] = m.obj[c]
    BY <2>2 DEF Sheds
  <2>3. CASE c \in S /\ n.obj[c] = [m.obj[c] EXCEPT !.unpaid = FALSE]
    <3>1. CASE k.obj[c] = n.obj[c]
      BY <2>3, <3>1
    <3>2. CASE c \in T /\ k.obj[c] = [n.obj[c] EXCEPT !.unpaid = FALSE]
      BY <2>1, <2>3, <3>2 DEF Obj
    <3>3. CASE /\ c # Bag /\ n.obj[c].where = "none" /\ k.obj[c].where = "bill"
               /\ ~k.obj[c].unpaid /\ ~k.obj[c].no_charge
      BY <2>1, <2>3, <3>3 DEF Obj
    <3> QED
      BY <3>1, <3>2, <3>3 DEF Sheds
  <2>4. CASE /\ c # Bag /\ m.obj[c].where = "none" /\ n.obj[c].where = "bill"
             /\ ~n.obj[c].unpaid /\ ~n.obj[c].no_charge
    BY <2>4 DEF Sheds
  <2> QED
    BY <2>2, <2>3, <2>4 DEF Sheds
<1>4. ASSUME "no room" \notin k.wrong, NEW c \in S \cup T PROVE ~k.obj[c].unpaid
  <2>1. CASE c \in T
    BY <1>4, <2>1 DEF Sheds
  <2>2. CASE c \in S
    <3>1. ~n.obj[c].unpaid /\ n.obj[c] \in Obj /\ c \in Objects
      BY <1>2, <1>4, <2>2 DEF Sheds, Rec
    <3> QED
      BY <3>1 DEF Sheds, Obj
  <2> QED
    BY <1>4, <2>1, <2>2
<1>5. "no room" \in k.wrong => "no room" \in m.wrong \/ Unused(k) = {}
  <2>1. ASSUME NEW c \in Ids, k.obj[c].where = "none" PROVE n.obj[c].where = "none"
    <3>1. c \in Objects /\ n.obj[c] \in Obj
      BY ShopAssumption DEF Rec, Ids, Objects
    <3> QED
      BY <2>1, <3>1 DEF Sheds, Obj
  <2>2. Unused(n) = {} => Unused(k) = {}
    BY <2>1 DEF Unused
  <2> QED
    BY <2>2 DEF Sheds
<1> QED
  BY <1>1, <1>2, <1>3, <1>4, <1>5 DEF Sheds

LEMMA SubFromBillSheds ==
  ASSUME NEW m, Sound(m), NEW o \in Objects, m.obj[o].where \notin {"none", "bill"}
  PROVE  /\ Sound(SubFromBill(m, o))
         /\ Sheds(m, SubFromBill(m, o), {o} \cup Within(m, o))
<1>1. PICK f : /\ f[0] = SubOne(m, o)
               /\ \A n \in 0 .. MaxId - 1 :
                    f[n + 1] = IF n + 1 \in Within(m, o) THEN SubOne(f[n], n + 1) ELSE f[n]
               /\ SubFromBill(m, o) = f[MaxId]
  BY SubFromBillUnfolds
<1> DEFINE W(n) == {o} \cup {c \in Within(m, o) : c <= n}
           T == {n \in 0 .. MaxId : Sound(f[n]) /\ Sheds(m, f[n], W(n))}
<1>2. /\ MaxId \in Nat /\ Within(m, o) \subseteq 0 .. MaxId /\ 0 \notin Within(m, o)
      /\ \A c \in Within(m, o) : c \in Objects /\ m.obj[c].where = "bag"
      /\ m.obj[Bag].where # "bag"
  BY ShopAssumption DEF Within, Contents, Objects, Sound, BagRight, Bag
<1>3. 0 \in T
  <2>1. W(0) = {o}
    BY <1>2
  <2> HIDE DEF W
  <2>2. Sound(SubOne(m, o)) /\ Sheds(m, SubOne(m, o), {o})
    BY SubOneSheds
  <2>3. Sound(f[0]) /\ Sheds(m, f[0], W(0))
    BY <1>1, <2>1, <2>2
  <2>4. 0 \in 0 .. MaxId
    BY <1>2
  <2> QED
    BY <2>3, <2>4
<1>4. ASSUME NEW n \in 0 .. MaxId - 1, n \in T PROVE n + 1 \in T
  <2>0. n \in 0 .. MaxId /\ n + 1 \in 0 .. MaxId /\ Sound(f[n]) /\ Sheds(m, f[n], W(n))
    BY <1>2, <1>4
  <2>1. CASE n + 1 \in Within(m, o)
    <3> DEFINE k == SubOne(f[n], n + 1)
    <3>1. n + 1 \in Objects /\ m.obj[n + 1].where = "bag"
      BY <1>2, <2>1
    <3>2. f[n].obj[n + 1].where = "bag"
      BY <2>0, <3>1 DEF Sheds, Sound, Rec, Obj
    <3>3. Sound(k) /\ Sheds(f[n], k, {n + 1})
      BY <2>0, <3>1, <3>2, SubOneSheds
    <3>4. f[n + 1] = k
      BY <1>1, <2>1
    <3> HIDE DEF k
    <3>5. W(n + 1) = W(n) \cup {n + 1}
      BY <1>2, <2>0, <2>1
    <3>6. W(n) \subseteq Objects
      BY <1>2
    <3> HIDE DEF W
    <3>7. Sheds(m, k, W(n) \cup {n + 1})
      BY <2>0, <3>1, <3>3, <3>6, ShedsTwice DEF Sound
    <3> QED
      BY <2>0, <3>3, <3>4, <3>5, <3>7
  <2>2. CASE n + 1 \notin Within(m, o)
    <3>1. W(n + 1) = W(n)
      BY <1>2, <2>0, <2>2
    <3> HIDE DEF W
    <3> QED
      BY <1>1, <2>0, <2>2, <3>1
  <2> QED
    BY <2>1, <2>2
<1>5. MaxId \in T
  <2> HIDE DEF T
  <2>1. \A n \in 0 .. MaxId - 1 : n \in T => n + 1 \in T
    BY <1>4
  <2>2. \A n \in 0 .. MaxId : n \in T
    BY <1>2, <1>3, <2>1, CountedTo
  <2> QED
    BY <1>2, <2>2
<1>6. W(MaxId) = {o} \cup Within(m, o)
  BY <1>2
<1> HIDE DEF W
<1> QED
  BY <1>1, <1>5, <1>6

----------------------------------------------------------------------------
(* Putting things on the bill.                                             *)

(* n is m with some of the things of S on the bill.                        *)
Owes(m, n, S) ==
  /\ n.hero = m.hero /\ n.shk = [m.shk EXCEPT !.bill = n.shk.bill, !.bill_p = n.shk.bill_p]
  /\ n.shk.bill_p = m.shk.bill_p \/ (m.shk.bill_p = "null" /\ n.shk.bill_p = "ok")
  /\ m.wrong \subseteq n.wrong /\ n.wrong \subseteq m.wrong \cup Fatal
  /\ \A c \in Objects :
       \/ n.obj[c] = m.obj[c]
       \/ c \in S /\ m.shk.bill_p # "wild" /\ n.obj[c] = [m.obj[c] EXCEPT !.unpaid = TRUE]
  /\ (\A c \in Objects : n.obj[c] = m.obj[c]) => n.shk.bill = m.shk.bill

(* bill_p is set when it was not: where every add_one_tobill() begins.     *)
LEMMA OpenedSound ==
  ASSUME NEW m, Sound(m)
  PROVE  /\ Sound(Opened(m)) /\ Opened(m).obj = m.obj /\ Opened(m).hero = m.hero
         /\ Opened(m).wrong = m.wrong
         /\ Opened(m).shk \in Keeper /\ Opened(m).shk.bill = m.shk.bill
         /\ Opened(m).shk = [m.shk EXCEPT !.bill_p = Opened(m).shk.bill_p]
         /\ GetCost(Opened(m)) = GetCost(m) /\ Opened(m).shk.billsz = m.shk.billsz
         /\ Opened(m).shk.bill_p = IF m.shk.bill_p = "null" THEN "ok" ELSE m.shk.bill_p
<1> DEFINE n == Opened(m)
<1>0. m \in Rec /\ BillRight(m.shk) /\ BagRight(m.obj) /\ m.shk \in Keeper
  BY DEF Sound, Rec
<1>1. /\ n \in Rec /\ n.obj = m.obj /\ n.hero = m.hero /\ n.wrong = m.wrong
      /\ n.shk = [m.shk EXCEPT !.bill_p = n.shk.bill_p]
      /\ n.shk.bill_p = IF m.shk.bill_p = "null" THEN "ok" ELSE m.shk.bill_p
  BY <1>0 DEF Opened, Rec, Keeper
<1> HIDE DEF n
<1>2. /\ n.shk \in Keeper /\ n.shk.bill = m.shk.bill /\ n.shk.billsz = m.shk.billsz
      /\ n.shk.loan = m.shk.loan /\ n.shk.debit = m.shk.debit /\ n.shk.surcharge = m.shk.surcharge
  <2> DEFINE x == n.shk.bill_p
  <2>1. n.shk = [m.shk EXCEPT !.bill_p = x] /\ n.shk \in Keeper
    BY <1>1 DEF Rec
  <2> HIDE DEF x
  <2> QED
    BY <2>1, <1>0 DEF Keeper
<1>3. GetCost(n) = GetCost(m) /\ BillRight(n.shk)
  BY <1>0, <1>2 DEF GetCost, BillRight
<1>4. Sound(n)
  BY <1>0, <1>1, <1>2, <1>3 DEF Sound
<1> QED
  BY <1>1, <1>2, <1>3, <1>4 DEF n

(* add_one_tobill(), case by case.                                         *)
LEMMA AddOneCases ==
  ASSUME NEW m, Sound(m), NEW o \in Objects, m.obj[o].where # "bill"
  PROVE  \/ /\ Billed(m, o) \/ BillFull(m)
            /\ AddOne(m, o, FALSE) = Opened(m)
         \/ /\ ~Billed(m, o) /\ ~BillFull(m) /\ m.shk.bill_p = "wild"
            /\ AddOne(m, o, FALSE) = Complain(m, "bill_p")
         \/ /\ ~Billed(m, o) /\ ~BillFull(m) /\ m.shk.bill_p # "wild"
            /\ AddOne(m, o, FALSE) = Entered(Opened(m), o, FALSE)
<1> DEFINE n == Opened(m)
           p == Billed(n, o)  q == BillFull(n)  r == n.shk.bill_p = "wild"
           s == n.obj[o].where # "loose"
           n1 == Complain(n, "bill_p")
           n2 == Entered(Opened(m), o, FALSE)
           n3 == Complain(n, "add_to_billobjs: obj not free")
           n4 == Put(n2, o, "bill")
           a == AddOne(m, o, FALSE)
<1>0. /\ Sound(n) /\ n.obj = m.obj /\ n.shk.bill = m.shk.bill /\ n.shk.billsz = m.shk.billsz
      /\ n.shk.bill_p = IF m.shk.bill_p = "null" THEN "ok" ELSE m.shk.bill_p
  BY OpenedSound
<1>1. OnBill(n, o) = n
  BY <1>0, OnBillQuiet
<1>2. p => a = OnBill(n, o)
  BY SMT DEF AddOne
<1>3. ~p /\ q => a = n
  BY SMT DEF AddOne
<1>4. ~p /\ ~q /\ r => a = n1
  BY SMT DEF AddOne
<1>5. ~p /\ ~q /\ ~r => a = n2
  BY SMT DEF AddOne
<1>7. (p <=> Billed(m, o)) /\ (q <=> BillFull(m)) /\ (r <=> m.shk.bill_p = "wild")
      /\ (s <=> m.obj[o].where # "loose")
  BY <1>0 DEF Billed, BillFull
<1>8. m.shk.bill_p = "wild" => n1 = Complain(m, "bill_p")
  BY DEF Opened
<1> HIDE DEF p, q, r, s, n1, n2, n4, a
<1>9. n2 = Entered(Opened(m), o, FALSE) /\ a = AddOne(m, o, FALSE) /\ n4 = Put(n2, o, "bill")
  BY DEF a, n2, n4
<1> QED
  BY <1>1, <1>2, <1>3, <1>4, <1>5, <1>7, <1>8, <1>9, Zenon

LEMMA AddDummyCases ==
  ASSUME NEW m, Sound(m), NEW o \in Objects, m.obj[o].where # "bill"
  PROVE  \/ /\ Billed(m, o) \/ BillFull(m)
            /\ AddOne(m, o, TRUE) = Opened(m)
         \/ /\ ~Billed(m, o) /\ ~BillFull(m) /\ m.shk.bill_p = "wild"
            /\ AddOne(m, o, TRUE) = Complain(m, "bill_p")
         \/ /\ ~Billed(m, o) /\ ~BillFull(m) /\ m.shk.bill_p # "wild" /\ m.obj[o].where # "loose"
            /\ AddOne(m, o, TRUE) = Complain(Opened(m), "add_to_billobjs: obj not free")
         \/ /\ ~Billed(m, o) /\ ~BillFull(m) /\ m.shk.bill_p # "wild" /\ m.obj[o].where = "loose"
            /\ AddOne(m, o, TRUE) = Put(Entered(Opened(m), o, TRUE), o, "bill")
<1> DEFINE n == Opened(m)
           p == Billed(n, o)  q == BillFull(n)  r == n.shk.bill_p = "wild"
           s == n.obj[o].where # "loose"
           n1 == Complain(n, "bill_p")
           n2 == Entered(Opened(m), o, TRUE)
           n3 == Complain(n, "add_to_billobjs: obj not free")
           n4 == Put(n2, o, "bill")
           a == AddOne(m, o, TRUE)
<1>0. /\ Sound(n) /\ n.obj = m.obj /\ n.shk.bill = m.shk.bill /\ n.shk.billsz = m.shk.billsz
      /\ n.shk.bill_p = IF m.shk.bill_p = "null" THEN "ok" ELSE m.shk.bill_p
  BY OpenedSound
<1>1. OnBill(n, o) = n
  BY <1>0, OnBillQuiet
<1>2. p => a = OnBill(n, o)
  BY SMT DEF AddOne
<1>3. ~p /\ q => a = n
  BY SMT DEF AddOne
<1>4. ~p /\ ~q /\ r => a = n1
  BY SMT DEF AddOne
<1>5. ~p /\ ~q /\ ~r /\ s => a = n3
  BY SMT DEF AddOne
<1>6. ~p /\ ~q /\ ~r /\ ~s => a = n4
  BY SMT DEF AddOne
<1>7. (p <=> Billed(m, o)) /\ (q <=> BillFull(m)) /\ (r <=> m.shk.bill_p = "wild")
      /\ (s <=> m.obj[o].where # "loose")
  BY <1>0 DEF Billed, BillFull
<1>8. m.shk.bill_p = "wild" => n1 = Complain(m, "bill_p")
  BY DEF Opened
<1> HIDE DEF p, q, r, s, n1, n2, n4, a
<1>9. n2 = Entered(Opened(m), o, TRUE) /\ a = AddOne(m, o, TRUE) /\ n4 = Put(n2, o, "bill")
  BY DEF a, n2, n4
<1> QED
  BY <1>1, <1>2, <1>3, <1>4, <1>5, <1>6, <1>7, <1>8, <1>9, Zenon


LEMMA ComplainSound ==
  ASSUME NEW m, Sound(m), NEW what \in Words
  PROVE  LET n == Complain(m, what) IN
         /\ Sound(n) /\ n.obj = m.obj /\ n.shk = m.shk /\ n.hero = m.hero
         /\ n.wrong = m.wrong \cup {what}
<1> DEFINE n == Complain(m, what)
<1>1. n \in Rec /\ n.obj = m.obj /\ n.shk = m.shk /\ n.hero = m.hero /\ n.wrong = m.wrong \cup {what}
  BY DEF Complain, Sound, Rec
<1> HIDE DEF n
<1>2. Sound(n)
  BY <1>1 DEF Sound, GetCost
<1> QED
  BY <1>1, <1>2 DEF n

(* Where things and lines change together, the rest stays.                 *)
LEMMA SoundLined ==
  ASSUME NEW m, Sound(m), NEW n, n \in Rec, BillRight(n.shk), BagRight(n.obj),
         n.shk.surcharge = m.shk.surcharge,
         \A c \in Objects : \/ n.obj[c] = m.obj[c] /\ Lines(n.shk.bill, c) = Lines(m.shk.bill, c)
                           \/ Fits(n.obj[c], Lines(n.shk.bill, c), GetCost(m))
  PROVE  Sound(n) /\ GetCost(n) = GetCost(m)
<1>1. GetCost(n) = GetCost(m)
  BY DEF GetCost
<1>2. \A c \in Objects : Fits(m.obj[c], Lines(m.shk.bill, c), GetCost(m))
  BY DEF Sound
<1>3. \A c \in Objects : Fits(n.obj[c], Lines(n.shk.bill, c), GetCost(m))
  BY <1>2
<1> QED
  BY <1>1, <1>3 DEF Sound

(* A new entry for o, in the state that has it.                            *)
WithLine(m, o, bp, thing) == [m EXCEPT !.shk.bill = @ \cup {bp}, !.obj[o] = thing]
LEMMA EnteredLine ==
  ASSUME NEW m, Sound(m), NEW o \in Objects, ~Billed(m, o), ~BillFull(m),
         NEW bp \in Bill, bp.bo_id = o, NEW thing \in Obj, Fits(thing, {bp}, GetCost(m)),
         o = Bag => thing.quan <= 1 /\ thing.where \notin {"none", "bag", "bill", "mon"},
         thing.where = "bag" => m.obj[Bag].where # "none"
  PROVE  LET n == WithLine(m, o, bp, thing) IN
         /\ Sound(n) /\ n.hero = m.hero /\ n.wrong = m.wrong
         /\ n.shk = [m.shk EXCEPT !.bill = n.shk.bill]
         /\ n.obj = [m.obj EXCEPT ![o] = thing]
<1> PICK n : n = WithLine(m, o, bp, thing)
  OBVIOUS
<1> DEFINE bill == m.shk.bill \cup {bp}
           k == [m.shk EXCEPT !.bill = bill]
<1>0. /\ m \in Rec /\ BillRight(m.shk) /\ m.shk \in Keeper /\ BagRight(m.obj)
      /\ m.obj \in [Objects -> Obj] /\ Bag \in Objects
      /\ m.shk.bill \in SUBSET Bill /\ IsFiniteSet(m.shk.bill)
  BY ShopAssumption DEF Sound, Rec, Keeper, BillRight, Bag, Objects
<1>3. /\ bill \in SUBSET Bill /\ IsFiniteSet(bill) /\ Cardinality(bill) <= Cardinality(m.shk.bill) + 1
      /\ Cardinality(m.shk.bill) \in Nat /\ Cardinality(bill) \in Nat
      /\ Lines(bill, o) = {bp}
      /\ \A c : c # o => Lines(bill, c) = Lines(m.shk.bill, c)
  <2> HIDE DEF bill
  <2>1. /\ bill \in SUBSET Bill /\ IsFiniteSet(bill) /\ Cardinality(bill) <= Cardinality(m.shk.bill) + 1
        /\ Cardinality(m.shk.bill) \in Nat /\ Cardinality(bill) \in Nat
        /\ Lines(bill, bp.bo_id) = Lines(m.shk.bill, bp.bo_id) \cup {bp}
        /\ \A c : c # bp.bo_id => Lines(bill, c) = Lines(m.shk.bill, c)
    BY <1>0, LineAdded, Zenon DEF bill
  <2>2. Lines(m.shk.bill, o) = {}
    BY NotBilled
  <2> QED
    BY <2>1, <2>2
<1>4. Cardinality(bill) <= m.shk.billsz
  BY <1>0, <1>3 DEF BillFull, Keeper, BillRight
<1> HIDE DEF bill
<1>5. k \in Keeper /\ k.bill = bill /\ BillRight(k) /\ k.surcharge = m.shk.surcharge
  BY <1>0, <1>3, <1>4 DEF Keeper, BillRight
<1>6. /\ n \in Rec /\ n.hero = m.hero /\ n.wrong = m.wrong /\ n.shk = k
      /\ n.obj = [m.obj EXCEPT ![o] = thing]
  <2>1. n = [m EXCEPT !.shk = k, !.obj[o] = thing]
    BY DEF bill, WithLine
  <2> DEFINE things == [m.obj EXCEPT ![o] = thing]
  <2>2. things \in [Objects -> Obj]
    BY <1>0
  <2> HIDE DEF k, things
  <2>3. n = [m EXCEPT !.shk = k, !.obj = things]
    BY <2>1 DEF things
  <2>4. n \in Rec /\ n.hero = m.hero /\ n.wrong = m.wrong /\ n.shk = k /\ n.obj = things
    BY <1>0, <1>5, <2>2, <2>3 DEF Rec
  <2> QED
    BY <2>4 DEF things
<1>7. n.obj[o] = thing /\ \A c \in Objects : c # o => n.obj[c] = m.obj[c]
  BY <1>0, <1>6
<1>8. BagRight(n.obj)
  BY <1>0, <1>7 DEF BagRight
<1>9. Sound(n)
  <2>1. n.shk.bill = bill /\ n.shk.surcharge = m.shk.surcharge /\ BillRight(n.shk)
    BY <1>5, <1>6
  <2>2. \A c \in Objects : \/ n.obj[c] = m.obj[c] /\ Lines(n.shk.bill, c) = Lines(m.shk.bill, c)
                          \/ Fits(n.obj[c], Lines(n.shk.bill, c), GetCost(m))
    BY <1>3, <1>7, <2>1
  <2> QED
    BY <1>6, <1>8, <2>1, <2>2, SoundLined
<1> QED
  BY <1>5, <1>6, <1>9

(* add_one_tobill() of a thing that is billed.                             *)
Add(m, o) == AddOne(m, o, FALSE)
NewLine(m, o) == Entered(Opened(m), o, FALSE)

LEMMA EnteredOwes ==
  ASSUME NEW m, Sound(m), NEW o \in Objects, m.obj[o].where \notin {"none", "bill"}, ~Billed(m, o), ~BillFull(m),
         m.shk.bill_p # "wild", NEW n, n = NewLine(m, o)
  PROVE  Sound(n) /\ Owes(m, n, {o})
<1>a. PICK p : p = Opened(m)
  OBVIOUS
<1>b. PICK bp : bp = [bo_id |-> o, bquan |-> p.obj[o].quan, useup |-> FALSE, price |-> GetCost(p)]
  OBVIOUS
<1>c. PICK thing : thing = [p.obj[o] EXCEPT !.unpaid = TRUE]
  OBVIOUS
<1>0. m \in Rec /\ m.shk \in Keeper /\ m.obj[o] \in Obj /\ m.obj \in [Objects -> Obj] /\ BagRight(m.obj) /\ Bag \in Objects
  BY ShopAssumption DEF Sound, Rec, Bag, Objects
<1>1. /\ Sound(p) /\ p.obj = m.obj /\ p.hero = m.hero /\ p.wrong = m.wrong
      /\ p.shk \in Keeper /\ p.shk.bill = m.shk.bill /\ GetCost(p) = GetCost(m)
      /\ p.shk = [m.shk EXCEPT !.bill_p = p.shk.bill_p] /\ p.shk.billsz = m.shk.billsz
      /\ p.shk.bill_p = IF m.shk.bill_p = "null" THEN "ok" ELSE m.shk.bill_p
  BY <1>a, OpenedSound
<1>2. n = WithLine(p, o, bp, thing)
  <2>1. n = [p EXCEPT !.shk.bill = @ \cup {bp}, !.obj[o].unpaid = TRUE]
    BY <1>a, <1>b DEF Entered, NewLine
  <2>2. [p EXCEPT !.shk.bill = @ \cup {bp}, !.obj[o].unpaid = TRUE] = [p EXCEPT !.shk.bill = @ \cup {bp}, !.obj[o] = thing]
    <3> DEFINE k == [p.shk EXCEPT !.bill = @ \cup {bp}]
    <3> HIDE DEF k
    <3>1. p \in Rec
      BY <1>1 DEF Sound
    <3>2. [p EXCEPT !.shk = k, !.obj[o].unpaid = TRUE] = [p EXCEPT !.shk = k, !.obj[o] = thing]
      BY <1>c, <3>1 DEF Rec
    <3> QED
      BY <3>2 DEF k
  <2> QED
    BY <2>1, <2>2 DEF WithLine
<1>3. thing \in Obj /\ thing.where = m.obj[o].where /\ thing.quan = m.obj[o].quan /\ thing.unpaid
  BY <1>c, <1>0, <1>1 DEF Obj
<1>4. bp \in Bill /\ bp.bo_id = o /\ Fits(thing, {bp}, GetCost(p))
  <2>0. p.obj[o] \in Obj /\ p.obj[o].where \notin {"none", "bill"} /\ p.obj[o].quan \in Nat \ {0} /\ GetCost(p) \in Nat
    BY <1>0, <1>1, CostType DEF Sound, Fits, Obj
  <2>1. bp \in Bill /\ bp.bo_id = o /\ bp.useup = FALSE /\ bp.price = GetCost(p) /\ bp.bquan = p.obj[o].quan
    BY <1>b, <2>0 DEF Bill
  <2>2. /\ bp.useup <=> thing.where = "bill"
        /\ thing.where # "none" /\ bp.bquan >= thing.quan /\ (thing.unpaid \/ bp.useup)
        /\ thing.quan # 0
    BY <1>1, <1>3, <2>0, <2>1
  <2> QED
    BY <1>3, <2>1, <2>2, FitsOne
<1>5. ~Billed(p, o) /\ ~BillFull(p)
  BY <1>1 DEF Billed, BillFull
<1>6. /\ o = Bag => thing.quan <= 1 /\ thing.where \notin {"none", "bag", "bill", "mon"}
      /\ thing.where = "bag" => p.obj[Bag].where # "none"
  BY <1>0, <1>1, <1>3 DEF BagRight
<1>7. /\ Sound(n) /\ n.hero = p.hero /\ n.wrong = p.wrong
      /\ n.shk = [p.shk EXCEPT !.bill = n.shk.bill]
      /\ n.obj = [p.obj EXCEPT ![o] = thing]
  <2>1. Sound(p)
    BY <1>1
  <2> QED
    BY <2>1, <1>2, <1>3, <1>4, <1>5, <1>6, EnteredLine
<1>8. /\ n.shk = [m.shk EXCEPT !.bill = n.shk.bill, !.bill_p = n.shk.bill_p]
      /\ n.shk.bill_p = p.shk.bill_p
  <2> DEFINE x == p.shk.bill_p  b == n.shk.bill  q == p.shk  r == n.shk
  <2>1. q = [m.shk EXCEPT !.bill_p = x] /\ r = [q EXCEPT !.bill = b] /\ q \in Keeper
    BY <1>1, <1>7
  <2> HIDE DEF x, b, q, r
  <2>2. r = [m.shk EXCEPT !.bill = b, !.bill_p = x] /\ r.bill_p = x
    BY <1>0, <2>1 DEF Keeper
  <2> QED
    BY <2>2 DEF x, b, q, r
<1>9. n.obj[o] = thing /\ \A c \in Objects : c # o => n.obj[c] = m.obj[c]
  BY <1>0, <1>1, <1>7
<1>10. ~m.obj[o].unpaid
  BY NotBilled
<1>11. n.shk.bill_p = m.shk.bill_p \/ (m.shk.bill_p = "null" /\ n.shk.bill_p = "ok")
  BY <1>1, <1>8
<1>12. n.obj[o] # m.obj[o] /\ n.obj[o] = [m.obj[o] EXCEPT !.unpaid = TRUE]
  BY <1>c, <1>1, <1>3, <1>9, <1>10
<1>13. Owes(m, n, {o})
  BY <1>1, <1>7, <1>8, <1>9, <1>11, <1>12 DEF Owes
<1> QED
  BY <1>7, <1>13

LEMMA AddOneOwes ==
  ASSUME NEW m, Sound(m), NEW o \in Objects, m.obj[o].where \notin {"none", "bill"}
  PROVE  Sound(Add(m, o)) /\ Owes(m, Add(m, o), {o})
<1>0. m \in Rec /\ m.shk \in Keeper
  BY DEF Sound, Rec
<1>3. Sound(Opened(m)) /\ Owes(m, Opened(m), {o})
  <2> PICK p : p = Opened(m)
    OBVIOUS
  <2>1. /\ Sound(p) /\ p.obj = m.obj /\ p.hero = m.hero /\ p.wrong = m.wrong
        /\ p.shk \in Keeper /\ p.shk.bill = m.shk.bill
        /\ p.shk = [m.shk EXCEPT !.bill_p = p.shk.bill_p]
        /\ p.shk.bill_p = IF m.shk.bill_p = "null" THEN "ok" ELSE m.shk.bill_p
    BY OpenedSound
  <2>2. p.shk = [m.shk EXCEPT !.bill = p.shk.bill, !.bill_p = p.shk.bill_p]
    <3> DEFINE x == p.shk.bill_p  b == p.shk.bill
    <3>1. p.shk = [m.shk EXCEPT !.bill_p = x] /\ b = m.shk.bill
      BY <2>1
    <3> HIDE DEF x, b
    <3>2. p.shk = [m.shk EXCEPT !.bill = b, !.bill_p = x]
      BY <1>0, <3>1 DEF Keeper
    <3> QED
      BY <3>2 DEF x, b
  <2>3. Owes(m, p, {o})
    BY <2>1, <2>2 DEF Owes
  <2> QED
    BY <2>1, <2>3
<1>4. Sound(Complain(m, "bill_p")) /\ Owes(m, Complain(m, "bill_p"), {o})
  <2> PICK n : n = Complain(m, "bill_p")
    OBVIOUS
  <2>1. "bill_p" \in Words
    BY DEF Words
  <2>2. Sound(n) /\ n.obj = m.obj /\ n.shk = m.shk /\ n.hero = m.hero /\ n.wrong = m.wrong \cup {"bill_p"}
    BY <2>1, ComplainSound, Zenon
  <2>3. m.shk = [m.shk EXCEPT !.bill = m.shk.bill, !.bill_p = m.shk.bill_p]
    BY <1>0 DEF Keeper
  <2>4. Owes(m, n, {o})
    BY <2>2, <2>3 DEF Owes, Fatal
  <2> QED
    BY <2>2, <2>4
<1>5. ASSUME ~Billed(m, o), ~BillFull(m), m.shk.bill_p # "wild"
      PROVE  Sound(NewLine(m, o)) /\ Owes(m, NewLine(m, o), {o})
  BY <1>5, EnteredOwes
<1>a. PICK a : a = Add(m, o)
  OBVIOUS
<1>6. \/ a = Opened(m) \/ a = Complain(m, "bill_p")
      \/ ~Billed(m, o) /\ ~BillFull(m) /\ m.shk.bill_p # "wild" /\ a = NewLine(m, o)
  BY <1>a, AddOneCases, Zenon DEF Add, NewLine
<1> QED
  BY <1>3, <1>4, <1>5, <1>6, <1>a, Zenon

----------------------------------------------------------------------------
(* The shopkeeper's books.                                                 *)

(* n is m after some dealing with the shopkeeper: nothing has moved but    *)
(* what is used up, nobody has gone anywhere and no bill was opened.       *)
Calm(m, n) ==
  /\ Sound(n)
  /\ n.hero.at = m.hero.at /\ n.hero.ushops = m.hero.ushops
  /\ n.shk.at = m.shk.at /\ n.shk.bill_p = m.shk.bill_p
  /\ m.wrong \subseteq n.wrong /\ n.wrong \subseteq m.wrong \cup {"no room"}
  /\ m.shk.bill = {} => n.shk.bill = {}
  /\ \A c \in Objects :
       \/ n.obj[c].where = m.obj[c].where /\ n.obj[c].quan = m.obj[c].quan
       \/ m.obj[c].where \in {"none", "bill"} /\ n.obj[c].where \in {"none", "bill"}

LEMMA CalmTrans ==
  ASSUME NEW m, NEW n, NEW k, Calm(m, n), Calm(n, k)
  PROVE  Calm(m, k)
BY DEF Calm

LEMMA CalmSelf ==
  ASSUME NEW m, Sound(m)
  PROVE  Calm(m, m)
BY DEF Calm

(* Things move and change their marks; the bill stays.                     *)
LEMMA SoundSame ==
  ASSUME NEW m, Sound(m), NEW n, n \in Rec, n.shk.bill = m.shk.bill, n.shk.billsz = m.shk.billsz,
         n.shk.surcharge = m.shk.surcharge, n.shk.loan <= n.shk.debit, BagRight(n.obj),
         \A c \in Objects : /\ n.obj[c].quan = m.obj[c].quan /\ n.obj[c].unpaid = m.obj[c].unpaid
                            /\ \/ n.obj[c].where = m.obj[c].where
                               \/ {n.obj[c].where, m.obj[c].where} \cap {"none", "bill"} = {}
  PROVE  Sound(n)
<1>1. GetCost(n) = GetCost(m)
  BY DEF GetCost
<1>2. \A c \in Objects : Fits(m.obj[c], Lines(m.shk.bill, c), GetCost(m))
  BY DEF Sound
<1>3. ASSUME NEW c \in Objects PROVE Fits(n.obj[c], Lines(n.shk.bill, c), GetCost(n))
  <2>1. Fits(m.obj[c], Lines(n.shk.bill, c), GetCost(n))
    BY <1>1, <1>2
  <2>2. /\ n.obj[c].quan = m.obj[c].quan /\ n.obj[c].unpaid = m.obj[c].unpaid
        /\ n.obj[c].where = "bill" <=> m.obj[c].where = "bill"
        /\ n.obj[c].where = "none" <=> m.obj[c].where = "none"
    OBVIOUS
  <2> QED
    BY <2>1, <2>2 DEF Fits
<1>4. BillRight(n.shk)
  BY DEF Sound, BillRight
<1> QED
  BY <1>3, <1>4 DEF Sound

LEMMA BagSame ==
  ASSUME NEW m, Sound(m), NEW n,
         \A c \in Objects : n.obj[c].where = m.obj[c].where /\ n.obj[c].quan = m.obj[c].quan
  PROVE  BagRight(n.obj)
<1>1. BagRight(m.obj) /\ Bag \in Objects
  BY ShopAssumption DEF Sound, Bag, Objects
<1> QED
  BY <1>1 DEF BagRight

(* Only what the keeper and the hero have changes.                         *)
LEMMA Booked ==
  ASSUME NEW m, Sound(m), NEW n, n \in Rec, n.obj = m.obj, n.wrong = m.wrong,
         n.hero.at = m.hero.at, n.hero.ushops = m.hero.ushops, n.shk.at = m.shk.at,
         n.shk.bill_p = m.shk.bill_p, n.shk.bill = m.shk.bill, n.shk.billsz = m.shk.billsz,
         n.shk.surcharge = m.shk.surcharge, n.shk.loan <= n.shk.debit
  PROVE  Calm(m, n)
<1>1. BagRight(n.obj)
  BY BagSame
<1>2. Sound(n)
  BY <1>1, SoundSame
<1> QED
  BY <1>2 DEF Calm

(* Only what is no charge changes.                                         *)
LEMMA Marked ==
  ASSUME NEW m, Sound(m), NEW n, n \in Rec, n.shk = m.shk, n.hero = m.hero, n.wrong = m.wrong,
         \A c \in Objects : /\ n.obj[c].where = m.obj[c].where /\ n.obj[c].quan = m.obj[c].quan
                            /\ n.obj[c].unpaid = m.obj[c].unpaid
  PROVE  Calm(m, n)
<1>1. BagRight(n.obj)
  BY BagSame
<1>2. n.shk.loan <= n.shk.debit
  BY DEF Sound, BillRight
<1>3. Sound(n)
  BY <1>1, <1>2, SoundSame
<1> QED
  BY <1>3 DEF Calm

LEMMA ChargedCalm ==
  ASSUME NEW m, Sound(m), NEW S
  PROVE  /\ Calm(m, Charged(m, S)) /\ Charged(m, S).shk = m.shk /\ Charged(m, S).wrong = m.wrong
         /\ \A c \in Objects : Charged(m, S).obj[c].unpaid = m.obj[c].unpaid
<1>a. PICK n : n = Charged(m, S)
  OBVIOUS
<1>1. m \in Rec
  BY DEF Sound
<1>2. /\ n \in Rec /\ n.shk = m.shk /\ n.hero = m.hero /\ n.wrong = m.wrong
      /\ \A c \in Objects : n.obj[c] = IF c \in S THEN [m.obj[c] EXCEPT !.no_charge = FALSE] ELSE m.obj[c]
  BY <1>a, <1>1 DEF Charged, Rec, Obj
<1>3. \A c \in Objects : /\ n.obj[c].where = m.obj[c].where /\ n.obj[c].quan = m.obj[c].quan
                         /\ n.obj[c].unpaid = m.obj[c].unpaid
  <2> TAKE c \in Objects
  <2>1. m.obj[c] \in Obj /\ n.obj[c] \in {m.obj[c], [m.obj[c] EXCEPT !.no_charge = FALSE]}
    BY <1>1, <1>2 DEF Rec
  <2> QED
    BY <2>1 DEF Obj
<1>4. Calm(m, n)
  BY <1>2, <1>3, Marked
<1> QED
  BY <1>a, <1>2, <1>3, <1>4

LEMMA KeepsCalm ==
  ASSUME NEW m, Sound(m), NEW S
  PROVE  /\ Calm(m, Keeps(m, S)) /\ Keeps(m, S).shk = m.shk /\ Keeps(m, S).wrong = m.wrong
         /\ \A c \in Objects : Keeps(m, S).obj[c].unpaid = m.obj[c].unpaid
<1>a. PICK n : n = Keeps(m, S)
  OBVIOUS
<1>1. m \in Rec
  BY DEF Sound
<1>2. /\ n \in Rec /\ n.shk = m.shk /\ n.hero = m.hero /\ n.wrong = m.wrong
      /\ \A c \in Objects : n.obj[c] = IF c \in S /\ ~m.obj[c].unpaid THEN [m.obj[c] EXCEPT !.no_charge = TRUE]
                                       ELSE m.obj[c]
  BY <1>a, <1>1 DEF Keeps, Rec, Obj
<1>3. \A c \in Objects : /\ n.obj[c].where = m.obj[c].where /\ n.obj[c].quan = m.obj[c].quan
                         /\ n.obj[c].unpaid = m.obj[c].unpaid
  <2> TAKE c \in Objects
  <2>1. m.obj[c] \in Obj /\ n.obj[c] \in {m.obj[c], [m.obj[c] EXCEPT !.no_charge = TRUE]}
    BY <1>1, <1>2 DEF Rec
  <2> QED
    BY <2>1 DEF Obj
<1>4. Calm(m, n)
  BY <1>2, <1>3, Marked
<1> QED
  BY <1>a, <1>2, <1>3, <1>4

LEMMA ShedsCalm ==
  ASSUME NEW m, Sound(m), NEW n, Sound(n), NEW S, Sheds(m, n, S)
  PROVE  Calm(m, n)
<1>1. m \in Rec /\ n \in Rec /\ m.shk \in Keeper
  BY DEF Sound, Rec
<1>2. n.shk.at = m.shk.at /\ n.shk.bill_p = m.shk.bill_p
  <2>a. PICK x : x = n.shk.bill
    OBVIOUS
  <2>1. n.shk = [m.shk EXCEPT !.bill = x]
    BY <2>a DEF Sheds
  <2> QED
    BY <1>1, <2>1 DEF Keeper
<1>3. ASSUME NEW c \in Objects
      PROVE  \/ n.obj[c].where = m.obj[c].where /\ n.obj[c].quan = m.obj[c].quan
             \/ m.obj[c].where \in {"none", "bill"} /\ n.obj[c].where \in {"none", "bill"}
  <2>1. m.obj[c] \in Obj
    BY <1>1 DEF Rec
  <2>2. \/ n.obj[c] = m.obj[c]
        \/ n.obj[c] = [m.obj[c] EXCEPT !.unpaid = FALSE]
        \/ m.obj[c].where = "none" /\ n.obj[c].where = "bill"
    BY DEF Sheds
  <2> QED
    BY <2>1, <2>2 DEF Obj
<1> QED
  BY <1>2, <1>3 DEF Sheds, Calm

LEMMA SubFromBillCalm ==
  ASSUME NEW m, Sound(m), NEW o \in Objects, m.obj[o].where \notin {"none", "bill"}
  PROVE  Calm(m, SubFromBill(m, o)) /\ Sheds(m, SubFromBill(m, o), {o} \cup Within(m, o))
<1>a. PICK n : n = SubFromBill(m, o)
  OBVIOUS
<1>1. Sound(n) /\ Sheds(m, n, {o} \cup Within(m, o))
  BY <1>a, SubFromBillSheds
<1> QED
  BY <1>a, <1>1, ShedsCalm

LEMMA SubOneCalm ==
  ASSUME NEW m, Sound(m), NEW o \in Objects, m.obj[o].where \notin {"none", "bill"}
  PROVE  Calm(m, SubOne(m, o)) /\ Sheds(m, SubOne(m, o), {o})
<1>a. PICK n : n = SubOne(m, o)
  OBVIOUS
<1>1. Sound(n) /\ Sheds(m, n, {o})
  BY <1>a, SubOneSheds
<1> QED
  BY <1>a, <1>1, ShedsCalm

(* rile_shk() raises every price on the bill.                              *)
LEMMA RileCalm ==
  ASSUME NEW m, Sound(m)
  PROVE  /\ Calm(m, Rile(m)) /\ Rile(m).obj = m.obj /\ Rile(m).hero = m.hero /\ Rile(m).wrong = m.wrong
         /\ Rile(m).shk.angry /\ (Rile(m).shk.bill = {} => m.shk.bill = {})
         /\ Rile(m).shk.debit = m.shk.debit /\ Rile(m).shk.billsz = m.shk.billsz
<1>a. PICK n : n = Rile(m)
  OBVIOUS
<1>0. m \in Rec /\ m.shk \in Keeper /\ BillRight(m.shk) /\ Price \in Nat
  BY ShopAssumption DEF Sound, Rec
<1>1. CASE m.shk.surcharge
  <2>1. n = [m EXCEPT !.shk.angry = TRUE]
    BY <1>a, <1>1 DEF Rile
  <2>2. /\ n \in Rec /\ n.obj = m.obj /\ n.hero = m.hero /\ n.wrong = m.wrong /\ n.shk.angry
        /\ n.shk.at = m.shk.at /\ n.shk.bill_p = m.shk.bill_p /\ n.shk.bill = m.shk.bill
        /\ n.shk.billsz = m.shk.billsz /\ n.shk.surcharge = m.shk.surcharge
        /\ n.shk.loan = m.shk.loan /\ n.shk.debit = m.shk.debit
    BY <1>0, <2>1 DEF Rec, Keeper
  <2>3. n.shk.loan <= n.shk.debit
    BY <1>0, <2>2 DEF BillRight
  <2>4. Calm(m, n)
    BY <2>2, <2>3, Booked
  <2> QED
    BY <1>a, <2>2, <2>4
<1>2. CASE ~m.shk.surcharge
  <2> DEFINE up(bp) == [bp EXCEPT !.price = @ + (@ + 2) \div 3]
             bill == {up(bp) : bp \in m.shk.bill}
             k == [m.shk EXCEPT !.angry = TRUE, !.surcharge = TRUE, !.bill = bill]
  <2>1. n = [m EXCEPT !.shk = k]
    BY <1>a, <1>2 DEF Rile
  <2>2. \A bp \in Bill : /\ up(bp) \in Bill /\ up(bp).bo_id = bp.bo_id /\ up(bp).bquan = bp.bquan
                         /\ up(bp).useup = bp.useup /\ up(bp).price = bp.price + (bp.price + 2) \div 3
    BY DEF Bill
  <2>3. m.shk.bill \in SUBSET Bill /\ IsFiniteSet(m.shk.bill)
    BY <1>0 DEF Keeper, BillRight
  <2> HIDE DEF up
  <2>4. bill \in SUBSET Bill /\ (bill = {} <=> m.shk.bill = {})
    BY <2>2, <2>3
  <2>5. IsFiniteSet(bill) /\ Cardinality(bill) <= Cardinality(m.shk.bill)
    <3> DEFINE f == [bp \in m.shk.bill |-> up(bp)]
    <3>1. f \in Surjection(m.shk.bill, bill)
      BY DEF Surjection
    <3> QED
      BY <2>3, <3>1, FS_Surjection
  <2>6. Cardinality(m.shk.bill) \in Nat /\ Cardinality(bill) \in Nat /\ m.shk.billsz \in Nat
    BY <1>0, <2>3, <2>5, FS_CardinalityType DEF Keeper
  <2>7. \A c \in Objects : Lines(bill, c) = {up(b) : b \in Lines(m.shk.bill, c)}
    BY <2>2, <2>3 DEF Lines
  <2> HIDE DEF bill
  <2>8. /\ k \in Keeper /\ k.bill = bill /\ k.angry /\ k.surcharge /\ k.at = m.shk.at
        /\ k.bill_p = m.shk.bill_p /\ k.billsz = m.shk.billsz /\ k.loan = m.shk.loan /\ k.debit = m.shk.debit
    BY <1>0, <2>4 DEF Keeper
  <2> HIDE DEF k
  <2>9. n \in Rec /\ n.obj = m.obj /\ n.hero = m.hero /\ n.wrong = m.wrong /\ n.shk = k
    BY <1>0, <2>1, <2>8 DEF Rec
  <2>10. BillRight(n.shk)
    BY <1>0, <2>5, <2>6, <2>8, <2>9 DEF BillRight
  <2>11. GetCost(m) = Price /\ GetCost(n) = Price + (Price + 2) \div 3
    BY <1>2, <2>8, <2>9 DEF GetCost
  <2>12. ASSUME NEW c \in Objects PROVE Fits(n.obj[c], Lines(n.shk.bill, c), GetCost(n))
    <3>1. Fits(m.obj[c], Lines(m.shk.bill, c), Price)
      BY <2>11 DEF Sound
    <3>2. Lines(m.shk.bill, c) \subseteq Bill
      BY <2>3 DEF Lines
    <3>3. Fits(m.obj[c], {up(b) : b \in Lines(m.shk.bill, c)}, Price + (Price + 2) \div 3)
      <4>a. PICK L : L = Lines(m.shk.bill, c)
        OBVIOUS
      <4>b. PICK U : U = {up(b) : b \in L}
        OBVIOUS
      <4>1. \A b \in L : b \in Bill
        BY <4>a, <3>2
      <4>2. Fits(m.obj[c], L, Price)
        BY <4>a, <3>1
      <4>3. \A b, d \in U : b = d
        BY <4>b, <4>2 DEF Fits
      <4>4. \A b \in U : /\ b.useup <=> m.obj[c].where = "bill"
                         /\ m.obj[c].where # "none" /\ b.bquan >= m.obj[c].quan
                         /\ m.obj[c].unpaid \/ b.useup
                         /\ b.price = Price + (Price + 2) \div 3
        BY <4>b, <4>1, <4>2, <2>2 DEF Fits
      <4>5. L # {} => U # {}
        BY <4>b
      <4> QED
        BY <4>a, <4>b, <4>2, <4>3, <4>4, <4>5 DEF Fits
    <3> QED
      BY <2>7, <2>8, <2>9, <2>11, <3>3
  <2>13. BagRight(n.obj)
    BY <2>9 DEF Sound
  <2>14. Sound(n)
    BY <2>9, <2>10, <2>12, <2>13 DEF Sound
  <2>15. Calm(m, n)
    BY <2>4, <2>8, <2>9, <2>14 DEF Calm
  <2> QED
    BY <1>a, <2>4, <2>8, <2>9, <2>15
<1> QED
  BY <1>1, <1>2

LEMMA ShopKeeperCalm ==
  ASSUME NEW m, Sound(m)
  PROVE  /\ Calm(m, ShopKeeper(m)) /\ ShopKeeper(m).obj = m.obj /\ ShopKeeper(m).hero = m.hero
         /\ ShopKeeper(m).wrong = m.wrong
         /\ ShopKeeper(m).shk.bill = {} => m.shk.bill = {}
         /\ ShopKeeper(m).shk.debit = m.shk.debit /\ ShopKeeper(m).shk.billsz = m.shk.billsz
<1>a. PICK n : n = ShopKeeper(m)
  OBVIOUS
<1>1. n = m \/ n = Rile(m)
  BY <1>a DEF ShopKeeper
<1>2. CASE n = m
  BY <1>a, <1>2, CalmSelf
<1>3. CASE n = Rile(m)
  BY <1>a, <1>3, RileCalm
<1> QED
  BY <1>1, <1>2, <1>3

(* setpaid() empties the bill.                                             *)
LEMMA SetPaidCalm ==
  ASSUME NEW m, Sound(m)
  PROVE  Calm(m, SetPaid(m)) /\ SetPaid(m).shk.bill = {}
<1>a. PICK n : n = SetPaid(m)
  OBVIOUS
<1> DEFINE things == [o \in Objects |-> IF m.obj[o].where = "bill" THEN NoObj ELSE Settled(m, o)]
           k == [m.shk EXCEPT !.bill = {}, !.credit = 0, !.debit = 0, !.loan = 0]
<1>0. m \in Rec /\ m.shk \in Keeper /\ BagRight(m.obj) /\ m.obj \in [Objects -> Obj] /\ Bag \in Objects
  BY ShopAssumption DEF Sound, Rec, Bag, Objects
<1>1. n = [m EXCEPT !.shk = k, !.obj = things]
  BY <1>a DEF SetPaid
<1>2. ASSUME NEW c \in Objects
      PROVE  /\ things[c] \in Obj /\ ~things[c].unpaid /\ things[c].where # "bill"
             /\ things[c].where = "none" <=> things[c].quan = 0
             /\ \/ things[c].where = m.obj[c].where /\ things[c].quan = m.obj[c].quan
                \/ m.obj[c].where = "bill" /\ things[c].where = "none"
  <2>1. CASE m.obj[c].where = "bill"
    BY <2>1 DEF NoObj, Obj
  <2>2. CASE m.obj[c].where # "bill"
    <3>1. m.obj[c].unpaid => Billed(m, c)
      BY NotBilled
    <3>2. things[c] = Settled(m, c) /\ m.obj[c] \in Obj
      BY <1>0, <2>2
    <3>3. /\ things[c] \in Obj /\ ~things[c].unpaid /\ things[c].where = m.obj[c].where
          /\ things[c].quan = m.obj[c].quan
      BY <3>1, <3>2 DEF Settled, Obj
    <3>4. m.obj[c].where = "none" <=> m.obj[c].quan = 0
      BY DEF Sound, Fits
    <3> QED
      BY <2>2, <3>3, <3>4
  <2> QED
    BY <2>1, <2>2
<1>3. things \in [Objects -> Obj]
  BY <1>2
<1> HIDE DEF things
<1>4. /\ k \in Keeper /\ k.bill = {} /\ k.at = m.shk.at /\ k.bill_p = m.shk.bill_p
      /\ k.loan = 0 /\ k.debit = 0 /\ k.billsz \in Nat
  BY <1>0 DEF Keeper
<1> HIDE DEF k
<1>5. n \in Rec /\ n.obj = things /\ n.shk = k /\ n.hero = m.hero /\ n.wrong = m.wrong
  BY <1>0, <1>1, <1>3, <1>4 DEF Rec
<1>6. BillRight(n.shk)
  BY <1>4, <1>5, FS_EmptySet DEF BillRight
<1>7. BagRight(n.obj)
  BY <1>0, <1>2, <1>5 DEF BagRight
<1>8. ASSUME NEW c \in Objects PROVE Fits(n.obj[c], Lines(n.shk.bill, c), GetCost(n))
  <2>1. Lines(n.shk.bill, c) = {}
    BY <1>4, <1>5 DEF Lines
  <2> QED
    BY <1>2, <1>5, <2>1, FitsNone
<1>9. Sound(n)
  BY <1>5, <1>6, <1>7, <1>8 DEF Sound
<1>10. Calm(m, n)
  BY <1>2, <1>4, <1>5, <1>9 DEF Calm
<1> QED
  BY <1>a, <1>4, <1>5, <1>10

LEMMA BillWorth ==
  ASSUME NEW m, Sound(m)
  PROVE  AddUpBill(m) \in Nat
<1> DEFINE f == [bp \in m.shk.bill |-> bp.price * bp.bquan]
<1>1. m.shk.bill \in SUBSET Bill /\ IsFiniteSet(m.shk.bill)
  BY DEF Sound, Rec, Keeper, BillRight
<1>2. \A bp \in Bill : bp.price * bp.bquan \in Nat
  BY DEF Bill
<1>3. f \in [m.shk.bill -> Nat]
  BY <1>1, <1>2
<1> HIDE DEF f
<1>4. SumFunction(f) \in Nat
  BY <1>1, <1>3, SumNat
<1> QED
  BY <1>4 DEF f, AddUpBill

LEMMA HotPursuitCalm ==
  ASSUME NEW m, Sound(m)
  PROVE  Calm(m, HotPursuit(m)) /\ HotPursuit(m).shk.angry
<1>a. PICK n : n = HotPursuit(m)
  OBVIOUS
<1>b. PICK r : r = Rile(m)
  OBVIOUS
<1>c. PICK f : f = [r EXCEPT !.shk.following = TRUE]
  OBVIOUS
<1>1. n = Charged(f, {o \in Objects : OnFloor(m, o)})
  BY <1>a, <1>b, <1>c DEF HotPursuit
<1>2. Calm(m, r) /\ r.shk.angry
  BY <1>b, RileCalm
<1>3. r \in Rec /\ Sound(r) /\ r.shk.loan <= r.shk.debit /\ r.shk \in Keeper
  BY <1>2 DEF Calm, Sound, Rec, BillRight
<1>4. /\ f \in Rec /\ f.obj = r.obj /\ f.hero = r.hero /\ f.wrong = r.wrong /\ f.shk.angry
      /\ f.shk.at = r.shk.at /\ f.shk.bill_p = r.shk.bill_p /\ f.shk.bill = r.shk.bill
      /\ f.shk.billsz = r.shk.billsz /\ f.shk.surcharge = r.shk.surcharge
      /\ f.shk.loan = r.shk.loan /\ f.shk.debit = r.shk.debit
  BY <1>c, <1>2, <1>3 DEF Rec, Keeper
<1>5. Calm(r, f)
  BY <1>3, <1>4, Booked
<1>6. Sound(f)
  BY <1>5 DEF Calm
<1>7. Calm(f, n) /\ n.shk = f.shk
  BY <1>1, <1>6, ChargedCalm
<1>8. Calm(m, n)
  BY <1>2, <1>5, <1>7, CalmTrans
<1> QED
  BY <1>a, <1>4, <1>7, <1>8

LEMMA RobShopCalm ==
  ASSUME NEW m, Sound(m)
  PROVE  Calm(m, RobShop(m)) /\ RobShop(m).shk.bill = {}
<1>a. PICK n : n = RobShop(m)
  OBVIOUS
<1>b. PICK s : s = SetPaid(m)
  OBVIOUS
<1>c. PICK stolen : stolen = Max({0, AddUpBill(m) + m.shk.debit - m.shk.credit})
  OBVIOUS
<1>d. PICK paid : paid = Robbed(s, stolen)
  OBVIOUS
<1>0. m \in Rec /\ m.shk \in Keeper
  BY DEF Sound, Rec
<1>1. stolen \in Nat
  <2>1. AddUpBill(m) + m.shk.debit - m.shk.credit \in Int
    BY <1>0, BillWorth DEF Keeper
  <2> QED
    BY <1>c, <2>1, MaxZero
<1>2. (stolen = 0 => n = s) /\ (stolen # 0 => n = HotPursuit(paid))
  <2>1. stolen = 0 => n = SetPaid(m)
    BY <1>a, <1>c DEF RobShop
  <2>2. stolen # 0 => n = HotPursuit(Robbed(SetPaid(m), stolen))
    BY <1>a, <1>c DEF RobShop
  <2> QED
    BY <1>b, <1>d, <2>1, <2>2
<1>3. Calm(m, s) /\ s.shk.bill = {}
  BY <1>b, SetPaidCalm
<1>4. s \in Rec /\ Sound(s) /\ s.shk.loan <= s.shk.debit /\ s.shk \in Keeper
  BY <1>3 DEF Calm, Sound, Rec, BillRight
<1>5. /\ paid \in Rec /\ paid.obj = s.obj /\ paid.hero = s.hero /\ paid.wrong = s.wrong
      /\ paid.shk.at = s.shk.at /\ paid.shk.bill_p = s.shk.bill_p /\ paid.shk.bill = s.shk.bill
      /\ paid.shk.billsz = s.shk.billsz /\ paid.shk.surcharge = s.shk.surcharge
      /\ paid.shk.loan = s.shk.loan /\ paid.shk.debit = s.shk.debit
  BY <1>d, <1>1, <1>4 DEF Rec, Keeper, Robbed
<1>6. Calm(s, paid)
  BY <1>4, <1>5, Booked
<1>7. Calm(m, paid) /\ Sound(paid) /\ paid.shk.bill = {}
  BY <1>3, <1>5, <1>6, CalmTrans DEF Calm
<1>8. Calm(paid, HotPursuit(paid))
  BY <1>7, HotPursuitCalm
<1>9. Calm(m, HotPursuit(paid)) /\ HotPursuit(paid).shk.bill = {}
  BY <1>7, <1>8, CalmTrans DEF Calm
<1> QED
  BY <1>a, <1>2, <1>3, <1>9

(* Who has left owes a shopkeeper who is there nothing that is on a bill.  *)
LEMMA LeftShopCalm ==
  ASSUME NEW m, Sound(m)
  PROVE  Calm(m, LeftShop(m)) /\ (Tended(m) => LeftShop(m).shk.bill = {})
<1>a. PICK n : n = LeftShop(m)
  OBVIOUS
<1>b. PICK k : k = ShopKeeper(m)
  OBVIOUS
<1>1. n = IF Tended(k) /\ Owing(k) THEN RobShop(k) ELSE k
  BY <1>a, <1>b DEF LeftShop
<1>2. Calm(m, k)
  BY <1>b, ShopKeeperCalm
<1>3. Sound(k) /\ (Tended(k) <=> Tended(m))
  BY <1>2 DEF Calm, Tended
<1>4. CASE Tended(k) /\ Owing(k)
  <2>1. Calm(k, n) /\ n.shk.bill = {}
    BY <1>1, <1>3, <1>4, RobShopCalm
  <2>2. Calm(m, n)
    BY <1>2, <2>1, CalmTrans
  <2> QED
    BY <1>a, <2>1, <2>2
<1>5. CASE ~(Tended(k) /\ Owing(k))
  <2>1. n = k /\ (Tended(m) => n.shk.bill = {})
    BY <1>1, <1>3, <1>5 DEF Owing
  <2> QED
    BY <1>a, <1>2, <2>1
<1> QED
  BY <1>4, <1>5

(* Credit and gold.                                                        *)
LEMMA CreditUsed ==
  ASSUME NEW m, Sound(m), NEW n \in Nat
  PROVE  /\ AfterCredit(m, n) = IF n > m.shk.credit THEN n - m.shk.credit ELSE 0
         /\ AfterCredit(m, n) \in Nat
<1>1. n - m.shk.credit \in Int /\ m.shk.credit \in Nat
  BY DEF Sound, Rec, Keeper
<1> QED
  BY <1>1, MaxZero DEF AfterCredit

LEMMA CheckCreditCalm ==
  ASSUME NEW m, Sound(m), NEW n \in Nat
  PROVE  /\ Calm(m, CheckCredit(m, n))
         /\ CheckCredit(m, n) = [m EXCEPT !.shk.credit = CheckCredit(m, n).shk.credit]
         /\ CheckCredit(m, n).shk = [m.shk EXCEPT !.credit = CheckCredit(m, n).shk.credit]
         /\ CheckCredit(m, n).obj = m.obj /\ CheckCredit(m, n).hero = m.hero
<1>a. PICK k : k = CheckCredit(m, n)
  OBVIOUS
<1>b. PICK c : c = Max({0, m.shk.credit - n})
  OBVIOUS
<1>0. m \in Rec /\ m.shk \in Keeper /\ m.shk.loan <= m.shk.debit
  BY DEF Sound, Rec, BillRight
<1>1. c \in Nat
  <2>1. m.shk.credit - n \in Int
    BY <1>0 DEF Keeper
  <2> QED
    BY <1>b, <2>1, MaxZero
<1>2. k = [m EXCEPT !.shk.credit = c]
  BY <1>a, <1>b DEF CheckCredit
<1>3. /\ k \in Rec /\ k.obj = m.obj /\ k.hero = m.hero /\ k.wrong = m.wrong /\ k.shk.credit = c
      /\ k.shk = [m.shk EXCEPT !.credit = c]
      /\ k.shk.at = m.shk.at /\ k.shk.bill_p = m.shk.bill_p /\ k.shk.bill = m.shk.bill
      /\ k.shk.billsz = m.shk.billsz /\ k.shk.surcharge = m.shk.surcharge
      /\ k.shk.loan = m.shk.loan /\ k.shk.debit = m.shk.debit
  BY <1>0, <1>1, <1>2 DEF Rec, Keeper
<1>4. Calm(m, k)
  BY <1>0, <1>3, Booked
<1> QED
  BY <1>a, <1>2, <1>3, <1>4

(* check_credit() and the rest in gold, what becomes of the debts being    *)
(* left open: dopay(), pay() and pay_for_damage().                         *)
Paid(m, n, debit, loan, robbed) ==
  LET gold == AfterCredit(m, n)
  IN [CheckCredit(m, n) EXCEPT !.hero.gold = @ - gold, !.shk.cash = @ + gold,
        !.shk.debit = debit, !.shk.loan = loan, !.shk.robbed = robbed]
LEMMA PaidCalm ==
  ASSUME NEW m, Sound(m), NEW n \in Nat, n <= Funds(m), NEW debit \in Nat, NEW loan \in Nat, loan <= debit,
         NEW robbed \in Nat, NEW r, r = Paid(m, n, debit, loan, robbed)
  PROVE  /\ Calm(m, r) /\ r.obj = m.obj /\ r.shk.bill = m.shk.bill
         /\ r.shk.debit = debit
<1>a. PICK c : c = CheckCredit(m, n)
  OBVIOUS
<1>b. PICK gold : gold = AfterCredit(m, n)
  OBVIOUS
<1>1. r = [c EXCEPT !.hero.gold = @ - gold, !.shk.cash = @ + gold,
             !.shk.debit = debit, !.shk.loan = loan, !.shk.robbed = robbed]
  BY <1>a, <1>b DEF Paid
<1>2. Calm(m, c) /\ c.obj = m.obj /\ c.hero = m.hero /\ c.shk.bill = m.shk.bill
  <2>1. /\ Calm(m, c) /\ c.shk = [m.shk EXCEPT !.credit = c.shk.credit]
        /\ c.obj = m.obj /\ c.hero = m.hero
    BY <1>a, CheckCreditCalm
  <2>2. m.shk \in Keeper
    BY DEF Sound, Rec
  <2>a. PICK x : x = c.shk.credit
    OBVIOUS
  <2>3. c.shk = [m.shk EXCEPT !.credit = x]
    BY <2>1, <2>a
  <2>4. c.shk.bill = m.shk.bill
    BY <2>2, <2>3 DEF Keeper
  <2> QED
    BY <2>1, <2>4
<1>3. c \in Rec /\ Sound(c) /\ c.shk \in Keeper /\ c.hero \in Hero
  BY <1>2 DEF Calm, Sound, Rec
<1>4. gold \in Nat /\ gold <= c.hero.gold
  <2>1. gold = IF n > m.shk.credit THEN n - m.shk.credit ELSE 0
    BY <1>b, CreditUsed
  <2>2. m.shk.credit \in Nat /\ m.hero.gold \in Nat
    BY DEF Sound, Rec, Keeper, Hero
  <2> QED
    BY <1>2, <2>1, <2>2 DEF Funds
<1>5. /\ r \in Rec /\ r.obj = c.obj /\ r.wrong = c.wrong
      /\ r.hero.at = c.hero.at /\ r.hero.ushops = c.hero.ushops
      /\ r.shk.at = c.shk.at /\ r.shk.bill_p = c.shk.bill_p /\ r.shk.bill = c.shk.bill
      /\ r.shk.billsz = c.shk.billsz /\ r.shk.surcharge = c.shk.surcharge
      /\ r.shk.loan = loan /\ r.shk.debit = debit
  <2> DEFINE h == [c.hero EXCEPT !.gold = @ - gold]
             k == [c.shk EXCEPT !.cash = @ + gold, !.debit = debit, !.loan = loan, !.robbed = robbed]
             cash == c.shk.cash + gold
  <2>1. r = [c EXCEPT !.hero = h, !.shk = k]
    BY <1>1
  <2>0. cash \in Nat
    BY <1>3, <1>4 DEF Keeper
  <2>5. k = [c.shk EXCEPT !.cash = cash, !.debit = debit, !.loan = loan, !.robbed = robbed]
    OBVIOUS
  <2>2. h \in Hero /\ h.at = c.hero.at /\ h.ushops = c.hero.ushops
    BY <1>3, <1>4 DEF Hero
  <2>3. /\ k \in Keeper /\ k.at = c.shk.at /\ k.bill_p = c.shk.bill_p /\ k.bill = c.shk.bill
        /\ k.billsz = c.shk.billsz /\ k.surcharge = c.shk.surcharge /\ k.loan = loan /\ k.debit = debit
    <3>a. PICK q : q = c.shk
      OBVIOUS
    <3> HIDE DEF k, cash
    <3>1. k = [q EXCEPT !.cash = cash, !.debit = debit, !.loan = loan, !.robbed = robbed] /\ q \in Keeper
      BY <1>3, <2>5, <3>a
    <3>2. /\ k \in Keeper /\ k.at = q.at /\ k.bill_p = q.bill_p /\ k.bill = q.bill
          /\ k.billsz = q.billsz /\ k.surcharge = q.surcharge /\ k.loan = loan /\ k.debit = debit
      BY <2>0, <3>1 DEF Keeper
    <3> QED
      BY <3>2, <3>a
  <2> HIDE DEF h, k, cash
  <2>4. r \in Rec /\ r.obj = c.obj /\ r.wrong = c.wrong /\ r.hero = h /\ r.shk = k
    BY <1>3, <2>1, <2>2, <2>3 DEF Rec
  <2> QED
    BY <2>2, <2>3, <2>4
<1>6. Calm(c, r)
  BY <1>3, <1>5, Booked
<1> QED
  BY <1>2, <1>5, <1>6, CalmTrans

LEMMA PayCalm ==
  ASSUME NEW m, Sound(m), NEW n \in Nat, n <= Funds(m)
  PROVE  Calm(m, Pay(m, n)) /\ Pay(m, n).obj = m.obj /\ Pay(m, n).shk.bill = m.shk.bill
<1>a. PICK r : r = Pay(m, n)
  OBVIOUS
<1>b. PICK robbed : robbed = Max({0, m.shk.robbed - n})
  OBVIOUS
<1>0. m \in Rec /\ m.shk \in Keeper /\ m.shk.loan <= m.shk.debit /\ m.shk.loan \in Nat /\ m.shk.debit \in Nat
  BY DEF Sound, Rec, BillRight, Keeper
<1>1. robbed \in Nat
  <2>1. m.shk.robbed - n \in Int
    BY <1>0 DEF Keeper
  <2> QED
    BY <1>b, <2>1, MaxZero
<1>2. r = Paid(m, n, m.shk.debit, m.shk.loan, robbed)
  <2>a. PICK c : c = CheckCredit(m, n)
    OBVIOUS
  <2>b. PICK x : x = c.shk.credit
    OBVIOUS
  <2>c. PICK gold : gold = AfterCredit(m, n)
    OBVIOUS
  <2>1. c = [m EXCEPT !.shk.credit = x] /\ c.shk = [m.shk EXCEPT !.credit = x]
    BY <2>a, <2>b, CheckCreditCalm
  <2>2. c.shk.debit = m.shk.debit /\ c.shk.loan = m.shk.loan /\ c.shk.robbed = m.shk.robbed /\ c.shk \in Keeper /\ c \in Rec
    <3>1. c \in Rec
      BY <2>a, CheckCreditCalm DEF Calm, Sound
    <3> QED
      BY <1>0, <2>1, <3>1 DEF Keeper, Rec
  <2>3. r = [c EXCEPT !.hero.gold = @ - gold, !.shk.cash = @ + gold, !.shk.robbed = robbed]
    BY <1>a, <1>b, <2>a, <2>2, <2>c DEF Pay
  <2>4. [c.shk EXCEPT !.cash = @ + gold, !.robbed = robbed]
        = [c.shk EXCEPT !.cash = @ + gold, !.debit = m.shk.debit, !.loan = m.shk.loan, !.robbed = robbed]
    BY <2>2 DEF Keeper
  <2> QED
    BY <2>a, <2>c, <2>3, <2>4 DEF Paid
<1>3. Calm(m, r) /\ r.obj = m.obj /\ r.shk.bill = m.shk.bill
  BY <1>0, <1>1, <1>2, PaidCalm
<1> QED
  BY <1>a, <1>3

LEMMA PayDebitCalm ==
  ASSUME NEW m, Sound(m), m.shk.debit <= Funds(m)
  PROVE  Calm(m, PayDebit(m))
<1>a. PICK r : r = PayDebit(m)
  OBVIOUS
<1>0. m.shk.debit \in Nat /\ m.shk.robbed \in Nat /\ m.shk \in Keeper
  BY DEF Sound, Rec, Keeper
<1>2. r = Paid(m, m.shk.debit, 0, 0, m.shk.robbed)
  <2>a. PICK c : c = CheckCredit(m, m.shk.debit)
    OBVIOUS
  <2>b. PICK x : x = c.shk.credit
    OBVIOUS
  <2>c. PICK gold : gold = AfterCredit(m, m.shk.debit)
    OBVIOUS
  <2>1. c.shk = [m.shk EXCEPT !.credit = x] /\ c \in Rec
    <3>1. Calm(m, c) /\ c.shk = [m.shk EXCEPT !.credit = c.shk.credit]
      BY <1>0, <2>a, CheckCreditCalm
    <3> QED
      BY <2>b, <3>1 DEF Calm, Sound
  <2>2. c.shk.robbed = m.shk.robbed /\ c.shk \in Keeper
    BY <1>0, <2>1 DEF Keeper, Rec
  <2>3. r = [c EXCEPT !.hero.gold = @ - gold, !.shk.cash = @ + gold, !.shk.debit = 0, !.shk.loan = 0]
    BY <1>a, <2>a, <2>c DEF PayDebit
  <2>4. [c.shk EXCEPT !.cash = @ + gold, !.debit = 0, !.loan = 0]
        = [c.shk EXCEPT !.cash = @ + gold, !.debit = 0, !.loan = 0, !.robbed = m.shk.robbed]
    BY <2>2 DEF Keeper
  <2> QED
    BY <2>a, <2>c, <2>3, <2>4 DEF Paid
<1>3. Calm(m, r)
  BY <1>0, <1>2, PaidCalm
<1> QED
  BY <1>a, <1>3

LEMMA DonateGoldCalm ==
  ASSUME NEW m, Sound(m), NEW n \in Nat
  PROVE  Calm(m, DonateGold(m, n))
<1>a. PICK r : r = DonateGold(m, n)
  OBVIOUS
<1>0. m \in Rec /\ m.shk \in Keeper /\ m.shk.loan <= m.shk.debit /\ m.shk.loan - n \in Int
  BY DEF Sound, Rec, BillRight, Keeper
<1>b. PICK loan : loan = Max({0, m.shk.loan - n})
  OBVIOUS
<1>1. loan \in Nat /\ loan = IF m.shk.loan - n > 0 THEN m.shk.loan - n ELSE 0
  BY <1>0, <1>b, MaxZero
<1>2. CASE m.shk.debit >= n
  <2>1. r = [m EXCEPT !.shk.loan = loan, !.shk.debit = @ - n]
    BY <1>a, <1>b, <1>2 DEF DonateGold
  <2>2. /\ r \in Rec /\ r.obj = m.obj /\ r.hero = m.hero /\ r.wrong = m.wrong
        /\ r.shk.at = m.shk.at /\ r.shk.bill_p = m.shk.bill_p /\ r.shk.bill = m.shk.bill
        /\ r.shk.billsz = m.shk.billsz /\ r.shk.surcharge = m.shk.surcharge
        /\ r.shk.loan = loan /\ r.shk.debit = m.shk.debit - n
    <3>a. PICK left : left = m.shk.debit - n
      OBVIOUS
    <3>1. left \in Nat
      BY <1>0, <1>2, <3>a DEF Keeper
    <3>2. r = [m EXCEPT !.shk.loan = loan, !.shk.debit = left]
      BY <2>1, <3>a
    <3> QED
      BY <1>0, <1>1, <3>1, <3>2, <3>a DEF Rec, Keeper
  <2>3. r.shk.loan <= r.shk.debit
    BY <1>0, <1>1, <1>2, <2>2 DEF Keeper
  <2> QED
    BY <1>a, <2>2, <2>3, Booked
<1>3. CASE ~(m.shk.debit >= n)
  <2>1. r = [m EXCEPT !.shk.credit = @ + n - m.shk.debit, !.shk.debit = 0, !.shk.loan = 0]
    BY <1>a, <1>3 DEF DonateGold
  <2>0. m.shk.credit + n - m.shk.debit \in Nat
    BY <1>0, <1>3 DEF Keeper
  <2>2. /\ r \in Rec /\ r.obj = m.obj /\ r.hero = m.hero /\ r.wrong = m.wrong
        /\ r.shk.at = m.shk.at /\ r.shk.bill_p = m.shk.bill_p /\ r.shk.bill = m.shk.bill
        /\ r.shk.billsz = m.shk.billsz /\ r.shk.surcharge = m.shk.surcharge
        /\ r.shk.loan = 0 /\ r.shk.debit = 0
    BY <1>0, <2>0, <2>1 DEF Rec, Keeper
  <2>3. r.shk.loan <= r.shk.debit
    BY <2>2
  <2> QED
    BY <1>a, <2>2, <2>3, Booked
<1> QED
  BY <1>2, <1>3

----------------------------------------------------------------------------
(* Coming and going.                                                       *)

(* n is m after the shopkeeper and the hero have taken notice of where     *)
(* they are.                                                               *)
Stays(m, n) ==
  /\ Sound(n) /\ n.hero.at = m.hero.at
  /\ m.wrong \subseteq n.wrong /\ n.wrong \subseteq m.wrong \cup {"no room"}
  /\ m.shk.bill = {} => n.shk.bill = {}
  /\ \A c \in Objects :
       \/ n.obj[c].where = m.obj[c].where /\ n.obj[c].quan = m.obj[c].quan
       \/ m.obj[c].where \in {"none", "bill"} /\ n.obj[c].where \in {"none", "bill"}

(* A bill is for a hero in a tended shop; who is in a shop without the     *)
(* game knowing came while its shopkeeper was out.                         *)
Minding(m) == m.shk.bill # {} => Tended(m) /\ m.hero.ushops
Placed(m) ==
  /\ Minding(m)
  /\ m.hero.ushops => m.hero.at \in {"inside", "spot"}
  /\ m.hero.at \in {"inside", "spot"} /\ ~m.hero.ushops /\ m.shk.at # "dead" => m.shk.bill_p = "wild"

LEMMA StaysTrans ==
  ASSUME NEW m, NEW n, NEW k, Stays(m, n), Stays(n, k)
  PROVE  Stays(m, k)
BY DEF Stays

LEMMA CalmStays ==
  ASSUME NEW m, NEW n, Calm(m, n)
  PROVE  Stays(m, n) /\ n.shk.at = m.shk.at /\ (Minding(m) => Minding(n)) /\ (Placed(m) => Placed(n))
BY DEF Stays, Calm, Minding, Placed, Tended

(* Where they are, and how he feels about it.                              *)
LEMMA Turned ==
  ASSUME NEW m, Sound(m), NEW n, n \in Rec, n.obj = m.obj, n.wrong = m.wrong, n.hero.at = m.hero.at,
         n.shk.bill = m.shk.bill, n.shk.billsz = m.shk.billsz, n.shk.surcharge = m.shk.surcharge,
         n.shk.loan = m.shk.loan, n.shk.debit = m.shk.debit
  PROVE  Stays(m, n)
<1>1. BagRight(n.obj)
  BY BagSame
<1>2. Sound(n)
  BY <1>1, SoundSame DEF Sound, BillRight
<1> QED
  BY <1>2 DEF Stays

LEMMA EnteredShopStays ==
  ASSUME NEW m, Sound(m)
  PROVE  LET n == EnteredShop(m) IN
         /\ Stays(m, n) /\ n.shk.at = m.shk.at
         /\ m.shk.at = "dead" \/ n.hero.ushops = m.hero.ushops \/ n.shk.bill_p = "wild"
         /\ m.hero.ushops => n.hero.ushops \/ m.shk.at = "dead" \/ n.shk.bill_p = "wild"
         /\ n.hero.ushops => m.hero.ushops
<1>a. PICK n : n = EnteredShop(m)
  OBVIOUS
<1>b. PICK k : k = ShopKeeper(m)
  OBVIOUS
<1>0. m \in Rec
  BY DEF Sound
<1>1. CASE m.shk.at = "dead"
  <2>1. n = [m EXCEPT !.hero.ushops = FALSE]
    BY <1>a, <1>1 DEF EnteredShop
  <2>2. /\ n \in Rec /\ n.obj = m.obj /\ n.wrong = m.wrong /\ n.hero.at = m.hero.at /\ n.shk = m.shk
        /\ ~n.hero.ushops
    BY <1>0, <2>1 DEF Rec, Hero
  <2>3. Stays(m, n)
    BY <2>2, Turned
  <2> QED
    BY <1>a, <1>1, <2>2, <2>3
<1>2. CASE m.shk.at = "out"
  <2>1. n = [k EXCEPT !.hero.ushops = FALSE, !.shk.bill_p = "wild"]
    BY <1>a, <1>b, <1>2 DEF EnteredShop
  <2>2. Calm(m, k) /\ Stays(m, k) /\ k.shk.at = m.shk.at /\ Sound(k) /\ k \in Rec
    BY <1>b, ShopKeeperCalm, CalmStays DEF Calm, Sound
  <2>3. /\ n \in Rec /\ n.obj = k.obj /\ n.wrong = k.wrong /\ n.hero.at = k.hero.at /\ n.shk.at = k.shk.at
        /\ n.shk.bill = k.shk.bill /\ n.shk.billsz = k.shk.billsz /\ n.shk.surcharge = k.shk.surcharge
        /\ n.shk.loan = k.shk.loan /\ n.shk.debit = k.shk.debit /\ n.shk.bill_p = "wild" /\ ~n.hero.ushops
    BY <2>1, <2>2 DEF Rec, Hero, Keeper
  <2>4. Stays(k, n)
    BY <2>2, <2>3, Turned
  <2>5. Stays(m, n)
    BY <2>2, <2>4, StaysTrans
  <2> QED
    BY <1>a, <2>2, <2>3, <2>5
<1>3. CASE m.shk.at \notin {"dead", "out"}
  <2>1. n = [k EXCEPT !.shk.bill_p = "ok"]
    BY <1>a, <1>b, <1>3 DEF EnteredShop
  <2>2. Calm(m, k) /\ Stays(m, k) /\ k.shk.at = m.shk.at /\ Sound(k) /\ k \in Rec /\ k.hero = m.hero
    BY <1>b, ShopKeeperCalm, CalmStays DEF Calm, Sound
  <2>3. /\ n \in Rec /\ n.obj = k.obj /\ n.wrong = k.wrong /\ n.hero = k.hero /\ n.shk.at = k.shk.at
        /\ n.shk.bill = k.shk.bill /\ n.shk.billsz = k.shk.billsz /\ n.shk.surcharge = k.shk.surcharge
        /\ n.shk.loan = k.shk.loan /\ n.shk.debit = k.shk.debit
    BY <2>1, <2>2 DEF Rec, Keeper
  <2>4. Stays(k, n)
    BY <2>2, <2>3, Turned
  <2>5. Stays(m, n)
    BY <2>2, <2>4, StaysTrans
  <2> QED
    BY <1>a, <2>2, <2>3, <2>5
<1> QED
  BY <1>1, <1>2, <1>3

LEMMA CheckSpecialRoomStays ==
  ASSUME NEW m, Sound(m), Minding(m)
  PROVE  LET k == CheckSpecialRoom(m) IN
         Stays(m, k) /\ k.shk.at = m.shk.at /\ Placed(k)
<1>a. PICK k : k = CheckSpecialRoom(m)
  OBVIOUS
<1>b. PICK within \in BOOLEAN : within <=> m.hero.at \in {"inside", "spot"}
  OBVIOUS
<1>c. PICK n : n = [m EXCEPT !.hero.ushops = within]
  OBVIOUS
<1>0. m \in Rec
  BY DEF Sound
<1>1. /\ n \in Rec /\ n.obj = m.obj /\ n.wrong = m.wrong /\ n.hero.at = m.hero.at /\ n.shk = m.shk
      /\ n.hero.ushops = within
  BY <1>0, <1>c DEF Rec, Hero
<1>2. Stays(m, n) /\ Sound(n)
  BY <1>1, Turned DEF Stays
<1>3. n = [m EXCEPT !.hero.ushops = m.hero.at \in {"inside", "spot"}]
  BY <1>b, <1>c
<1>4. CASE m.hero.ushops /\ ~within
  <2>1. k = LeftShop(n)
    BY <1>a, <1>b, <1>3, <1>4 DEF CheckSpecialRoom
  <2>2. Calm(n, k) /\ (Tended(n) => k.shk.bill = {})
    BY <1>2, <2>1, LeftShopCalm
  <2>3. Stays(n, k) /\ k.shk.at = n.shk.at
    BY <2>2, CalmStays
  <2>4. k.shk.bill = {}
    BY <1>1, <2>2 DEF Calm, Minding, Tended
  <2>5. k.hero.ushops = within /\ k.hero.at = m.hero.at
    BY <1>1, <2>2 DEF Calm
  <2>6. Placed(k)
    BY <1>b, <1>4, <2>4, <2>5 DEF Placed, Minding
  <2> QED
    BY <1>a, <1>1, <1>2, <2>3, <2>6, StaysTrans
<1>5. CASE ~m.hero.ushops /\ within
  <2>1. k = EnteredShop(n)
    BY <1>a, <1>b, <1>3, <1>5 DEF CheckSpecialRoom
  <2>2. /\ Stays(n, k) /\ k.shk.at = n.shk.at
        /\ n.shk.at = "dead" \/ k.hero.ushops = n.hero.ushops \/ k.shk.bill_p = "wild"
    BY <1>2, <2>1, EnteredShopStays
  <2>3. k.shk.bill = {} /\ k.hero.at = m.hero.at
    BY <1>1, <1>5, <2>2 DEF Stays, Minding
  <2>4. Placed(k)
    BY <1>b, <1>1, <1>5, <2>2, <2>3 DEF Placed, Minding
  <2> QED
    BY <1>a, <1>1, <1>2, <2>2, <2>4, StaysTrans
<1>6. CASE (m.hero.ushops /\ within) \/ (~m.hero.ushops /\ ~within)
  <2>1. k = n
    BY <1>a, <1>b, <1>3, <1>6 DEF CheckSpecialRoom
  <2>2. Placed(n)
    BY <1>b, <1>1, <1>6 DEF Placed, Minding, Tended
  <2> QED
    BY <1>a, <1>1, <1>2, <2>1, <2>2
<1> QED
  BY <1>4, <1>5, <1>6

LEMMA AfterShkMoveStays ==
  ASSUME NEW m, Sound(m), Minding(m), Placed(m) \/ (m.shk.bill_p = "wild" /\ Tended(m))
  PROVE  LET k == AfterShkMove(m) IN
         Stays(m, k) /\ k.shk.at = m.shk.at /\ Placed(k)
<1>a. PICK k : k = AfterShkMove(m)
  OBVIOUS
<1>c. PICK n : n = [m EXCEPT !.shk.bill_p = "ok"]
  OBVIOUS
<1>0. m \in Rec
  BY DEF Sound
<1>1. CASE m.shk.bill_p = "wild" /\ Tended(m)
  <2>1. k = CheckSpecialRoom(n)
    BY <1>a, <1>c, <1>1 DEF AfterShkMove
  <2>2. /\ n \in Rec /\ n.obj = m.obj /\ n.wrong = m.wrong /\ n.hero = m.hero /\ n.shk.at = m.shk.at
        /\ n.shk.bill = m.shk.bill /\ n.shk.billsz = m.shk.billsz /\ n.shk.surcharge = m.shk.surcharge
        /\ n.shk.loan = m.shk.loan /\ n.shk.debit = m.shk.debit
    BY <1>0, <1>c DEF Rec, Keeper
  <2>3. Stays(m, n) /\ Sound(n) /\ Minding(n)
    BY <2>2, Turned DEF Stays, Minding, Tended
  <2>4. Stays(n, k) /\ k.shk.at = n.shk.at /\ Placed(k)
    BY <2>1, <2>3, CheckSpecialRoomStays
  <2> QED
    BY <1>a, <2>2, <2>3, <2>4, StaysTrans
<1>2. CASE ~(m.shk.bill_p = "wild" /\ Tended(m))
  <2>1. k = m
    BY <1>a, <1>2 DEF AfterShkMove
  <2>2. Stays(m, m)
    BY CalmSelf, CalmStays
  <2> QED
    BY <1>a, <1>2, <2>1, <2>2
<1> QED
  BY <1>1, <1>2

LEMMA MakeHappyStays ==
  ASSUME NEW m, Sound(m), Placed(m), m.shk.at # "dead"
  PROVE  Stays(m, MakeHappy(m)) /\ Placed(MakeHappy(m))
<1>a. PICK k : k = MakeHappy(m)
  OBVIOUS
<1>b. PICK n : n = [m EXCEPT !.shk.angry = FALSE, !.shk.following = FALSE, !.shk.robbed = 0]
  OBVIOUS
<1>c. PICK h : h = [n EXCEPT !.shk.at = "home"]
  OBVIOUS
<1>0. m \in Rec
  BY DEF Sound
<1>1. /\ n \in Rec /\ n.obj = m.obj /\ n.wrong = m.wrong /\ n.hero = m.hero /\ n.shk.at = m.shk.at
      /\ n.shk.bill = m.shk.bill /\ n.shk.billsz = m.shk.billsz /\ n.shk.surcharge = m.shk.surcharge
      /\ n.shk.loan = m.shk.loan /\ n.shk.debit = m.shk.debit /\ n.shk.bill_p = m.shk.bill_p
  BY <1>0, <1>b DEF Rec, Keeper
<1>2. Stays(m, n) /\ Sound(n) /\ Placed(n)
  BY <1>1, Turned DEF Stays, Placed, Minding, Tended
<1>3. CASE m.shk.at = "home"
  <2>1. k = n
    BY <1>a, <1>b, <1>3 DEF MakeHappy
  <2> QED
    BY <1>a, <1>2, <2>1
<1>4. CASE m.shk.at # "home"
  <2>1. k = AfterShkMove(h)
    BY <1>a, <1>b, <1>c, <1>4 DEF MakeHappy
  <2>2. /\ h \in Rec /\ h.obj = n.obj /\ h.wrong = n.wrong /\ h.hero = n.hero /\ h.shk.at = "home"
        /\ h.shk.bill = n.shk.bill /\ h.shk.billsz = n.shk.billsz /\ h.shk.surcharge = n.shk.surcharge
        /\ h.shk.loan = n.shk.loan /\ h.shk.debit = n.shk.debit /\ h.shk.bill_p = n.shk.bill_p
    BY <1>1, <1>c DEF Rec, Keeper
  <2>3. Stays(n, h) /\ Sound(h)
    BY <1>2, <2>2, Turned DEF Stays
  <2>4. Placed(h) /\ Minding(h)
    BY <1>1, <1>2, <1>4, <2>2 DEF Placed, Minding, Tended
  <2>5. Stays(h, k) /\ Placed(k)
    BY <2>1, <2>3, <2>4, AfterShkMoveStays
  <2> QED
    BY <1>a, <1>2, <2>3, <2>5, StaysTrans
<1> QED
  BY <1>3, <1>4

LEMMA MakeAngryCalm ==
  ASSUME NEW m, Sound(m)
  PROVE  Calm(m, MakeAngry(m)) /\ MakeAngry(m).shk.bill = {}
<1>a. PICK n : n = MakeAngry(m)
  OBVIOUS
<1>b. PICK s : s = SetPaid(m)
  OBVIOUS
<1>c. PICK due : due = m.shk.robbed + AddUpBill(m) + m.shk.debit + m.shk.loan - m.shk.credit
  OBVIOUS
<1>d. PICK robbed : robbed = Max({0, due})
  OBVIOUS
<1>e. PICK paid : paid = [s EXCEPT !.shk.robbed = robbed]
  OBVIOUS
<1>0. m \in Rec /\ m.shk \in Keeper
  BY DEF Sound, Rec
<1>1. robbed \in Nat
  <2>1. due \in Int
    BY <1>0, <1>c, BillWorth DEF Keeper
  <2> QED
    BY <1>d, <2>1, MaxZero
<1>2. Calm(m, s) /\ s.shk.bill = {}
  BY <1>b, SetPaidCalm
<1>3. s \in Rec /\ Sound(s) /\ s.shk.loan <= s.shk.debit
  BY <1>2 DEF Calm, Sound, BillRight
<1>4. /\ paid \in Rec /\ paid.obj = s.obj /\ paid.hero = s.hero /\ paid.wrong = s.wrong
      /\ paid.shk.at = s.shk.at /\ paid.shk.bill_p = s.shk.bill_p /\ paid.shk.bill = s.shk.bill
      /\ paid.shk.billsz = s.shk.billsz /\ paid.shk.surcharge = s.shk.surcharge
      /\ paid.shk.loan = s.shk.loan /\ paid.shk.debit = s.shk.debit
  BY <1>e, <1>1, <1>3 DEF Rec, Keeper
<1>5. Calm(s, paid)
  BY <1>3, <1>4, Booked
<1>6. Calm(m, paid) /\ paid.shk.bill = {}
  BY <1>2, <1>4, <1>5, CalmTrans
<1>7. CASE Owing(m) \/ m.shk.loan > 0 \/ m.shk.credit > 0
  <2>1. paid = [SetPaid(m) EXCEPT !.shk.robbed = Max({0, due})]
    BY <1>b, <1>d, <1>e
  <2>2. n = HotPursuit(paid)
    BY <1>a, <1>c, <1>7, <2>1 DEF MakeAngry
  <2>3. Calm(paid, n)
    BY <1>6, <2>2, HotPursuitCalm DEF Calm
  <2>4. Calm(m, n) /\ n.shk.bill = {}
    BY <1>6, <2>3, CalmTrans DEF Calm
  <2> QED
    BY <1>a, <2>4
<1>8. CASE ~(Owing(m) \/ m.shk.loan > 0 \/ m.shk.credit > 0)
  <2>1. n = HotPursuit(m) /\ m.shk.bill = {}
    BY <1>a, <1>8 DEF MakeAngry, Owing
  <2>2. Calm(m, n)
    BY <2>1, HotPursuitCalm
  <2> QED
    BY <1>a, <2>1, <2>2 DEF Calm
<1> QED
  BY <1>7, <1>8

----------------------------------------------------------------------------
(* Billing things with what they contain.                                  *)

LEMMA OwesTwice ==
  ASSUME NEW m, Sound(m), NEW n, Sound(n), NEW k, NEW S, NEW T, Owes(m, n, S), Owes(n, k, T)
  PROVE  Owes(m, k, S \cup T)
<1>0. m \in Rec /\ n \in Rec /\ m.shk \in Keeper
  BY DEF Sound, Rec
<1>a. PICK b : b = n.shk.bill
  OBVIOUS
<1>b. PICK p : p = n.shk.bill_p
  OBVIOUS
<1>c. PICK d : d = k.shk.bill
  OBVIOUS
<1>d. PICK q : q = k.shk.bill_p
  OBVIOUS
<1>e. PICK x : x = m.shk
  OBVIOUS
<1>f. PICK y : y = n.shk
  OBVIOUS
<1>1. k.shk = [m.shk EXCEPT !.bill = d, !.bill_p = q]
  <2>1. y = [x EXCEPT !.bill = b, !.bill_p = p] /\ k.shk = [y EXCEPT !.bill = d, !.bill_p = q]
    BY <1>a, <1>b, <1>c, <1>d, <1>e, <1>f DEF Owes
  <2>2. k.shk = [x EXCEPT !.bill = d, !.bill_p = q]
    BY <1>0, <1>e, <2>1 DEF Keeper
  <2> QED
    BY <2>2, <1>e
<1>2. q = m.shk.bill_p \/ (m.shk.bill_p = "null" /\ q = "ok")
  BY <1>d DEF Owes
<1>3. p # "wild" <=> m.shk.bill_p # "wild"
  BY <1>b DEF Owes
<1>4. ASSUME NEW c \in Objects
      PROVE  /\ \/ k.obj[c] = m.obj[c]
                \/ c \in S \cup T /\ m.shk.bill_p # "wild" /\ k.obj[c] = [m.obj[c] EXCEPT !.unpaid = TRUE]
             /\ k.obj[c] = m.obj[c] => n.obj[c] = m.obj[c]
  <2>1. m.obj[c] \in Obj
    BY <1>0 DEF Rec
  <2>2. n.obj[c] = m.obj[c] \/ (c \in S /\ m.shk.bill_p # "wild" /\ n.obj[c] = [m.obj[c] EXCEPT !.unpaid = TRUE])
    BY DEF Owes
  <2>3. k.obj[c] = n.obj[c] \/ (c \in T /\ n.shk.bill_p # "wild" /\ k.obj[c] = [n.obj[c] EXCEPT !.unpaid = TRUE])
    BY DEF Owes
  <2> QED
    BY <1>b, <1>3, <2>1, <2>2, <2>3 DEF Obj
<1>5. (\A c \in Objects : k.obj[c] = m.obj[c]) => k.shk.bill = m.shk.bill
  <2> SUFFICES ASSUME \A c \in Objects : k.obj[c] = m.obj[c] PROVE k.shk.bill = m.shk.bill
    OBVIOUS
  <2>1. \A c \in Objects : n.obj[c] = m.obj[c] /\ k.obj[c] = n.obj[c]
    BY <1>4
  <2> QED
    BY <2>1 DEF Owes
<1>6. k.hero = m.hero /\ m.wrong \subseteq k.wrong /\ k.wrong \subseteq m.wrong \cup Fatal
  BY DEF Owes
<1> QED
  BY <1>1, <1>2, <1>4, <1>5, <1>6, <1>c, <1>d DEF Owes

LEMMA OwesSelf ==
  ASSUME NEW m, Sound(m), NEW S
  PROVE  Owes(m, m, S)
<1>1. m.shk = [m.shk EXCEPT !.bill = m.shk.bill, !.bill_p = m.shk.bill_p]
  BY DEF Sound, Rec, Keeper
<1> QED
  BY <1>1 DEF Owes

LEMMA OwesWhere ==
  ASSUME NEW m, Sound(m), NEW n, NEW S, Owes(m, n, S)
  PROVE  /\ \A c \in Objects : /\ n.obj[c].where = m.obj[c].where /\ n.obj[c].quan = m.obj[c].quan
                               /\ n.obj[c].no_charge = m.obj[c].no_charge
                               /\ m.obj[c].unpaid => n.obj[c].unpaid
         /\ n.shk.at = m.shk.at
<1>0. m \in Rec /\ m.shk \in Keeper
  BY DEF Sound, Rec
<1>1. ASSUME NEW c \in Objects
      PROVE  /\ n.obj[c].where = m.obj[c].where /\ n.obj[c].quan = m.obj[c].quan
             /\ n.obj[c].no_charge = m.obj[c].no_charge
             /\ m.obj[c].unpaid => n.obj[c].unpaid
  <2>1. m.obj[c] \in Obj
    BY <1>0 DEF Rec
  <2>2. n.obj[c] = m.obj[c] \/ n.obj[c] = [m.obj[c] EXCEPT !.unpaid = TRUE]
    BY DEF Owes
  <2> QED
    BY <2>1, <2>2 DEF Obj
<1>a. PICK b : b = n.shk.bill
  OBVIOUS
<1>b. PICK p : p = n.shk.bill_p
  OBVIOUS
<1>2. n.shk = [m.shk EXCEPT !.bill = b, !.bill_p = p]
  BY <1>a, <1>b DEF Owes
<1>3. n.shk.at = m.shk.at
  BY <1>0, <1>2 DEF Keeper
<1> QED
  BY <1>1, <1>3

AddEach(m, S) == AddAll(m, S, FALSE)

LEMMA AddEachUnfolds ==
  ASSUME NEW m, NEW S
  PROVE  \E f : /\ f[0] = m
                /\ \A n \in 0 .. MaxId - 1 : f[n + 1] = IF n + 1 \in S THEN Add(f[n], n + 1) ELSE f[n]
                /\ AddEach(m, S) = f[MaxId]
<1>1. \A dummy : \E f :
        /\ f[0] = m
        /\ \A n \in 0 .. MaxId - 1 : f[n + 1] = IF n + 1 \in S THEN AddOne(f[n], n + 1, dummy) ELSE f[n]
        /\ AddAll(m, S, dummy) = f[MaxId]
  BY AddAllUnfolds
<1>2. \E f :
        /\ f[0] = m
        /\ \A n \in 0 .. MaxId - 1 : f[n + 1] = IF n + 1 \in S THEN AddOne(f[n], n + 1, FALSE) ELSE f[n]
        /\ AddAll(m, S, FALSE) = f[MaxId]
  BY <1>1, Zenon
<1> QED
  BY <1>2, Zenon DEF Add, AddEach

LEMMA AddEachOwes ==
  ASSUME NEW m, Sound(m), NEW S \in SUBSET Objects, \A c \in S : m.obj[c].where \notin {"none", "bill"}
  PROVE  Sound(AddEach(m, S)) /\ Owes(m, AddEach(m, S), S)
<1>1. PICK f : /\ f[0] = m
               /\ \A n \in 0 .. MaxId - 1 : f[n + 1] = IF n + 1 \in S THEN Add(f[n], n + 1) ELSE f[n]
               /\ AddEach(m, S) = f[MaxId]
  BY AddEachUnfolds
<1>2. MaxId \in Nat /\ Objects = 0 .. MaxId
  BY ShopAssumption DEF Objects
<1> DEFINE T == {n \in 0 .. MaxId : Sound(f[n]) /\ Owes(m, f[n], S)}
<1>3. 0 \in T
  BY <1>1, <1>2, OwesSelf
<1>4. ASSUME NEW n \in 0 .. MaxId - 1, n \in T PROVE n + 1 \in T
  <2>0. n + 1 \in 0 .. MaxId /\ n + 1 \in Objects /\ Sound(f[n]) /\ Owes(m, f[n], S)
    BY <1>2, <1>4
  <2>a. PICK k : k = f[n + 1]
    OBVIOUS
  <2>b. PICK g : g = f[n]
    OBVIOUS
  <2>1. CASE n + 1 \in S
    <3>1. k = Add(g, n + 1)
      BY <1>1, <2>1, <2>a, <2>b
    <3>2. g.obj[n + 1].where \notin {"none", "bill"}
      BY <2>0, <2>1, <2>b, OwesWhere
    <3>3. Sound(k) /\ Owes(g, k, {n + 1})
      BY <2>0, <2>b, <3>1, <3>2, AddOneOwes
    <3>4. Owes(m, k, S \cup {n + 1})
      BY <2>0, <2>b, <3>3, OwesTwice
    <3>5. S \cup {n + 1} = S
      BY <2>1
    <3> QED
      BY <2>0, <2>a, <3>3, <3>4, <3>5
  <2>2. CASE n + 1 \notin S
    <3>1. k = g
      BY <1>1, <2>2, <2>a, <2>b
    <3> QED
      BY <2>0, <2>a, <2>b, <3>1
  <2> QED
    BY <2>1, <2>2
<1>5. MaxId \in T
  <2> HIDE DEF T
  <2>1. \A n \in 0 .. MaxId - 1 : n \in T => n + 1 \in T
    BY <1>4
  <2>2. \A n \in 0 .. MaxId : n \in T
    BY <1>2, <1>3, <2>1, CountedTo
  <2> QED
    BY <1>2, <2>2
<1> QED
  BY <1>1, <1>5

LEMMA WithinBag ==
  ASSUME NEW m, Sound(m), NEW o
  PROVE  /\ Within(m, o) \subseteq Objects
         /\ \A c \in Within(m, o) : m.obj[c].where = "bag"
         /\ o # Bag => Within(m, o) = {}
BY DEF Within, Contents

LEMMA AddGoodsOwes ==
  ASSUME NEW m, Sound(m), NEW o \in Objects, m.obj[o].where \notin {"none", "bill"}
  PROVE  Sound(AddGoods(m, o)) /\ Owes(m, AddGoods(m, o), {o} \cup Within(m, o))
<1>a. PICK n : n = AddGoods(m, o)
  OBVIOUS
<1>b. PICK top : top = ItselfBilled(m, o)
  OBVIOUS
<1>c. PICK S : S = {c \in Within(m, o) : ~m.obj[c].no_charge}
  OBVIOUS
<1>1. Sound(top) /\ Owes(m, top, {o})
  <2>1. top = m \/ top = Add(m, o)
    BY <1>b DEF ItselfBilled, Add
  <2> QED
    BY <2>1, AddOneOwes, OwesSelf
<1>2. n = top \/ n = AddEach(top, S)
  BY <1>a, <1>b, <1>c DEF AddGoods, AddEach
<1>3. S \in SUBSET Objects /\ \A c \in S : top.obj[c].where \notin {"none", "bill"}
  BY <1>1, <1>c, WithinBag, OwesWhere
<1>4. Sound(AddEach(top, S)) /\ Owes(top, AddEach(top, S), S)
  BY <1>1, <1>3, AddEachOwes
<1>5. Owes(m, AddEach(top, S), {o} \cup S)
  BY <1>1, <1>4, OwesTwice
<1>6. S \subseteq Within(m, o)
  BY <1>c
<1>7. /\ Owes(m, top, {o} \cup Within(m, o))
      /\ Owes(m, AddEach(top, S), {o} \cup Within(m, o))
  BY <1>1, <1>5, <1>6 DEF Owes
<1> QED
  BY <1>a, <1>1, <1>2, <1>4, <1>7

(* What addtobill() does.                                                  *)
Bills(m, n, o) ==
  /\ Sound(n) /\ n.hero = m.hero /\ n.shk.at = m.shk.at
  /\ n.shk.bill_p = m.shk.bill_p \/ (m.shk.bill_p = "null" /\ n.shk.bill_p = "ok")
  /\ m.wrong \subseteq n.wrong /\ n.wrong \subseteq m.wrong \cup Fatal
  /\ \A c \in Objects : n.obj[c].where = m.obj[c].where /\ n.obj[c].quan = m.obj[c].quan
  /\ n.shk.bill # m.shk.bill => /\ Tended(m) /\ m.shk.bill_p # "wild"
                                /\ \E c \in {o} \cup Within(m, o) : n.obj[c].unpaid

LEMMA BillsSelf ==
  ASSUME NEW m, Sound(m), NEW o
  PROVE  Bills(m, m, o)
BY DEF Bills

LEMMA AddToBillBills ==
  ASSUME NEW m, Sound(m), NEW o \in Objects, m.obj[o].where \notin {"none", "bill"}, NEW here \in BOOLEAN
  PROVE  /\ Bills(m, AddToBill(m, o, here), o)
         /\ ~here => AddToBill(m, o, here).shk.bill = m.shk.bill
<1>a. PICK n : n = AddToBill(m, o, here)
  OBVIOUS
<1>b. PICK all : all = AddGoods(m, o)
  OBVIOUS
<1>c. PICK S : S = {o} \cup Within(m, o)
  OBVIOUS
<1>1. \/ n = m
      \/ n = OnBill(m, o)
      \/ n = Charged(m, S)
      \/ here /\ Tended(m) /\ n = all
      \/ here /\ Tended(m) /\ n = Charged(all, S)
  BY <1>a, <1>b, <1>c DEF AddToBill, PickedContainer
<1>2. OnBill(m, o) = m
  BY OnBillQuiet
<1>3. CASE n = m
  BY <1>a, <1>3, BillsSelf
<1>4. Bills(m, Charged(m, S), o) /\ Charged(m, S).shk = m.shk
  <2>a. PICK k : k = Charged(m, S)
    OBVIOUS
  <2>1. Calm(m, k) /\ k.shk = m.shk /\ k.wrong = m.wrong
    BY <2>a, ChargedCalm
  <2>2. k.hero = m.hero /\ \A c \in Objects : k.obj[c].where = m.obj[c].where /\ k.obj[c].quan = m.obj[c].quan
    <3>1. m \in Rec
      BY DEF Sound
    <3>2. k.hero = m.hero /\ \A c \in Objects : k.obj[c] = IF c \in S THEN [m.obj[c] EXCEPT !.no_charge = FALSE] ELSE m.obj[c]
      BY <2>a, <3>1 DEF Charged, Rec
    <3>3. ASSUME NEW c \in Objects PROVE k.obj[c].where = m.obj[c].where /\ k.obj[c].quan = m.obj[c].quan
      <4>1. m.obj[c] \in Obj /\ k.obj[c] \in {m.obj[c], [m.obj[c] EXCEPT !.no_charge = FALSE]}
        BY <3>1, <3>2 DEF Rec
      <4> QED
        BY <4>1 DEF Obj
    <3> QED
      BY <3>2, <3>3
  <2>3. Sound(k)
    BY <2>1 DEF Calm
  <2>4. Bills(m, k, o)
    BY <2>1, <2>2, <2>3 DEF Bills
  <2> QED
    BY <2>a, <2>1, <2>4
<1>5. Sound(all) /\ Owes(m, all, S)
  BY <1>b, <1>c, AddGoodsOwes
<1>6. /\ all.hero = m.hero /\ all.shk.at = m.shk.at
      /\ all.shk.bill_p = m.shk.bill_p \/ (m.shk.bill_p = "null" /\ all.shk.bill_p = "ok")
      /\ m.wrong \subseteq all.wrong /\ all.wrong \subseteq m.wrong \cup Fatal
      /\ \A c \in Objects : all.obj[c].where = m.obj[c].where /\ all.obj[c].quan = m.obj[c].quan
  <2>1. /\ \A c \in Objects : all.obj[c].where = m.obj[c].where /\ all.obj[c].quan = m.obj[c].quan
        /\ all.shk.at = m.shk.at
    BY <1>5, OwesWhere
  <2> QED
    BY <1>5, <2>1 DEF Owes
<1>7. all.shk.bill # m.shk.bill => m.shk.bill_p # "wild" /\ \E c \in S : all.obj[c].unpaid
  <2> SUFFICES ASSUME all.shk.bill # m.shk.bill PROVE m.shk.bill_p # "wild" /\ \E c \in S : all.obj[c].unpaid
    OBVIOUS
  <2>1. PICK c \in Objects : all.obj[c] # m.obj[c]
    BY <1>5 DEF Owes
  <2>2. c \in S /\ m.shk.bill_p # "wild" /\ all.obj[c] = [m.obj[c] EXCEPT !.unpaid = TRUE] /\ m.obj[c] \in Obj
    BY <1>5, <2>1 DEF Owes, Sound, Rec
  <2>3. all.obj[c].unpaid
    BY <2>2 DEF Obj
  <2> QED
    BY <2>2, <2>3
<1>8. Tended(m) => Bills(m, all, o)
  BY <1>5, <1>6, <1>7, <1>c DEF Bills
<1>9. Tended(m) => Bills(m, Charged(all, S), o)
  <2>a. PICK k : k = Charged(all, S)
    OBVIOUS
  <2>1. Calm(all, k) /\ k.shk = all.shk /\ k.wrong = all.wrong /\ \A c \in Objects : k.obj[c].unpaid = all.obj[c].unpaid
    BY <1>5, <2>a, ChargedCalm
  <2>2. k.hero = all.hero /\ \A c \in Objects : k.obj[c].where = all.obj[c].where /\ k.obj[c].quan = all.obj[c].quan
    BY <1>5, <2>a DEF Charged, Sound, Rec, Obj
  <2>3. Sound(k)
    BY <2>1 DEF Calm
  <2>4. S \subseteq Objects
    BY <1>c, WithinBag
  <2> QED
    BY <1>6, <1>7, <1>c, <2>a, <2>1, <2>2, <2>3, <2>4 DEF Bills
<1> QED
  BY <1>a, <1>1, <1>2, <1>3, <1>4, <1>8, <1>9

----------------------------------------------------------------------------
(* Where things end up.                                                    *)

LEMMA PutSound ==
  ASSUME NEW m, Sound(m), NEW o \in Objects, m.obj[o].where \notin {"none", "bill"},
         NEW w \in Floor \cup {"inv", "bag", "loose", "mon"},
         o = Bag => w \notin {"bag", "mon"}, w = "bag" => m.obj[Bag].where # "none"
  PROVE  LET n == Put(m, o, w) IN
         /\ Sound(n) /\ n.shk = m.shk /\ n.hero = m.hero /\ n.wrong = m.wrong
         /\ n.obj[o].where = w
         /\ \A c \in Objects : n.obj[c].quan = m.obj[c].quan /\ n.obj[c].unpaid = m.obj[c].unpaid
         /\ \A c \in Objects : c # o => n.obj[c] = m.obj[c]
<1>a. PICK n : n = Put(m, o, w)
  OBVIOUS
<1>0. m \in Rec /\ BagRight(m.obj) /\ m.shk.loan <= m.shk.debit /\ m.obj[o] \in Obj /\ Bag \in Objects
  BY ShopAssumption DEF Sound, BillRight, Rec, Bag, Objects
<1>1. n = [m EXCEPT !.obj[o].where = w]
  BY <1>a DEF Put
<1>b. PICK thing : thing = [m.obj[o] EXCEPT !.where = w]
  OBVIOUS
<1>2. thing \in Obj /\ thing.where = w /\ thing.quan = m.obj[o].quan /\ thing.unpaid = m.obj[o].unpaid
  BY <1>b, <1>0 DEF Obj
<1>3. n = [m EXCEPT !.obj[o] = thing]
  BY <1>1, <1>b
<1>4. /\ n \in Rec /\ n.shk = m.shk /\ n.hero = m.hero /\ n.wrong = m.wrong /\ n.obj[o] = thing
      /\ \A c \in Objects : c # o => n.obj[c] = m.obj[c]
  BY <1>0, <1>2, <1>3 DEF Rec
<1>5. w \notin {"none", "bill"}
  BY DEF Floor
<1>6. BagRight(n.obj)
  BY <1>0, <1>2, <1>4, <1>5 DEF BagRight
<1>7. \A c \in Objects : /\ n.obj[c].quan = m.obj[c].quan /\ n.obj[c].unpaid = m.obj[c].unpaid
                         /\ \/ n.obj[c].where = m.obj[c].where
                            \/ {n.obj[c].where, m.obj[c].where} \cap {"none", "bill"} = {}
  BY <1>2, <1>4, <1>5
<1>8. Sound(n)
  BY <1>0, <1>4, <1>6, <1>7, SoundSame
<1> QED
  BY <1>a, <1>2, <1>4, <1>7, <1>8

(* n is m after o has got to where it was bound for.                       *)
Lands(m, n, o) ==
  /\ Sound(n) /\ n.hero = m.hero /\ n.shk.at = m.shk.at /\ n.shk.bill_p = m.shk.bill_p
  /\ n.wrong = m.wrong
  /\ m.shk.bill = {} => n.shk.bill = {}
  /\ \A c \in Objects : n.obj[c].where = "loose" => c # o /\ m.obj[c].where = "loose"

LEMMA PutLands ==
  ASSUME NEW m, Sound(m), NEW o \in Objects, m.obj[o].where \notin {"none", "bill"},
         NEW w \in Floor \cup {"inv", "bag", "mon"},
         o = Bag => w \notin {"bag", "mon"}, w = "bag" => m.obj[Bag].where # "none"
  PROVE  Lands(m, Put(m, o, w), o)
<1>1. w \in Floor \cup {"inv", "bag", "loose", "mon"} /\ w # "loose"
  BY DEF Floor
<1> QED
  BY <1>1, PutSound DEF Lands

(* One object goes, the quantity and the line of another change.           *)
LEMMA Rewritten ==
  ASSUME NEW m, Sound(m), NEW n, n \in Rec, n.hero = m.hero, n.wrong = m.wrong, BillRight(n.shk),
         n.shk.at = m.shk.at, n.shk.bill_p = m.shk.bill_p, n.shk.surcharge = m.shk.surcharge,
         m.shk.bill = {} => n.shk.bill = {},
         NEW o \in Objects, o # Bag, NEW t \in Objects, t # Bag,
         n.obj[o].where \in {"none", "bill"},
         n.obj[t].where \notin {"loose", "bag"} \/ n.obj[t].where = m.obj[t].where,
         Fits(n.obj[o], Lines(n.shk.bill, o), GetCost(m)), Fits(n.obj[t], Lines(n.shk.bill, t), GetCost(m)),
         \A c \in Objects : c \notin {o, t} => n.obj[c] = m.obj[c] /\ Lines(n.shk.bill, c) = Lines(m.shk.bill, c)
  PROVE  Lands(m, n, o)
<1>0. BagRight(m.obj) /\ Bag \in Objects
  BY ShopAssumption DEF Sound, Bag, Objects
<1>1. BagRight(n.obj)
  BY <1>0 DEF BagRight
<1>2. \A c \in Objects : \/ n.obj[c] = m.obj[c] /\ Lines(n.shk.bill, c) = Lines(m.shk.bill, c)
                         \/ Fits(n.obj[c], Lines(n.shk.bill, c), GetCost(m))
  OBVIOUS
<1>3. Sound(n)
  BY <1>1, <1>2, SoundLined
<1> QED
  BY <1>3 DEF Lands

LEMMA LineSwapped ==
  ASSUME NEW m, Sound(m), NEW e \in m.shk.bill, NEW f \in Bill,
         f.bo_id = e.bo_id \/ Lines(m.shk.bill, f.bo_id) = {},
         NEW new, new = Swapped(m.shk.bill, e, f)
  PROVE  /\ new \in SUBSET Bill /\ IsFiniteSet(new) /\ Cardinality(new) <= Cardinality(m.shk.bill)
         /\ Cardinality(m.shk.bill) \in Nat /\ Cardinality(new) \in Nat /\ m.shk.bill # {}
         /\ Lines(new, f.bo_id) = {f}
         /\ e.bo_id # f.bo_id => Lines(new, e.bo_id) = {}
         /\ \A c : c \notin {e.bo_id, f.bo_id} => Lines(new, c) = Lines(m.shk.bill, c)
<1>1. m.shk.bill \in SUBSET Bill /\ IsFiniteSet(m.shk.bill)
  BY DEF Sound, Rec, Keeper, BillRight
<1>2. e.bo_id \in Objects
  BY <1>1 DEF Bill
<1>3. Lines(m.shk.bill, e.bo_id) = {e}
  BY <1>2 DEF Sound, Fits, Lines
<1> QED
  BY <1>1, <1>3, LineSwap

(* What is used up whole stays on the bill it is on.                       *)
LEMMA FreeOneLands ==
  ASSUME NEW m, Sound(m), NEW o \in Objects, o # Bag, m.obj[o].where \notin {"none", "bill"}
  PROVE  Lands(m, FreeOne(m, o), o)
<1>a. PICK n : n = FreeOne(m, o)
  OBVIOUS
<1>0. m \in Rec /\ BillRight(m.shk) /\ m.obj[o] \in Obj /\ m.shk \in Keeper /\ m.shk.bill \in SUBSET Bill
  BY DEF Sound, Rec, Keeper
<1>1. OnBill(m, o) = m
  BY OnBillQuiet
<1>2. CASE ~Billed(m, o)
  <2>1. n = Freed(m, {o})
    BY <1>a, <1>1, <1>2 DEF FreeOne
  <2>2. /\ n \in Rec /\ n.hero = m.hero /\ n.wrong = m.wrong /\ n.shk = m.shk /\ n.obj[o] = NoObj
        /\ \A c \in Objects : c # o => n.obj[c] = m.obj[c]
    BY <1>0, <2>1 DEF Freed, Rec, NoObj, Obj
  <2>3. Lines(n.shk.bill, o) = {}
    BY <1>2, <2>2, NotBilled
  <2>4. Fits(n.obj[o], Lines(n.shk.bill, o), GetCost(m))
    BY <2>2, <2>3 DEF Fits, NoObj
  <2>5. n.obj[o].where = "none"
    BY <2>2 DEF NoObj
  <2>6. Lands(m, n, o)
    BY <1>0, <2>2, <2>4, <2>5, Rewritten
  <2> QED
    BY <1>a, <2>6
<1>3. CASE Billed(m, o)
  <2>a. PICK e : e = Entry(m, o)
    OBVIOUS
  <2>b. PICK f : f = [e EXCEPT !.useup = TRUE]
    OBVIOUS
  <2>c. PICK thing : thing = [m.obj[o] EXCEPT !.where = "bill", !.unpaid = FALSE]
    OBVIOUS
  <2>d. PICK bill : bill = (m.shk.bill \ {e}) \cup {f}
    OBVIOUS
  <2>1. n = [m EXCEPT !.shk.bill = bill, !.obj[o] = thing]
    <3>1. n = Rebilled([m EXCEPT !.obj[o].where = "bill", !.obj[o].unpaid = FALSE], o, f)
      BY <1>a, <1>1, <1>3, <2>a, <2>b DEF FreeOne
    <3>2. [m EXCEPT !.obj[o].where = "bill", !.obj[o].unpaid = FALSE] = [m EXCEPT !.obj[o] = thing]
      BY <1>0, <2>c DEF Rec, Obj
    <3>3. n = [[m EXCEPT !.obj[o] = thing] EXCEPT !.shk.bill = bill]
      BY <1>0, <3>1, <3>2, <2>a, <2>d DEF Rebilled, Entry, Rec
    <3> QED
      BY <1>0, <3>3 DEF Rec
  <2>2. /\ e \in m.shk.bill /\ e \in Bill /\ e.bo_id = o /\ Lines(m.shk.bill, o) = {e}
        /\ e.price = GetCost(m) /\ e.bquan >= m.obj[o].quan
    BY <1>3, <2>a, TheEntry
  <2>3. f \in Bill /\ f.bo_id = o /\ f.price = e.price /\ f.bquan = e.bquan /\ f.useup = TRUE
    BY <2>2, <2>b DEF Bill
  <2>4. /\ bill \in SUBSET Bill /\ IsFiniteSet(bill) /\ Cardinality(bill) <= Cardinality(m.shk.bill)
        /\ Cardinality(m.shk.bill) \in Nat /\ Cardinality(bill) \in Nat
        /\ Lines(bill, o) = {f} /\ \A c : c # o => Lines(bill, c) = Lines(m.shk.bill, c)
    <3>1. bill = Swapped(m.shk.bill, e, f)
      BY <2>d DEF Swapped
    <3> QED
      BY <2>2, <2>3, <3>1, LineSwapped
  <2>5. thing \in Obj /\ thing.where = "bill" /\ thing.quan = m.obj[o].quan
    BY <1>0, <2>c DEF Obj
  <2>6. /\ n \in Rec /\ n.hero = m.hero /\ n.wrong = m.wrong /\ n.obj[o] = thing
        /\ \A c \in Objects : c # o => n.obj[c] = m.obj[c]
        /\ n.shk.bill = bill /\ n.shk.at = m.shk.at /\ n.shk.bill_p = m.shk.bill_p
        /\ n.shk.surcharge = m.shk.surcharge /\ n.shk.billsz = m.shk.billsz
        /\ n.shk.loan = m.shk.loan /\ n.shk.debit = m.shk.debit
    BY <1>0, <2>1, <2>4, <2>5 DEF Rec, Keeper
  <2>7. BillRight(n.shk) /\ m.shk.bill # {}
    BY <1>0, <2>2, <2>4, <2>6 DEF BillRight, Keeper
  <2>8. Fits(thing, {f}, GetCost(m))
    <3>1. m.obj[o].quan \in Nat \ {0}
      BY <1>0 DEF Sound, Fits, Obj
    <3>2. /\ f.price = GetCost(m) /\ (f.useup <=> thing.where = "bill") /\ thing.where # "none"
          /\ f.bquan >= thing.quan /\ (thing.unpaid \/ f.useup) /\ thing.quan # 0
      BY <2>2, <2>3, <2>5, <3>1
    <3> QED
      BY <2>3, <2>5, <3>2, FitsOne
  <2>9. Fits(n.obj[o], Lines(n.shk.bill, o), GetCost(m)) /\ n.obj[o].where = "bill"
    BY <2>4, <2>5, <2>6, <2>8
  <2>10. \A c \in Objects : c # o => n.obj[c] = m.obj[c] /\ Lines(n.shk.bill, c) = Lines(m.shk.bill, c)
    BY <2>4, <2>6
  <2>11. Lands(m, n, o)
    BY <2>6, <2>7, <2>9, <2>10, Rewritten
  <2> QED
    BY <1>a, <2>11
<1> QED
  BY <1>2, <1>3

(* obfree() of what was merged: its line goes into that of the other.      *)
LEMMA MergedLands ==
  ASSUME NEW m, Sound(m), NEW t \in Objects, NEW o \in Objects, Mergable(m, t, o),
         m.obj[o].where \notin {"none", "bill"}, m.obj[t].where \notin {"none", "bill"}
  PROVE  Lands(m, Merged(m, t, o), o)
<1>a. PICK n : n = Merged(m, t, o)
  OBVIOUS
<1>b. PICK thing : thing = [m.obj[t] EXCEPT !.quan = @ + m.obj[o].quan]
  OBVIOUS
<1>c. PICK more : more = [m EXCEPT !.obj[t] = thing]
  OBVIOUS
<1>0. /\ m \in Rec /\ BillRight(m.shk) /\ m.shk \in Keeper /\ m.shk.bill \in SUBSET Bill
      /\ m.obj[o] \in Obj /\ m.obj[t] \in Obj /\ m.obj[o].quan # 0
  BY DEF Sound, Rec, Keeper, Fits
<1>1. /\ t # o /\ t # Bag /\ o # Bag /\ m.obj[t].unpaid = m.obj[o].unpaid
      /\ m.obj[t].no_charge = m.obj[o].no_charge
  BY DEF Mergable, Alike
<1>2. /\ thing \in Obj /\ thing.where = m.obj[t].where /\ thing.unpaid = m.obj[t].unpaid
      /\ thing.quan = m.obj[t].quan + m.obj[o].quan /\ thing.quan # 0
  BY <1>0, <1>b DEF Obj
<1>3. /\ more \in Rec /\ more.shk = m.shk /\ more.hero = m.hero /\ more.wrong = m.wrong
      /\ more.obj[t] = thing /\ \A c \in Objects : c # t => more.obj[c] = m.obj[c]
  BY <1>0, <1>2, <1>c DEF Rec
<1>4. n = MergeFree(more, t, o)
  BY <1>a, <1>b, <1>c DEF Merged
<1>5. \A c : (Billed(more, c) <=> Billed(m, c)) /\ Entry(more, c) = Entry(m, c)
  BY <1>3 DEF Billed, Entry
<1>6. CASE ~Billed(m, o)
  <2>1. ~m.obj[o].unpaid /\ ~m.obj[t].unpaid /\ ~Billed(m, t)
    BY <1>1, <1>6, NotBilled
  <2>2. n = Freed(more, {o})
    <3>1. OnBill(more, o) = more
      BY <1>1, <1>3, <1>5, <1>6, <2>1 DEF OnBill
    <3> QED
      BY <1>4, <1>5, <1>6, <3>1 DEF MergeFree
  <2>3. /\ n \in Rec /\ n.hero = m.hero /\ n.wrong = m.wrong /\ n.shk = m.shk /\ n.obj[o] = NoObj
        /\ n.obj[t] = thing /\ \A c \in Objects : c \notin {o, t} => n.obj[c] = m.obj[c]
    BY <1>1, <1>3, <2>2 DEF Freed, Rec, NoObj, Obj
  <2>4. Lines(n.shk.bill, o) = {} /\ Lines(n.shk.bill, t) = {}
    BY <1>6, <2>1, <2>3, NotBilled
  <2>5. Fits(n.obj[o], Lines(n.shk.bill, o), GetCost(m)) /\ n.obj[o].where = "none"
    BY <2>3, <2>4 DEF Fits, NoObj
  <2>6. Fits(n.obj[t], Lines(n.shk.bill, t), GetCost(m))
    BY <1>2, <2>1, <2>3, <2>4, FitsNone
  <2>7. Lands(m, n, o)
    BY <1>0, <1>1, <1>2, <2>3, <2>5, <2>6, Rewritten
  <2> QED
    BY <1>a, <2>7
<1>7. CASE Billed(m, o)
  <2>a. PICK e : e = Entry(m, o)
    OBVIOUS
  <2>b. PICK g : g = Entry(m, t)
    OBVIOUS
  <2>c. PICK f : f = [g EXCEPT !.bquan = @ + e.bquan]
    OBVIOUS
  <2>d. PICK rest : rest = m.shk.bill \ {e}
    OBVIOUS
  <2>e. PICK bill : bill = Swapped(rest, g, f)
    OBVIOUS
  <2>1. m.obj[o].unpaid /\ m.obj[t].unpaid /\ Billed(m, t)
    BY <1>1, <1>7, NotBilled
  <2>2. /\ e \in m.shk.bill /\ e \in Bill /\ e.bo_id = o /\ Lines(m.shk.bill, o) = {e}
        /\ g \in m.shk.bill /\ g \in Bill /\ g.bo_id = t /\ Lines(m.shk.bill, t) = {g}
        /\ g.price = GetCost(m) /\ g.bquan >= m.obj[t].quan /\ e.bquan >= m.obj[o].quan /\ ~g.useup
    BY <1>7, <2>1, <2>a, <2>b, TheEntry
  <2>3. f \in Bill /\ f.bo_id = t /\ f.price = g.price /\ f.bquan = g.bquan + e.bquan /\ f.useup = g.useup
    BY <2>2, <2>c DEF Bill
  <2>4. /\ rest \in SUBSET Bill /\ IsFiniteSet(rest) /\ Cardinality(rest) = Cardinality(m.shk.bill) - 1
        /\ Cardinality(m.shk.bill) \in Nat /\ Cardinality(rest) \in Nat
        /\ Lines(rest, o) = {} /\ \A c : c # o => Lines(rest, c) = Lines(m.shk.bill, c)
    <3>1. m.shk.bill \in SUBSET Bill /\ IsFiniteSet(m.shk.bill)
      BY <1>0 DEF BillRight
    <3>2. LET l == m.shk.bill \ {e} IN
          /\ l \in SUBSET Bill /\ IsFiniteSet(l) /\ Cardinality(l) = Cardinality(m.shk.bill) - 1
          /\ Cardinality(m.shk.bill) \in Nat /\ Cardinality(l) \in Nat
          /\ \A c : Lines(l, c) = Lines(m.shk.bill, c) \ {e}
          /\ \A c : c # e.bo_id => Lines(l, c) = Lines(m.shk.bill, c)
      BY <2>2, <3>1, LineDropped
    <3> QED
      BY <2>2, <2>d, <3>2
  <2>5. g \in rest /\ Lines(rest, t) = {g}
    BY <1>1, <2>2, <2>4, <2>d
  <2>6. /\ bill \in SUBSET Bill /\ IsFiniteSet(bill) /\ Cardinality(bill) <= Cardinality(rest)
        /\ Cardinality(bill) \in Nat
        /\ Lines(bill, t) = {f} /\ \A c : c # t => Lines(bill, c) = Lines(rest, c)
    <3>1. /\ rest \in SUBSET Bill /\ IsFiniteSet(rest) /\ g \in rest /\ f \in Bill
          /\ Lines(rest, g.bo_id) = {g}
      BY <2>2, <2>3, <2>4, <2>5
    <3>2. f.bo_id = g.bo_id \/ Lines(rest, f.bo_id) = {}
      BY <2>2, <2>3
    <3>3. /\ bill \in SUBSET Bill /\ IsFiniteSet(bill) /\ Cardinality(bill) <= Cardinality(rest)
          /\ Cardinality(bill) \in Nat /\ Lines(bill, f.bo_id) = {f}
          /\ \A c : c \notin {g.bo_id, f.bo_id} => Lines(bill, c) = Lines(rest, c)
      BY <2>e, <3>1, <3>2, LineSwap
    <3> QED
      BY <2>2, <2>3, <3>3
  <2>7. n = Freed([more EXCEPT !.shk.bill = bill], {o})
    <3>a. PICK u : u = Unbilled(more, o)
      OBVIOUS
    <3>1. u = [more EXCEPT !.shk.bill = rest]
      BY <1>3, <1>5, <2>a, <2>d, <3>a DEF Unbilled
    <3>2. u.shk.bill = rest
      BY <1>0, <1>3, <3>1 DEF Rec, Keeper
    <3>3. Entry(u, t) \in rest /\ Entry(u, t).bo_id = t
      <4>1. \E bp \in u.shk.bill : bp.bo_id = t
        BY <2>2, <2>5, <3>2
      <4> QED
        BY <3>2, <4>1 DEF Entry
    <3>4. Entry(u, t) = g
      BY <2>5, <3>3 DEF Lines
    <3>5. Rebilled(u, t, f) = [u EXCEPT !.shk.bill = bill]
      BY <2>e, <3>2, <3>4 DEF Rebilled, Swapped
    <3>6. [u EXCEPT !.shk.bill = bill] = [more EXCEPT !.shk.bill = bill]
      <4>a. PICK x : x = more.shk
        OBVIOUS
      <4>1. u = [more EXCEPT !.shk = [x EXCEPT !.bill = rest]] /\ x \in Keeper
        BY <1>0, <1>3, <3>1, <4>a
      <4>2. u.shk = [x EXCEPT !.bill = rest] /\ [u.shk EXCEPT !.bill = bill] = [x EXCEPT !.bill = bill]
        BY <1>3, <4>1 DEF Rec, Keeper
      <4>3. [u EXCEPT !.shk = [x EXCEPT !.bill = bill]] = [more EXCEPT !.shk = [x EXCEPT !.bill = bill]]
        BY <1>3, <4>1 DEF Rec
      <4> QED
        BY <4>2, <4>3, <4>a
    <3>7. f = [Entry(more, t) EXCEPT !.bquan = @ + Entry(more, o).bquan]
      BY <1>5, <2>a, <2>b, <2>c
    <3>8. n = Freed(Rebilled(u, t, f), {o})
      BY <1>4, <1>5, <1>7, <2>1, <3>7, <3>a DEF MergeFree
    <3> QED
      BY <3>5, <3>6, <3>8
  <2>8. /\ n \in Rec /\ n.hero = m.hero /\ n.wrong = m.wrong /\ n.obj[o] = NoObj /\ n.obj[t] = thing
        /\ \A c \in Objects : c \notin {o, t} => n.obj[c] = m.obj[c]
        /\ n.shk.bill = bill /\ n.shk.at = m.shk.at /\ n.shk.bill_p = m.shk.bill_p
        /\ n.shk.surcharge = m.shk.surcharge /\ n.shk.billsz = m.shk.billsz
        /\ n.shk.loan = m.shk.loan /\ n.shk.debit = m.shk.debit
    <3>a. PICK k : k = [m.shk EXCEPT !.bill = bill]
      OBVIOUS
    <3>b. PICK z : z = [more EXCEPT !.shk = k]
      OBVIOUS
    <3>1. /\ k \in Keeper /\ k.bill = bill /\ k.at = m.shk.at /\ k.bill_p = m.shk.bill_p
          /\ k.surcharge = m.shk.surcharge /\ k.billsz = m.shk.billsz /\ k.loan = m.shk.loan /\ k.debit = m.shk.debit
      BY <1>0, <2>6, <3>a DEF Keeper
    <3>2. z \in Rec /\ z.shk = k /\ z.obj = more.obj /\ z.hero = m.hero /\ z.wrong = m.wrong
      BY <1>3, <3>1, <3>b DEF Rec
    <3>3. n = Freed(z, {o})
      BY <1>3, <2>7, <3>a, <3>b
    <3>4. /\ n \in Rec /\ n.hero = m.hero /\ n.wrong = m.wrong /\ n.shk = k /\ n.obj[o] = NoObj
          /\ n.obj[t] = thing /\ \A c \in Objects : c \notin {o, t} => n.obj[c] = m.obj[c]
      BY <1>1, <1>3, <3>2, <3>3 DEF Freed, Rec, NoObj, Obj
    <3> QED
      BY <3>1, <3>4
  <2>9. BillRight(n.shk) /\ m.shk.bill # {}
    BY <1>0, <2>2, <2>4, <2>6, <2>8 DEF BillRight, Keeper
  <2>10. Fits(n.obj[t], Lines(n.shk.bill, t), GetCost(m))
    <3>1. f.bquan >= thing.quan
      BY <1>0, <1>2, <2>2, <2>3 DEF Bill, Obj
    <3>2. /\ f.price = GetCost(m) /\ (f.useup <=> thing.where = "bill") /\ thing.where # "none"
          /\ (thing.unpaid \/ f.useup)
      BY <1>2, <2>1, <2>2, <2>3
    <3>3. Fits(thing, {f}, GetCost(m))
      BY <1>2, <2>3, <3>1, <3>2, FitsOne
    <3> QED
      BY <2>6, <2>8, <3>3
  <2>11. Fits(n.obj[o], Lines(n.shk.bill, o), GetCost(m)) /\ n.obj[o].where = "none"
    <3>1. Lines(n.shk.bill, o) = {}
      BY <1>1, <2>4, <2>6, <2>8
    <3> QED
      BY <2>8, <3>1 DEF Fits, NoObj
  <2>12. \A c \in Objects : c \notin {o, t} => n.obj[c] = m.obj[c] /\ Lines(n.shk.bill, c) = Lines(m.shk.bill, c)
    BY <2>4, <2>6, <2>8
  <2>13. Lands(m, n, o)
    BY <1>1, <1>2, <2>8, <2>9, <2>10, <2>11, <2>12, Rewritten
  <2> QED
    BY <1>a, <2>13
<1> QED
  BY <1>6, <1>7

LEMMA PutDownLands ==
  ASSUME NEW m, Sound(m), NEW o \in Objects, m.obj[o].where \notin {"none", "bill"},
         NEW w \in Floor \cup {"inv", "bag"},
         o = Bag => w # "bag", w = "bag" => m.obj[Bag].where # "none",
         NEW n \in PutDown(m, o, w)
  PROVE  Lands(m, n, o)
<1>1. CASE n = Put(m, o, w)
  <2>1. w \in Floor \cup {"inv", "bag", "mon"} /\ w # "mon"
    BY DEF Floor
  <2>2. Lands(m, Put(m, o, w), o)
    BY <2>1, PutLands
  <2> QED
    BY <1>1, <2>2
<1>2. ASSUME NEW t \in Mates(m, o, w), n = Merged(m, t, o) PROVE Lands(m, n, o)
  <2>1. t \in Objects /\ Mergable(m, t, o) /\ m.obj[t].where \notin {"none", "bill"}
    BY DEF Mates, Floor
  <2>2. Lands(m, Merged(m, t, o), o)
    BY <2>1, MergedLands
  <2> QED
    BY <1>2, <2>2
<1> QED
  BY <1>1, <1>2 DEF PutDown

LEMMA PutMergedLands ==
  ASSUME NEW m, Sound(m), NEW o \in Objects, m.obj[o].where \notin {"none", "bill"},
         NEW w \in Floor \cup {"inv", "bag"},
         o = Bag => w # "bag", w = "bag" => m.obj[Bag].where # "none"
  PROVE  Lands(m, PutMerged(m, o, w), o)
<1>1. Mates(m, o, w) \in SUBSET Nat
  BY ShopAssumption DEF Mates, Objects
<1>2. Mates(m, o, w) # {} => Min(Mates(m, o, w)) \in Mates(m, o, w)
  BY <1>1, LeastOf
<1>3. PutMerged(m, o, w) \in PutDown(m, o, w)
  BY <1>2 DEF PutMerged, PutDown
<1> QED
  BY <1>3, PutDownLands

LEMMA AddInvLands ==
  ASSUME NEW m, Sound(m), NEW o \in Objects, m.obj[o].where \notin {"none", "bill"}
  PROVE  Lands(m, AddInv(m, o), o)
<1>a. PICK n : n = AddInv(m, o)
  OBVIOUS
<1>b. PICK c : c = Charged(m, {o} \cup Within(m, o))
  OBVIOUS
<1>1. /\ Sound(c) /\ c.hero = m.hero /\ c.shk = m.shk /\ c.wrong = m.wrong
      /\ \A x \in Objects : c.obj[x].where = m.obj[x].where
  <2>1. m \in Rec
    BY DEF Sound
  <2>2. c.hero = m.hero /\ \A x \in Objects : c.obj[x] \in {m.obj[x], [m.obj[x] EXCEPT !.no_charge = FALSE]}
    BY <1>b, <2>1 DEF Charged, Rec
  <2>3. ASSUME NEW x \in Objects PROVE c.obj[x].where = m.obj[x].where
    BY <2>1, <2>2 DEF Rec, Obj
  <2>4. Calm(m, c) /\ c.shk = m.shk /\ c.wrong = m.wrong
    BY <1>b, ChargedCalm
  <2> QED
    BY <2>2, <2>3, <2>4 DEF Calm
<1>2. c.obj[o].where \notin {"none", "bill"}
  BY <1>1
<1>3. n = Put(c, o, "inv") \/ n = PutMerged(c, o, "inv")
  BY <1>a, <1>b DEF AddInv
<1>4. Lands(c, Put(c, o, "inv"), o) /\ Lands(c, PutMerged(c, o, "inv"), o)
  <2>1. "inv" \in Floor \cup {"inv", "bag", "mon"} /\ "inv" \in Floor \cup {"inv", "bag"}
    OBVIOUS
  <2> QED
    BY <1>1, <1>2, <2>1, PutLands, PutMergedLands
<1>5. Lands(c, n, o)
  BY <1>3, <1>4
<1>6. Lands(m, n, o)
  BY <1>1, <1>5 DEF Lands
<1> QED
  BY <1>a, <1>6

(* n is m after splitobj(): p has what was split off o, if anything was.   *)
Splits(m, n, o, p) ==
  /\ Sound(n) /\ n.hero = m.hero /\ n.shk.at = m.shk.at /\ n.shk.bill_p = m.shk.bill_p
  /\ m.wrong \subseteq n.wrong /\ n.wrong \subseteq m.wrong \cup {"no room"}
  /\ m.shk.bill = {} => n.shk.bill = {}
  /\ p \in Objects /\ n.obj[p].where = m.obj[o].where /\ (p = Bag <=> o = Bag)
  /\ n.obj[Bag] = m.obj[Bag]
  /\ \A c \in Objects : \/ n.obj[c].where = m.obj[c].where
                        \/ m.obj[c].where = "none" /\ n.obj[c].where = m.obj[o].where

LEMMA SplitObjSplits ==
  ASSUME NEW m, Sound(m), NEW o \in Objects, m.obj[o].where \notin {"none", "bill"},
         NEW n \in 1 .. m.obj[o].quan, m.obj[o].unpaid => Tended(m) /\ m.hero.ushops
  PROVE  Splits(m, SplitObj(m, o, n), o, Piece(m, o, n))
<1>a. PICK k : k = SplitObj(m, o, n)
  OBVIOUS
<1>b. PICK p : p = Piece(m, o, n)
  OBVIOUS
<1>0. /\ m \in Rec /\ BillRight(m.shk) /\ m.shk \in Keeper /\ m.shk.bill \in SUBSET Bill /\ BagRight(m.obj)
      /\ m.obj[o] \in Obj /\ m.obj \in [Objects -> Obj] /\ Bag \in Objects /\ m.obj[o].quan \in Nat
      /\ n \in Nat /\ 1 <= n /\ n <= m.obj[o].quan
  <2>1. /\ m \in Rec /\ BillRight(m.shk) /\ m.shk \in Keeper /\ m.shk.bill \in SUBSET Bill /\ BagRight(m.obj)
        /\ m.obj[o] \in Obj /\ m.obj \in [Objects -> Obj] /\ Bag \in Objects
    BY ShopAssumption DEF Sound, Rec, Keeper, Bag, Objects
  <2>2. m.obj[o].quan \in Nat
    BY <2>1 DEF Obj
  <2> QED
    BY <2>1, <2>2
<1>1. CASE n = m.obj[o].quan
  <2>1. k = m /\ p = o
    BY <1>a, <1>b, <1>1 DEF SplitObj, Piece
  <2> QED
    BY <1>a, <1>b, <2>1 DEF Splits
<1>2. CASE n # m.obj[o].quan /\ Unused(m) = {}
  <2>1. k = Complain(m, "no room") /\ p = o
    BY <1>a, <1>b, <1>2 DEF SplitObj, Piece
  <2>2. "no room" \in Words
    BY DEF Words
  <2>3. Sound(k) /\ k.obj = m.obj /\ k.shk = m.shk /\ k.hero = m.hero /\ k.wrong = m.wrong \cup {"no room"}
    BY <2>1, <2>2, ComplainSound, Zenon
  <2> QED
    BY <1>a, <1>b, <2>1, <2>3 DEF Splits
<1>3. CASE n # m.obj[o].quan /\ Unused(m) # {}
  <2>a. PICK thing : thing = [m.obj[o] EXCEPT !.quan = @ - n]
    OBVIOUS
  <2>b. PICK piece : piece = [m.obj[o] EXCEPT !.quan = n]
    OBVIOUS
  <2>c. PICK apart : apart = [m EXCEPT !.obj[p] = piece, !.obj[o] = thing]
    OBVIOUS
  <2>0. p = NewObj(m) /\ p \in Ids /\ p \in Objects /\ p # Bag /\ m.obj[p].where = "none" /\ p # o /\ o # Bag
    <3>1. p = NewObj(m)
      BY <1>b, <1>3 DEF Piece
    <3>2. o # Bag
      BY <1>0, <1>3 DEF BagRight
    <3> QED
      BY <1>0, <1>3, <3>1, <3>2, NewObjFree
  <2>1. /\ thing \in Obj /\ thing.quan = m.obj[o].quan - n /\ thing.quan # 0
        /\ thing.where = m.obj[o].where /\ thing.unpaid = m.obj[o].unpaid
        /\ piece \in Obj /\ piece.quan = n /\ n # 0
        /\ piece.where = m.obj[o].where /\ piece.unpaid = m.obj[o].unpaid
    <3>a. PICK q : q = m.obj[o].quan - n
      OBVIOUS
    <3>1. q \in Nat /\ q # 0 /\ n # 0
      BY <1>0, <1>3, <3>a
    <3>2. thing = [m.obj[o] EXCEPT !.quan = q]
      BY <2>a, <3>a
    <3>3. /\ thing \in Obj /\ thing.quan = q /\ thing.where = m.obj[o].where /\ thing.unpaid = m.obj[o].unpaid
      BY <1>0, <3>1, <3>2 DEF Obj
    <3>4. /\ piece \in Obj /\ piece.quan = n /\ piece.where = m.obj[o].where /\ piece.unpaid = m.obj[o].unpaid
      BY <1>0, <2>b DEF Obj
    <3> QED
      BY <3>1, <3>3, <3>4, <3>a
  <2>2. /\ apart \in Rec /\ apart.shk = m.shk /\ apart.hero = m.hero /\ apart.wrong = m.wrong
        /\ apart.obj[o] = thing /\ apart.obj[p] = piece
        /\ \A c \in Objects : c \notin {o, p} => apart.obj[c] = m.obj[c]
    BY <1>0, <2>0, <2>1, <2>c DEF Rec
  <2>3. k = IF m.obj[o].unpaid THEN SplitBill(apart, o, p) ELSE apart
    <3>1. [MakeObj(m, o, p, n) EXCEPT !.obj[o].quan = @ - n] = apart
      <4>1. MakeObj(m, o, p, n) = [m EXCEPT !.obj[p] = piece]
        BY <2>b DEF MakeObj
      <4>a. PICK x : x = [m EXCEPT !.obj[p] = piece]
        OBVIOUS
      <4>2. x.obj[o] = m.obj[o] /\ x \in Rec
        BY <1>0, <2>0, <2>1, <4>a DEF Rec
      <4>3. [x EXCEPT !.obj[o].quan = @ - n] = [x EXCEPT !.obj[o] = thing]
        BY <4>2, <2>a
      <4>4. [x EXCEPT !.obj[o] = thing] = apart
        BY <1>0, <2>0, <2>1, <2>c, <4>a DEF Rec
      <4> QED
        BY <4>1, <4>a, <4>3, <4>4
    <3> QED
      BY <1>a, <1>3, <2>0, <3>1 DEF SplitObj
  <2>4. ASSUME NEW things, things = [m.obj EXCEPT ![p] = things[p], ![o] = thing],
               things[p] \in Obj, things[p].where = m.obj[o].where
        PROVE  /\ BagRight(things) /\ things[Bag] = m.obj[Bag]
               /\ \A c \in Objects : \/ things[c].where = m.obj[c].where
                                     \/ m.obj[c].where = "none" /\ things[c].where = m.obj[o].where
    <3>1. \A c \in Objects : c \notin {o, p} => things[c] = m.obj[c]
      BY <1>0, <2>4
    <3>2. things[o] = thing
      BY <1>0, <2>0, <2>4
    <3>3. \A c \in Objects : \/ things[c].where = m.obj[c].where
                             \/ m.obj[c].where = "none" /\ things[c].where = m.obj[o].where
      BY <2>0, <2>1, <2>4, <3>1, <3>2
    <3>4. things[Bag] = m.obj[Bag]
      BY <1>0, <2>0, <3>1
    <3> QED
      BY <1>0, <3>3, <3>4 DEF BagRight
  <2>5. apart.obj = [m.obj EXCEPT ![p] = apart.obj[p], ![o] = thing]
    BY <1>0, <2>1, <2>2 DEF Rec
  <2>6. /\ BagRight(apart.obj) /\ apart.obj[Bag] = m.obj[Bag]
        /\ \A c \in Objects : \/ apart.obj[c].where = m.obj[c].where
                              \/ m.obj[c].where = "none" /\ apart.obj[c].where = m.obj[o].where
    BY <2>1, <2>2, <2>4, <2>5
  <2>7. Lines(m.shk.bill, p) = {} /\ ~m.obj[p].unpaid
    BY <1>0, <2>0 DEF Sound, Fits
  <2>8. CASE ~m.obj[o].unpaid
    <3>1. k = apart
      BY <2>3, <2>8
    <3>2. Lines(m.shk.bill, o) = {}
      BY <2>8, NotBilled
    <3>3. Fits(thing, {}, GetCost(m)) /\ Fits(piece, {}, GetCost(m))
      BY <2>1, <2>8, FitsNone
    <3>4. \A c \in Objects : \/ k.obj[c] = m.obj[c] /\ Lines(k.shk.bill, c) = Lines(m.shk.bill, c)
                             \/ Fits(k.obj[c], Lines(k.shk.bill, c), GetCost(m))
      BY <2>2, <2>7, <3>1, <3>2, <3>3
    <3>5. Sound(k)
      BY <1>0, <2>2, <2>6, <3>1, <3>4, SoundLined
    <3>6. Splits(m, k, o, p)
      BY <2>0, <2>1, <2>2, <2>6, <3>1, <3>5 DEF Splits
    <3> QED
      BY <1>a, <1>b, <3>6
  <2>9. CASE m.obj[o].unpaid
    <3>a. PICK e : e = Entry(m, o)
      OBVIOUS
    <3>b. PICK f : f = [e EXCEPT !.bquan = @ - n]
      OBVIOUS
    <3>c. PICK g : g = [e EXCEPT !.bo_id = p, !.bquan = n, !.useup = FALSE]
      OBVIOUS
    <3>d. PICK bill : bill = Swapped(m.shk.bill, e, f)
      OBVIOUS
    <3>e. PICK more : more = bill \cup {g}
      OBVIOUS
    <3>1. Billed(m, o)
      BY <2>9, NotBilled
    <3>2. /\ e \in m.shk.bill /\ e \in Bill /\ e.bo_id = o /\ Lines(m.shk.bill, o) = {e}
          /\ e.price = GetCost(m) /\ e.bquan >= m.obj[o].quan /\ e.bquan \in Nat /\ ~e.useup
      BY <3>1, <3>a, TheEntry DEF Bill
    <3>3. /\ f \in Bill /\ f.bo_id = o /\ f.price = GetCost(m) /\ f.bquan >= thing.quan /\ ~f.useup
          /\ g \in Bill /\ g.bo_id = p /\ g.price = GetCost(m) /\ g.bquan = n /\ ~g.useup
      <4>1. e.bquan - n \in Nat \ {0} /\ e.bquan - n >= m.obj[o].quan - n
        BY <1>0, <1>3, <3>2
      <4>2. f \in Bill /\ f.bo_id = o /\ f.price = GetCost(m) /\ f.bquan = e.bquan - n /\ f.useup = e.useup
        BY <3>2, <3>b, <4>1 DEF Bill
      <4>3. g \in Bill /\ g.bo_id = p /\ g.price = GetCost(m) /\ g.bquan = n /\ g.useup = FALSE
        <5>1. p \in Objects /\ n \in Nat \ {0} /\ FALSE \in BOOLEAN
          BY <1>0, <2>0
        <5> QED
          BY <5>1, <3>2, <3>c DEF Bill
      <4> QED
        BY <2>1, <3>2, <4>1, <4>2, <4>3
    <3>4. /\ bill \in SUBSET Bill /\ IsFiniteSet(bill) /\ Cardinality(bill) <= Cardinality(m.shk.bill)
          /\ Cardinality(m.shk.bill) \in Nat /\ Cardinality(bill) \in Nat /\ m.shk.bill # {}
          /\ Lines(bill, o) = {f} /\ \A c : c # o => Lines(bill, c) = Lines(m.shk.bill, c)
      BY <3>2, <3>3, <3>d, LineSwapped
    <3>5. /\ more \in SUBSET Bill /\ IsFiniteSet(more) /\ Cardinality(more) <= Cardinality(bill) + 1
          /\ Cardinality(more) \in Nat
          /\ Lines(more, p) = {g} /\ \A c : c # p => Lines(more, c) = Lines(bill, c)
      <4>1. Lines(bill, p) = {}
        BY <2>0, <2>7, <3>4
      <4>2. LET l == bill \cup {g} IN
            /\ l \in SUBSET Bill /\ IsFiniteSet(l) /\ Cardinality(l) <= Cardinality(bill) + 1
            /\ Cardinality(bill) \in Nat /\ Cardinality(l) \in Nat
            /\ Lines(l, g.bo_id) = Lines(bill, g.bo_id) \cup {g}
            /\ \A c : c # g.bo_id => Lines(l, c) = Lines(bill, c)
        BY <3>3, <3>4, LineAdded
      <4> QED
        BY <3>3, <3>e, <4>1, <4>2
    <3>6. Fits(thing, {f}, GetCost(m)) /\ Fits(piece, {g}, GetCost(m))
      <4>1. /\ f.useup <=> thing.where = "bill"
            /\ thing.where # "none" /\ thing.unpaid
            /\ g.useup <=> piece.where = "bill"
            /\ piece.where # "none" /\ g.bquan >= piece.quan /\ piece.unpaid /\ piece.quan # 0
        BY <1>0, <2>1, <2>9, <3>3
      <4> QED
        BY <2>1, <3>3, <4>1, FitsOne
    <3>f. PICK less : less = [apart EXCEPT !.shk.bill = bill]
      OBVIOUS
    <3>7. k = IF BillFull(m) THEN [less EXCEPT !.obj[p].unpaid = FALSE]
                             ELSE [less EXCEPT !.shk.bill = @ \cup {g}]
      <4>1. /\ apart.hero.ushops /\ Tended(apart) /\ Billed(apart, o) /\ Entry(apart, o) = e
            /\ apart.obj[p].quan = n /\ (BillFull(apart) <=> BillFull(m))
        BY <2>1, <2>2, <2>9, <3>1, <3>a DEF Tended, Billed, Entry, BillFull
      <4>2. ~(e.bquan <= n)
        BY <1>0, <1>3, <3>2
      <4>3. less = Rebilled(apart, o, f)
        BY <2>2, <3>a, <3>d, <3>f, <4>1 DEF Rebilled, Swapped
      <4>4. k = SplitBill(apart, o, p)
        BY <2>3, <2>9
      <4>5. less = Rebilled(apart, o, [e EXCEPT !.bquan = @ - apart.obj[p].quan])
        BY <3>b, <4>1, <4>3
      <4>6. k = IF BillFull(apart) THEN [less EXCEPT !.obj[p].unpaid = FALSE]
                ELSE [less EXCEPT !.shk.bill = @ \cup {[e EXCEPT !.bo_id = p, !.bquan = n, !.useup = FALSE]}]
        BY <4>1, <4>2, <4>4, <4>5 DEF SplitBill
      <4> QED
        BY <3>c, <4>1, <4>6
    <3>8. /\ less \in Rec /\ less.hero = m.hero /\ less.wrong = m.wrong /\ less.obj = apart.obj
          /\ less.shk \in Keeper /\ less.shk.bill = bill /\ less.shk.at = m.shk.at
          /\ less.shk.bill_p = m.shk.bill_p
          /\ less.shk.surcharge = m.shk.surcharge /\ less.shk.billsz = m.shk.billsz
          /\ less.shk.loan = m.shk.loan /\ less.shk.debit = m.shk.debit
      BY <1>0, <2>2, <3>4, <3>f DEF Rec, Keeper
    <3>9. CASE BillFull(m)
      <4>a. PICK free : free = [piece EXCEPT !.unpaid = FALSE]
        OBVIOUS
      <4>1. free \in Obj /\ free.where = piece.where /\ free.quan = piece.quan /\ ~free.unpaid
        BY <2>1, <4>a DEF Obj
      <4>2. /\ k \in Rec /\ k.hero = m.hero /\ k.wrong = m.wrong /\ k.shk = less.shk
            /\ k.obj[p] = free /\ k.obj[o] = thing
            /\ \A c \in Objects : c \notin {o, p} => k.obj[c] = m.obj[c]
        <5>1. k = [less EXCEPT !.obj[p].unpaid = FALSE]
          BY <3>7, <3>9
        <5>2. k = [less EXCEPT !.obj[p] = free]
          BY <2>2, <3>8, <4>a, <5>1
        <5> QED
          BY <2>0, <2>2, <3>8, <4>1, <5>2 DEF Rec
      <4>3. k.obj = [m.obj EXCEPT ![p] = k.obj[p], ![o] = thing]
        BY <1>0, <2>1, <4>1, <4>2 DEF Rec
      <4>4. /\ BagRight(k.obj) /\ k.obj[Bag] = m.obj[Bag]
            /\ \A c \in Objects : \/ k.obj[c].where = m.obj[c].where
                                  \/ m.obj[c].where = "none" /\ k.obj[c].where = m.obj[o].where
        BY <2>1, <2>4, <4>1, <4>2, <4>3
      <4>5. BillRight(k.shk)
        BY <1>0, <3>4, <3>8, <4>2 DEF BillRight, Keeper
      <4>6. Fits(free, {}, GetCost(m))
        BY <1>0, <2>1, <4>1, FitsNone
      <4>7. \A c \in Objects : \/ k.obj[c] = m.obj[c] /\ Lines(k.shk.bill, c) = Lines(m.shk.bill, c)
                               \/ Fits(k.obj[c], Lines(k.shk.bill, c), GetCost(m))
        BY <2>0, <2>7, <3>4, <3>6, <3>8, <4>2, <4>6
      <4>8. Sound(k)
        BY <3>8, <4>2, <4>4, <4>5, <4>7, SoundLined
      <4>9. Splits(m, k, o, p)
        BY <2>0, <2>1, <3>4, <3>8, <4>1, <4>2, <4>4, <4>8 DEF Splits
      <4> QED
        BY <1>a, <1>b, <4>9
    <3>10. CASE ~BillFull(m)
      <4>1. k = [less EXCEPT !.shk.bill = more]
        BY <3>7, <3>8, <3>10, <3>e
      <4>2. /\ k \in Rec /\ k.hero = m.hero /\ k.wrong = m.wrong /\ k.obj = apart.obj
            /\ k.shk \in Keeper /\ k.shk.bill = more /\ k.shk.at = m.shk.at
            /\ k.shk.bill_p = m.shk.bill_p
            /\ k.shk.surcharge = m.shk.surcharge /\ k.shk.billsz = m.shk.billsz
            /\ k.shk.loan = m.shk.loan /\ k.shk.debit = m.shk.debit
        BY <3>5, <3>8, <4>1 DEF Rec, Keeper
      <4>3. BillRight(k.shk)
        BY <1>0, <3>4, <3>5, <3>10, <4>2 DEF BillRight, Keeper, BillFull
      <4>4. \A c \in Objects : \/ k.obj[c] = m.obj[c] /\ Lines(k.shk.bill, c) = Lines(m.shk.bill, c)
                               \/ Fits(k.obj[c], Lines(k.shk.bill, c), GetCost(m))
        BY <2>0, <2>2, <3>4, <3>5, <3>6, <4>2
      <4>5. Sound(k)
        BY <2>6, <4>2, <4>3, <4>4, SoundLined
      <4>6. Splits(m, k, o, p)
        <5>1. /\ k.obj[p].where = m.obj[o].where /\ k.obj[Bag] = m.obj[Bag]
              /\ \A c \in Objects : \/ k.obj[c].where = m.obj[c].where
                                    \/ m.obj[c].where = "none" /\ k.obj[c].where = m.obj[o].where
          BY <2>1, <2>2, <2>6, <4>2
        <5>2. m.shk.bill # {} /\ (p = Bag <=> o = Bag)
          BY <2>0, <3>4
        <5> QED
          BY <2>0, <4>2, <4>5, <5>1, <5>2 DEF Splits
      <4> QED
        BY <1>a, <1>b, <4>6
    <3> QED
      BY <3>9, <3>10
  <2> QED
    BY <2>8, <2>9
<1> QED
  BY <1>1, <1>2, <1>3

----------------------------------------------------------------------------
(* Thefts and sales.                                                       *)

LEMMA RobbedCalm ==
  ASSUME NEW m, Sound(m), NEW n \in Nat
  PROVE  Calm(m, Robbed(m, n)) /\ Calm(m, Indebted(m, n)) /\ Calm(m, CreditFor(m, n))
<1>0. m \in Rec /\ m.shk \in Keeper /\ m.shk.loan <= m.shk.debit
  BY DEF Sound, Rec, BillRight
<1>1. Calm(m, Robbed(m, n))
  <2>a. PICK k : k = Robbed(m, n)
    OBVIOUS
  <2>b. PICK x : x = m.shk.robbed + n
    OBVIOUS
  <2>1. k = [m EXCEPT !.shk.robbed = x] /\ x \in Nat
    BY <1>0, <2>a, <2>b DEF Robbed, Keeper
  <2>2. /\ k \in Rec /\ k.obj = m.obj /\ k.hero = m.hero /\ k.wrong = m.wrong
        /\ k.shk.at = m.shk.at /\ k.shk.bill_p = m.shk.bill_p /\ k.shk.bill = m.shk.bill
        /\ k.shk.billsz = m.shk.billsz /\ k.shk.surcharge = m.shk.surcharge
        /\ k.shk.loan = m.shk.loan /\ k.shk.debit = m.shk.debit
    BY <1>0, <2>1 DEF Rec, Keeper
  <2>3. Calm(m, k)
    BY <1>0, <2>2, Booked
  <2> QED
    BY <2>a, <2>3
<1>2. Calm(m, Indebted(m, n))
  <2>a. PICK k : k = Indebted(m, n)
    OBVIOUS
  <2>b. PICK x : x = m.shk.debit + n
    OBVIOUS
  <2>1. k = [m EXCEPT !.shk.debit = x] /\ x \in Nat /\ m.shk.loan <= x
    BY <1>0, <2>a, <2>b DEF Indebted, Keeper
  <2>2. /\ k \in Rec /\ k.obj = m.obj /\ k.hero = m.hero /\ k.wrong = m.wrong
        /\ k.shk.at = m.shk.at /\ k.shk.bill_p = m.shk.bill_p /\ k.shk.bill = m.shk.bill
        /\ k.shk.billsz = m.shk.billsz /\ k.shk.surcharge = m.shk.surcharge
        /\ k.shk.loan = m.shk.loan /\ k.shk.debit = x
    BY <1>0, <2>1 DEF Rec, Keeper
  <2>3. Calm(m, k)
    BY <2>1, <2>2, Booked
  <2> QED
    BY <2>a, <2>3
<1>3. Calm(m, CreditFor(m, n))
  <2>a. PICK k : k = CreditFor(m, n)
    OBVIOUS
  <2>b. PICK x : x = m.shk.credit + n
    OBVIOUS
  <2>1. k = [m EXCEPT !.shk.credit = x] /\ x \in Nat
    BY <1>0, <2>a, <2>b DEF CreditFor, Keeper
  <2>2. /\ k \in Rec /\ k.obj = m.obj /\ k.hero = m.hero /\ k.wrong = m.wrong
        /\ k.shk.at = m.shk.at /\ k.shk.bill_p = m.shk.bill_p /\ k.shk.bill = m.shk.bill
        /\ k.shk.billsz = m.shk.billsz /\ k.shk.surcharge = m.shk.surcharge
        /\ k.shk.loan = m.shk.loan /\ k.shk.debit = m.shk.debit
    BY <1>0, <2>1 DEF Rec, Keeper
  <2>3. Calm(m, k)
    BY <1>0, <2>2, Booked
  <2> QED
    BY <2>a, <2>3
<1> QED
  BY <1>1, <1>2, <1>3

LEMMA CashForCalm ==
  ASSUME NEW m, Sound(m), NEW n \in Nat, n <= m.shk.cash
  PROVE  Calm(m, CashFor(m, n))
<1>a. PICK k : k = CashFor(m, n)
  OBVIOUS
<1>b. PICK x : x = m.shk.cash - n
  OBVIOUS
<1>c. PICK y : y = m.hero.gold + n
  OBVIOUS
<1>0. m \in Rec /\ m.shk \in Keeper /\ m.hero \in Hero /\ m.shk.loan <= m.shk.debit
  BY DEF Sound, Rec, BillRight
<1>1. k = [m EXCEPT !.shk.cash = x, !.hero.gold = y] /\ x \in Nat /\ y \in Nat
  BY <1>0, <1>a, <1>b, <1>c DEF CashFor, Keeper, Hero
<1>2. /\ k \in Rec /\ k.obj = m.obj /\ k.wrong = m.wrong
      /\ k.hero.at = m.hero.at /\ k.hero.ushops = m.hero.ushops
      /\ k.shk.at = m.shk.at /\ k.shk.bill_p = m.shk.bill_p /\ k.shk.bill = m.shk.bill
      /\ k.shk.billsz = m.shk.billsz /\ k.shk.surcharge = m.shk.surcharge
      /\ k.shk.loan = m.shk.loan /\ k.shk.debit = m.shk.debit
  BY <1>0, <1>1 DEF Rec, Keeper, Hero
<1>3. Calm(m, k)
  BY <1>0, <1>2, Booked
<1> QED
  BY <1>a, <1>3

LEMMA WorthNat ==
  ASSUME NEW m, Sound(m), NEW o \in Objects, NEW stays
  PROVE  WorthOf(m, o, stays) \in Nat
<1>0. m.obj[o].quan \in Nat /\ GetCost(m) \in Nat
  BY CostType DEF Sound, Rec, Obj
<1>1. Billed(m, o) => BilledFor(m, o) \in Nat
  <2> SUFFICES ASSUME Billed(m, o) PROVE BilledFor(m, o) \in Nat
    OBVIOUS
  <2>1. Entry(m, o).bquan \in Nat /\ Entry(m, o).price \in Nat
    BY TheEntry DEF Bill
  <2> QED
    BY <2>1 DEF BilledFor
<1>2. m.obj[o].quan * GetCost(m) \in Nat
  BY <1>0
<1>a. PICK w : w = WorthOf(m, o, stays)
  OBVIOUS
<1>b. PICK x : x = BilledFor(m, o)
  OBVIOUS
<1>c. PICK y : y = m.obj[o].quan * GetCost(m)
  OBVIOUS
<1>3. (w = x /\ Billed(m, o)) \/ w = y \/ w = 0
  BY <1>a, <1>b, <1>c DEF WorthOf
<1> QED
  BY <1>a, <1>b, <1>c, <1>1, <1>2, <1>3

LEMMA WithinFinite ==
  ASSUME NEW m, NEW o
  PROVE  Within(m, o) \subseteq Objects /\ IsFiniteSet(Within(m, o)) /\ IsFiniteSet(Objects)
<1>1. Within(m, o) \subseteq Objects
  BY DEF Within, Contents
<1>2. IsFiniteSet(Objects)
  BY ShopAssumption, FS_Interval DEF Objects
<1> QED
  BY <1>1, <1>2, FS_Subset

LEMMA StolenValueCalm ==
  ASSUME NEW m, Sound(m), NEW o \in Objects, m.obj[o].where \notin {"none", "bill"}, NEW peaceful \in BOOLEAN
  PROVE  Calm(m, StolenValue(m, o, peaceful))
<1>a. PICK n : n = StolenValue(m, o, peaceful)
  OBVIOUS
<1> DEFINE carried == TopWhere(m, o) \in {"inv", "loose"}
           f == [c \in Within(m, o) |-> WorthOf(m, c, IF carried THEN m.obj[c].unpaid ELSE ~m.obj[c].no_charge)]
           top == WorthOf(m, o, ~m.obj[o].no_charge)
<1>b. PICK value : value = top + SumFunction(f)
  OBVIOUS
<1>c. PICK s : s = Charged(m, Within(m, o))
  OBVIOUS
<1>d. PICK off : off = SubFromBill(s, o)
  OBVIOUS
<1>e. PICK owed : owed = AfterCredit(m, value)
  OBVIOUS
<1>f. PICK c : c = CheckCredit(off, value)
  OBVIOUS
<1>1. \/ n = Charged(m, {o})
      \/ n = HotPursuit(Robbed(off, value))
      \/ n = Robbed(c, owed)
      \/ n = Indebted(c, owed)
  BY <1>a, <1>b, <1>c, <1>d, <1>e, <1>f DEF StolenValue
<1>2. value \in Nat
  <2>1. f \in [Within(m, o) -> Nat]
    BY WorthNat, WithinFinite
  <2>2. top \in Nat
    BY WorthNat
  <2> HIDE DEF f, top
  <2>3. SumFunction(f) \in Nat
    BY <2>1, WithinFinite, SumNat
  <2> QED
    BY <1>b, <2>2, <2>3
<1>3. owed \in Nat
  BY <1>2, <1>e, CreditUsed
<1>4. Calm(m, s) /\ Sound(s) /\ s.obj[o].where \notin {"none", "bill"}
  <2>1. Calm(m, s)
    BY <1>c, ChargedCalm
  <2> QED
    BY <2>1 DEF Calm
<1>5. Calm(m, off) /\ Sound(off)
  <2>1. Calm(s, off)
    BY <1>4, <1>d, SubFromBillCalm
  <2>2. Calm(m, off)
    BY <1>4, <2>1, CalmTrans
  <2> QED
    BY <2>2 DEF Calm
<1>6. Calm(m, c) /\ Sound(c)
  <2>1. Calm(off, c)
    BY <1>2, <1>5, <1>f, CheckCreditCalm
  <2> QED
    BY <1>5, <2>1, CalmTrans DEF Calm
<1>7. Calm(m, HotPursuit(Robbed(off, value)))
  <2>a. PICK r : r = Robbed(off, value)
    OBVIOUS
  <2>1. Calm(off, r)
    BY <1>2, <1>5, <2>a, RobbedCalm
  <2>2. Calm(r, HotPursuit(r))
    BY <2>1, HotPursuitCalm DEF Calm
  <2> QED
    BY <1>5, <2>a, <2>1, <2>2, CalmTrans
<1>8. Calm(m, Robbed(c, owed)) /\ Calm(m, Indebted(c, owed))
  <2>1. Calm(c, Robbed(c, owed)) /\ Calm(c, Indebted(c, owed))
    BY <1>3, <1>6, RobbedCalm
  <2> QED
    BY <1>6, <2>1, CalmTrans
<1>9. Calm(m, Charged(m, {o}))
  BY ChargedCalm
<1> QED
  BY <1>a, <1>1, <1>7, <1>8, <1>9

(* set_cost() offers at least a unit of gold.                              *)
LEMMA SetCostNat ==
  ASSUME NEW n \in Nat
  PROVE  SetCost(n) \in Nat
<1>a. PICK x : x = n * Price * 10
  OBVIOUS
<1>1. x \in Nat
  BY <1>a, ShopAssumption
<1>b. PICK y : y = (x \div 2 + 5) \div 10
  OBVIOUS
<1>2. y \in Nat
  BY <1>1, <1>b
<1> DEFINE k == IF y > 1 THEN y ELSE 1
<1>3. k \in {1, y} /\ \A z \in {1, y} : k >= z
  BY <1>2
<1>4. \A z \in {1, y} : (\A u \in {1, y} : z >= u) => z = k
  BY <1>2
<1>5. k \in Nat
  BY <1>2
<1> HIDE DEF k
<1>6. Max({1, y}) = k
  BY <1>3, <1>4 DEF Max
<1> QED
  BY <1>5, <1>6, <1>a, <1>b DEF SetCost

LEMMA UnsoldCalm ==
  ASSUME NEW m, Sound(m), NEW o \in Objects
  PROVE  Calm(m, Unsold(m, o))
<1>a. PICK n : n = Unsold(m, o)
  OBVIOUS
<1>b. PICK thing : thing = [m.obj[o] EXCEPT !.no_charge = TRUE]
  OBVIOUS
<1>0. m \in Rec /\ m.obj[o] \in Obj
  BY DEF Sound, Rec
<1>1. thing \in Obj /\ thing.where = m.obj[o].where /\ thing.quan = m.obj[o].quan /\ thing.unpaid = m.obj[o].unpaid
  BY <1>0, <1>b DEF Obj
<1>2. n = [m EXCEPT !.obj[o] = thing]
  BY <1>a, <1>b DEF Unsold
<1>3. /\ n \in Rec /\ n.shk = m.shk /\ n.hero = m.hero /\ n.wrong = m.wrong /\ n.obj[o] = thing
      /\ \A c \in Objects : c # o => n.obj[c] = m.obj[c]
  BY <1>0, <1>1, <1>2 DEF Rec
<1>4. Calm(m, n)
  BY <1>1, <1>3, Marked
<1> QED
  BY <1>a, <1>4

LEMMA SellObjCalm ==
  ASSUME NEW m0, Sound(m0), NEW o \in Objects, m0.obj[o].where \notin {"none", "bill"}, NEW keep, NEW yes
  PROVE  Calm(m0, SellObj(m0, o, keep, yes))
<1>a. PICK n : n = SellObj(m0, o, keep, yes)
  OBVIOUS
<1>b. PICK m : m = ShopKeeper(m0)
  OBVIOUS
<1>c. PICK all : all = {o} \cup Within(m, o)
  OBVIOUS
<1> DEFINE own == {c \in all : ~m.obj[c].unpaid}
           f == [c \in own |-> SetCost(m.obj[c].quan)]
<1>d. PICK offer : offer = SumFunction(f)
  OBVIOUS
<1>e. PICK keeps : keeps = Keeps(m, all)
  OBVIOUS
<1>f. PICK kept : kept = SubFromBill(keeps, o)
  OBVIOUS
<1>g. PICK sold : sold = SubFromBill(m, o)
  OBVIOUS
<1>h. PICK credit : credit = (offer * 9) \div 10 + (IF offer <= 1 THEN 1 ELSE 0)
  OBVIOUS
<1>i. PICK price : price = Min({offer, m.shk.cash})
  OBVIOUS
<1>1. \/ n = SubOne(m, o) \/ n = sold \/ n = kept \/ n = keeps \/ n = Unsold(keeps, o)
      \/ n = CreditFor(sold, credit) \/ n = CashFor(sold, price)
  <2> DEFINE p == m.obj[o].unpaid /\ ~HasContents(m, o)
             q == m.shk.angry
             r == offer = 0 \/ keep
             u == offer > 0 /\ ~keep /\ BillFull(m)
             v == IF IsUnpaid(m, o) THEN kept ELSE keeps
             w == IF ~yes THEN kept ELSE IF m.shk.cash = 0 THEN CreditFor(sold, credit) ELSE CashFor(sold, price)
             x == Unsold(keeps, o)
             y == SubOne(m, o)
  <2>1. n = CASE p -> y [] ~p /\ q -> sold [] ~p /\ ~q /\ r -> v [] ~p /\ ~q /\ u -> x [] OTHER -> w
    BY <1>a, <1>b, <1>c, <1>d, <1>e, <1>f, <1>g, <1>h, <1>i DEF SellObj
  <2>2. v \in {kept, keeps} /\ w \in {kept, CreditFor(sold, credit), CashFor(sold, price)}
    OBVIOUS
  <2> HIDE DEF p, q, r, u, v, w, x, y
  <2>3. n \in {y, sold, v, x, w}
    BY <2>1
  <2> QED
    BY <2>2, <2>3 DEF x, y
<1>2. Calm(m0, m) /\ Sound(m) /\ m.obj[o].where \notin {"none", "bill"}
  BY <1>b, ShopKeeperCalm DEF Calm
<1>3. m \in Rec /\ m.shk \in Keeper /\ m.shk.cash \in Nat
  BY <1>2 DEF Sound, Rec, Keeper
<1>4. offer \in Nat
  <2>1. own \subseteq Objects /\ IsFiniteSet(own)
    <3>1. own \subseteq Objects
      BY <1>c, WithinFinite
    <3> QED
      BY <3>1, WithinFinite, FS_Subset
  <2>2. f \in [own -> Nat]
    <3>1. ASSUME NEW c \in own PROVE SetCost(m.obj[c].quan) \in Nat
      <4>1. m.obj[c].quan \in Nat
        BY <1>3, <2>1 DEF Rec, Obj
      <4> QED
        BY <4>1, SetCostNat
    <3> QED
      BY <3>1
  <2> HIDE DEF own, f
  <2>3. SumFunction(f) \in Nat
    BY <2>1, <2>2, SumNat
  <2> QED
    BY <1>d, <2>3
<1>5. credit \in Nat /\ price \in Nat /\ price <= m.shk.cash
  <2>1. credit \in Nat
    BY <1>4, <1>h
  <2>2. price = IF offer < m.shk.cash THEN offer ELSE m.shk.cash
    BY <1>3, <1>4, <1>i, MinTwo
  <2> QED
    BY <1>3, <1>4, <2>1, <2>2
<1>6. Calm(m, keeps) /\ Sound(keeps) /\ keeps.obj[o].where \notin {"none", "bill"}
  <2>1. Calm(m, keeps)
    BY <1>2, <1>e, KeepsCalm
  <2> QED
    BY <1>2, <2>1 DEF Calm
<1>7. Calm(m, kept)
  BY <1>6, <1>f, SubFromBillCalm, CalmTrans
<1>8. Calm(m, sold) /\ Sheds(m, sold, all)
  BY <1>2, <1>c, <1>g, SubFromBillCalm
<1>9. Sound(sold) /\ sold.shk.cash = m.shk.cash
  <2>a. PICK b : b = sold.shk.bill
    OBVIOUS
  <2>1. sold.shk = [m.shk EXCEPT !.bill = b]
    BY <1>8, <2>a DEF Sheds
  <2> QED
    BY <1>3, <1>8, <2>1 DEF Calm, Keeper
<1>10. Calm(m, SubOne(m, o))
  BY <1>2, SubOneCalm
<1>11. Calm(m, Unsold(keeps, o))
  BY <1>6, UnsoldCalm, CalmTrans
<1>12. Calm(m, CreditFor(sold, credit)) /\ Calm(m, CashFor(sold, price))
  <2>1. Calm(sold, CreditFor(sold, credit)) /\ Calm(sold, CashFor(sold, price))
    BY <1>5, <1>9, RobbedCalm, CashForCalm
  <2> QED
    BY <1>8, <2>1, CalmTrans
<1>13. Calm(m, n)
  BY <1>1, <1>6, <1>7, <1>8, <1>10, <1>11, <1>12
<1> QED
  BY <1>2, <1>13, <1>a, CalmTrans

----------------------------------------------------------------------------
(* Buying what was changed.                                                *)

AddCopy(m, o) == AddOne(m, o, TRUE)
AddCopies(m, S) == AddAll(m, S, TRUE)
BilledCopy(m, o) == Put(Entered(Opened(m), o, TRUE), o, "bill")

(* n is m after complaints, if any, and after the bill was opened.         *)
Heard(m, n) ==
  /\ Sound(n) /\ n.obj = m.obj /\ n.hero = m.hero /\ n.shk.at = m.shk.at
  /\ n.shk.bill = m.shk.bill /\ n.shk.billsz = m.shk.billsz /\ n.shk.surcharge = m.shk.surcharge
  /\ n.shk.bill_p = m.shk.bill_p \/ (m.shk.bill_p = "null" /\ n.shk.bill_p = "ok")
  /\ m.wrong \subseteq n.wrong /\ n.wrong \subseteq m.wrong \cup Fatal

LEMMA HeardTwice ==
  ASSUME NEW m, NEW n, NEW k, Heard(m, n), Heard(n, k)
  PROVE  Heard(m, k)
BY DEF Heard

LEMMA HeardSelf ==
  ASSUME NEW m, Sound(m)
  PROVE  Heard(m, m)
BY DEF Heard

LEMMA OpenedHeard ==
  ASSUME NEW m, Sound(m)
  PROVE  Heard(m, Opened(m))
<1>a. PICK n : n = Opened(m)
  OBVIOUS
<1>b. PICK x : x = n.shk.bill_p
  OBVIOUS
<1>0. m.shk \in Keeper
  BY DEF Sound, Rec
<1>1. /\ Sound(n) /\ n.obj = m.obj /\ n.hero = m.hero /\ n.wrong = m.wrong
      /\ n.shk = [m.shk EXCEPT !.bill_p = x]
      /\ x = IF m.shk.bill_p = "null" THEN "ok" ELSE m.shk.bill_p
  BY <1>a, <1>b, OpenedSound
<1>2. /\ n.shk.at = m.shk.at /\ n.shk.bill = m.shk.bill /\ n.shk.billsz = m.shk.billsz
      /\ n.shk.surcharge = m.shk.surcharge
  BY <1>0, <1>1 DEF Keeper
<1>3. Heard(m, n)
  BY <1>1, <1>2, <1>b DEF Heard
<1> QED
  BY <1>a, <1>3

LEMMA FatalHeard ==
  ASSUME NEW m, Sound(m), NEW what \in Fatal
  PROVE  Heard(m, Complain(m, what))
<1>1. what \in Words
  BY DEF Words, Fatal
<1>a. PICK n : n = Complain(m, what)
  OBVIOUS
<1>2. Sound(n) /\ n.obj = m.obj /\ n.shk = m.shk /\ n.hero = m.hero /\ n.wrong = m.wrong \cup {what}
  BY <1>1, <1>a, ComplainSound
<1>3. Heard(m, n)
  BY <1>2 DEF Heard
<1> QED
  BY <1>a, <1>3

(* Only what is on no chain can be billed as used up.                      *)
LEMMA AddCopyHeard ==
  ASSUME NEW m, Sound(m), NEW o \in Objects, m.obj[o].where \notin {"none", "bill", "loose"}
  PROVE  Heard(m, AddCopy(m, o))
<1>a. PICK n : n = AddCopy(m, o)
  OBVIOUS
<1>b. PICK p : p = Opened(m)
  OBVIOUS
<1>1. \/ n = p
      \/ n = Complain(m, "bill_p")
      \/ n = Complain(p, "add_to_billobjs: obj not free")
  BY <1>a, <1>b, AddDummyCases, Zenon DEF AddCopy
<1>2. Heard(m, p)
  BY <1>b, OpenedHeard
<1>3. Heard(m, Complain(m, "bill_p"))
  <2>1. "bill_p" \in Fatal
    BY DEF Fatal
  <2> QED
    BY <2>1, FatalHeard, Zenon
<1>4. Heard(p, Complain(p, "add_to_billobjs: obj not free"))
  <2>1. "add_to_billobjs: obj not free" \in Fatal /\ Sound(p)
    BY <1>2 DEF Fatal, Heard
  <2> QED
    BY <2>1, FatalHeard, Zenon
<1>5. Heard(m, Complain(p, "add_to_billobjs: obj not free"))
  BY <1>2, <1>4, HeardTwice, Zenon
<1> QED
  BY <1>a, <1>1, <1>2, <1>3, <1>5, Zenon

LEMMA AddCopiesUnfolds ==
  ASSUME NEW m, NEW S
  PROVE  \E f : /\ f[0] = m
                /\ \A n \in 0 .. MaxId - 1 : f[n + 1] = IF n + 1 \in S THEN AddCopy(f[n], n + 1) ELSE f[n]
                /\ AddCopies(m, S) = f[MaxId]
<1>1. \A dummy : \E f :
        /\ f[0] = m
        /\ \A n \in 0 .. MaxId - 1 : f[n + 1] = IF n + 1 \in S THEN AddOne(f[n], n + 1, dummy) ELSE f[n]
        /\ AddAll(m, S, dummy) = f[MaxId]
  BY AddAllUnfolds
<1>2. \E f :
        /\ f[0] = m
        /\ \A n \in 0 .. MaxId - 1 : f[n + 1] = IF n + 1 \in S THEN AddOne(f[n], n + 1, TRUE) ELSE f[n]
        /\ AddAll(m, S, TRUE) = f[MaxId]
  BY <1>1, Zenon
<1> QED
  BY <1>2, Zenon DEF AddCopy, AddCopies

LEMMA AddCopiesHeard ==
  ASSUME NEW m, Sound(m), NEW S \in SUBSET Objects, \A c \in S : m.obj[c].where = "bag"
  PROVE  Heard(m, AddCopies(m, S))
<1>1. PICK f : /\ f[0] = m
               /\ \A n \in 0 .. MaxId - 1 : f[n + 1] = IF n + 1 \in S THEN AddCopy(f[n], n + 1) ELSE f[n]
               /\ AddCopies(m, S) = f[MaxId]
  BY AddCopiesUnfolds
<1>2. MaxId \in Nat /\ Objects = 0 .. MaxId
  BY ShopAssumption DEF Objects
<1> DEFINE T == {n \in 0 .. MaxId : Heard(m, f[n])}
<1>3. 0 \in T
  BY <1>1, <1>2, HeardSelf
<1>4. ASSUME NEW n \in 0 .. MaxId - 1, n \in T PROVE n + 1 \in T
  <2>0. n + 1 \in 0 .. MaxId /\ n + 1 \in Objects /\ Heard(m, f[n])
    BY <1>2, <1>4
  <2>a. PICK k : k = f[n + 1]
    OBVIOUS
  <2>b. PICK g : g = f[n]
    OBVIOUS
  <2>1. CASE n + 1 \in S
    <3>1. k = AddCopy(g, n + 1)
      BY <1>1, <2>1, <2>a, <2>b
    <3>2. g.obj[n + 1].where \notin {"none", "bill", "loose"} /\ Sound(g)
      BY <2>0, <2>1, <2>b DEF Heard
    <3>3. Heard(g, k)
      BY <2>0, <3>1, <3>2, AddCopyHeard
    <3> QED
      BY <2>0, <2>a, <2>b, <3>3, HeardTwice
  <2>2. CASE n + 1 \notin S
    <3>1. k = g
      BY <1>1, <2>2, <2>a, <2>b
    <3> QED
      BY <2>0, <2>a, <2>b, <3>1
  <2> QED
    BY <2>1, <2>2
<1>5. MaxId \in T
  <2> HIDE DEF T
  <2>1. \A n \in 0 .. MaxId - 1 : n \in T => n + 1 \in T
    BY <1>4
  <2>2. \A n \in 0 .. MaxId : n \in T
    BY <1>2, <1>3, <2>1, CountedTo
  <2> QED
    BY <1>2, <2>2
<1> QED
  BY <1>1, <1>5

(* n is m with the object of id d made, or changed.                        *)
Anew(m, n, d) ==
  /\ Sound(n) /\ n.hero = m.hero /\ n.shk.at = m.shk.at /\ n.shk.surcharge = m.shk.surcharge
  /\ n.shk.bill_p = m.shk.bill_p \/ (m.shk.bill_p = "null" /\ n.shk.bill_p = "ok")
  /\ m.wrong \subseteq n.wrong /\ n.wrong \subseteq m.wrong \cup Fatal
  /\ \A c \in Objects : c # d => n.obj[c] = m.obj[c]

LEMMA CopyBilled ==
  ASSUME NEW m, Sound(m), NEW o \in Objects, o # Bag, m.obj[o].where = "loose", ~Billed(m, o), ~BillFull(m),
         m.shk.bill_p # "wild", NEW n, n = BilledCopy(m, o)
  PROVE  Anew(m, n, o) /\ n.obj[o].where = "bill"
<1>a. PICK p : p = Opened(m)
  OBVIOUS
<1>b. PICK bp : bp = [bo_id |-> o, bquan |-> p.obj[o].quan, useup |-> TRUE, price |-> GetCost(p)]
  OBVIOUS
<1>c. PICK thing : thing = [p.obj[o] EXCEPT !.unpaid = TRUE, !.where = "bill"]
  OBVIOUS
<1>0. m \in Rec /\ m.shk \in Keeper /\ m.obj[o] \in Obj /\ m.obj \in [Objects -> Obj]
  BY DEF Sound, Rec
<1>1. /\ Sound(p) /\ p.obj = m.obj /\ p.hero = m.hero /\ p.wrong = m.wrong
      /\ p.shk \in Keeper /\ GetCost(p) = GetCost(m) /\ Heard(m, p)
  BY <1>a, OpenedSound, OpenedHeard
<1>2. n = WithLine(p, o, bp, thing)
  <2>1. n = Put([p EXCEPT !.shk.bill = @ \cup {bp}, !.obj[o].unpaid = TRUE], o, "bill")
    BY <1>a, <1>b DEF Entered, BilledCopy
  <2>2. Put([p EXCEPT !.shk.bill = @ \cup {bp}, !.obj[o].unpaid = TRUE], o, "bill")
        = [p EXCEPT !.shk.bill = @ \cup {bp}, !.obj[o] = thing]
    <3> DEFINE k == [p.shk EXCEPT !.bill = @ \cup {bp}]
    <3> HIDE DEF k
    <3>1. p \in Rec
      BY <1>1 DEF Sound
    <3>2. Put([p EXCEPT !.shk = k, !.obj[o].unpaid = TRUE], o, "bill") = [p EXCEPT !.shk = k, !.obj[o] = thing]
      BY <1>c, <3>1 DEF Rec, Put, Obj
    <3> QED
      BY <3>2 DEF k
  <2> QED
    BY <2>1, <2>2 DEF WithLine
<1>3. thing \in Obj /\ thing.where = "bill" /\ thing.quan = m.obj[o].quan
  BY <1>c, <1>0, <1>1 DEF Obj
<1>4. bp \in Bill /\ bp.bo_id = o /\ Fits(thing, {bp}, GetCost(p))
  <2>0. p.obj[o].quan \in Nat \ {0} /\ GetCost(p) \in Nat
    BY <1>0, <1>1, CostType DEF Sound, Fits, Obj
  <2>1. bp \in Bill /\ bp.bo_id = o /\ bp.useup = TRUE /\ bp.price = GetCost(p) /\ bp.bquan = p.obj[o].quan
    BY <1>b, <2>0 DEF Bill
  <2>2. /\ bp.useup <=> thing.where = "bill"
        /\ thing.where # "none" /\ bp.bquan >= thing.quan /\ (thing.unpaid \/ bp.useup)
        /\ thing.quan # 0
    BY <1>1, <1>3, <2>0, <2>1
  <2> QED
    BY <1>3, <2>1, <2>2, FitsOne
<1>5. ~Billed(p, o) /\ ~BillFull(p)
  BY <1>1 DEF Billed, BillFull, Heard
<1>6. /\ Sound(n) /\ n.hero = p.hero /\ n.wrong = p.wrong
      /\ n.shk = [p.shk EXCEPT !.bill = n.shk.bill]
      /\ n.obj = [p.obj EXCEPT ![o] = thing]
  BY <1>1, <1>2, <1>3, <1>4, <1>5, EnteredLine
<1>7. n.shk.at = p.shk.at /\ n.shk.surcharge = p.shk.surcharge /\ n.shk.bill_p = p.shk.bill_p
  <2>a. PICK b : b = n.shk.bill
    OBVIOUS
  <2>1. n.shk = [p.shk EXCEPT !.bill = b]
    BY <1>6, <2>a
  <2> QED
    BY <1>1, <2>1 DEF Keeper
<1>8. n.obj[o] = thing /\ \A c \in Objects : c # o => n.obj[c] = m.obj[c]
  BY <1>0, <1>1, <1>6
<1> QED
  BY <1>1, <1>3, <1>6, <1>7, <1>8 DEF Anew, Heard

(* The end of bill_dummy_object(): marks, and the dummies that stay loose. *)

LEMMA MarksCalm ==
  ASSUME NEW m, Sound(m), NEW o \in Objects, ~m.obj[o].unpaid, NEW b \in BOOLEAN
  PROVE  Calm(m, Remarked(m, o, b)) /\ Remarked(m, o, b).wrong = m.wrong
         /\ \A c \in Objects : /\ Remarked(m, o, b).obj[c].where = m.obj[c].where
                               /\ Remarked(m, o, b).obj[c].unpaid = m.obj[c].unpaid
<1>a. PICK n : n = Remarked(m, o, b)
  OBVIOUS
<1>b. PICK thing : thing = [m.obj[o] EXCEPT !.unpaid = FALSE, !.no_charge = b]
  OBVIOUS
<1>0. m \in Rec /\ m.obj[o] \in Obj
  BY DEF Sound, Rec
<1>1. thing \in Obj /\ thing.where = m.obj[o].where /\ thing.quan = m.obj[o].quan /\ thing.unpaid = m.obj[o].unpaid
  BY <1>0, <1>b DEF Obj
<1>2. n = [m EXCEPT !.obj[o] = thing]
  BY <1>0, <1>a, <1>b DEF Remarked, Rec, Obj
<1>3. /\ n \in Rec /\ n.shk = m.shk /\ n.hero = m.hero /\ n.wrong = m.wrong /\ n.obj[o] = thing
      /\ \A c \in Objects : c # o => n.obj[c] = m.obj[c]
  BY <1>0, <1>1, <1>2 DEF Rec
<1>4. Calm(m, n)
  BY <1>1, <1>3, Marked
<1> QED
  BY <1>a, <1>1, <1>3, <1>4

LEMMA ClearedSound ==
  ASSUME NEW m, Sound(m), \A c \in Objects : m.obj[c].where = "loose" => ~m.obj[c].unpaid /\ c # Bag
  PROVE  LET n == Cleared(m) IN
         /\ Sound(n) /\ n.hero = m.hero /\ n.shk = m.shk /\ n.wrong = m.wrong
         /\ \A c \in Objects : n.obj[c].where # "loose"
<1>a. PICK n : n = Cleared(m)
  OBVIOUS
<1>0. m \in Rec /\ BagRight(m.obj) /\ BillRight(m.shk) /\ Bag \in Objects
  BY ShopAssumption DEF Sound, Bag, Objects
<1>1. /\ n \in Rec /\ n.hero = m.hero /\ n.shk = m.shk /\ n.wrong = m.wrong
      /\ \A c \in Objects : n.obj[c] = IF m.obj[c].where = "loose" THEN NoObj ELSE m.obj[c]
  BY <1>0, <1>a DEF Cleared, Rec, NoObj, Obj
<1>2. NoObj.where = "none" /\ Fits(NoObj, {}, GetCost(m))
  BY DEF NoObj, Fits
<1>3. BagRight(n.obj)
  <2>1. n.obj[Bag] = m.obj[Bag]
    BY <1>0, <1>1
  <2>2. \A c \in Objects : n.obj[c].where = "bag" => m.obj[c].where = "bag"
    BY <1>1, <1>2
  <2> QED
    BY <1>0, <2>1, <2>2 DEF BagRight
<1>4. ASSUME NEW c \in Objects
      PROVE  \/ n.obj[c] = m.obj[c] /\ Lines(n.shk.bill, c) = Lines(m.shk.bill, c)
             \/ Fits(n.obj[c], Lines(n.shk.bill, c), GetCost(m))
  <2>1. CASE m.obj[c].where = "loose"
    <3>1. ~m.obj[c].unpaid /\ m.obj[c].where # "bill"
      BY <2>1
    <3>2. Lines(m.shk.bill, c) = {}
      BY <3>1, NotBilled
    <3> QED
      BY <1>1, <1>2, <2>1, <3>2
  <2>2. CASE m.obj[c].where # "loose"
    BY <1>1, <2>2
  <2> QED
    BY <2>1, <2>2
<1>5. Sound(n)
  BY <1>0, <1>1, <1>3, <1>4, SoundLined
<1>6. \A c \in Objects : n.obj[c].where # "loose"
  BY <1>1, <1>2
<1> QED
  BY <1>a, <1>1, <1>5, <1>6

(* n is m after a deal about goods; it may have ended the game.            *)
Deals(m, n) ==
  /\ Sound(n) /\ n.hero = m.hero /\ n.shk.at = m.shk.at
  /\ n.shk.bill_p = m.shk.bill_p \/ (m.shk.bill_p = "null" /\ n.shk.bill_p = "ok")
  /\ m.wrong \subseteq n.wrong /\ n.wrong \subseteq m.wrong \cup Fatal
  /\ Over(n) \/ \A c \in Objects : n.obj[c].where # "loose"

LEMMA CopyMade ==
  ASSUME NEW m, Sound(m), NEW o \in Objects, m.obj[o].where \notin {"none", "bill"}, ~m.obj[o].unpaid,
         Unused(m) # {}, NEW n,
         n = [MakeObj(m, o, NewObj(m), m.obj[o].quan) EXCEPT !.obj[NewObj(m)].where = "loose"]
  PROVE  /\ Anew(m, n, NewObj(m)) /\ n.shk = m.shk /\ n.wrong = m.wrong
         /\ n.obj[NewObj(m)].where = "loose" /\ ~n.obj[NewObj(m)].unpaid /\ ~Billed(n, NewObj(m))
         /\ NewObj(m) \in Objects /\ NewObj(m) # Bag /\ NewObj(m) # o
<1>a. PICK d : d = NewObj(m)
  OBVIOUS
<1>b. PICK thing : thing = [m.obj[o] EXCEPT !.where = "loose"]
  OBVIOUS
<1>0. /\ m \in Rec /\ BagRight(m.obj) /\ BillRight(m.shk) /\ Bag \in Objects /\ m.obj[o] \in Obj
      /\ m.obj \in [Objects -> Obj] /\ m.obj[o].quan # 0
  BY ShopAssumption DEF Sound, Bag, Objects, Rec, Fits
<1>1. d \in Ids /\ d \in Objects /\ d # Bag /\ m.obj[d].where = "none" /\ d # o
  BY <1>0, <1>a, NewObjFree
<1>2. /\ thing \in Obj /\ thing.where = "loose" /\ thing.quan = m.obj[o].quan /\ ~thing.unpaid
  BY <1>0, <1>b DEF Obj
<1>3. n = [m EXCEPT !.obj[d] = thing]
  <2>1. [m.obj[o] EXCEPT !.quan = m.obj[o].quan] = m.obj[o]
    BY <1>0 DEF Obj
  <2>2. n = [[m EXCEPT !.obj[d] = m.obj[o]] EXCEPT !.obj[d].where = "loose"]
    BY <1>a, <2>1 DEF MakeObj
  <2> QED
    BY <1>0, <1>1, <1>b, <2>2 DEF Rec
<1>4. /\ n \in Rec /\ n.shk = m.shk /\ n.hero = m.hero /\ n.wrong = m.wrong /\ n.obj[d] = thing
      /\ \A c \in Objects : c # d => n.obj[c] = m.obj[c]
  BY <1>0, <1>1, <1>2, <1>3 DEF Rec
<1>5. BagRight(n.obj)
  <2>1. n.obj[Bag] = m.obj[Bag]
    BY <1>0, <1>1, <1>4
  <2>2. \A c \in Objects : n.obj[c].where = "bag" => m.obj[c].where = "bag"
    BY <1>2, <1>4
  <2> QED
    BY <1>0, <2>1, <2>2 DEF BagRight
<1>6. Lines(m.shk.bill, d) = {}
  BY <1>1 DEF Sound, Fits
<1>7. Fits(thing, {}, GetCost(m))
  BY <1>0, <1>2, FitsNone
<1>8. \A c \in Objects : \/ n.obj[c] = m.obj[c] /\ Lines(n.shk.bill, c) = Lines(m.shk.bill, c)
                         \/ Fits(n.obj[c], Lines(n.shk.bill, c), GetCost(m))
  BY <1>4, <1>6, <1>7
<1>9. Sound(n)
  BY <1>0, <1>4, <1>5, <1>8, SoundLined
<1>10. ~Billed(n, d)
  BY <1>1, <1>2, <1>4, <1>9, NotBilled
<1> QED
  BY <1>a, <1>1, <1>2, <1>4, <1>9, <1>10 DEF Anew


LEMMA OffCalm ==
  ASSUME NEW m, Sound(m), NEW o \in Objects, m.obj[o].where \notin {"none", "bill"}, NEW hide \in BOOLEAN,
         "no room" \notin m.wrong, NEW off, off = OffBill(m, o, hide)
  PROVE  /\ Calm(m, off) /\ off.hero = m.hero /\ off.shk.surcharge = m.shk.surcharge
         /\ "no room" \in off.wrong => Unused(off) = {}
         /\ "no room" \notin off.wrong => ~off.obj[o].unpaid
<1>0. m.shk \in Keeper
  BY DEF Sound, Rec
<1>1. CASE m.obj[o].unpaid
  <2>1. Calm(m, off) /\ \E S : o \in S /\ Sheds(m, off, S)
    BY <1>1, SubOneCalm, SubFromBillCalm DEF OffBill
  <2>2. PICK S : o \in S /\ Sheds(m, off, S)
    BY <2>1
  <2>a. PICK b : b = off.shk.bill
    OBVIOUS
  <2>3. off.shk = [m.shk EXCEPT !.bill = b]
    BY <2>2, <2>a DEF Sheds
  <2>4. off.shk.surcharge = m.shk.surcharge
    BY <1>0, <2>3 DEF Keeper
  <2> QED
    BY <2>1, <2>2, <2>4 DEF Sheds
<1>2. CASE ~m.obj[o].unpaid
  BY <1>2, CalmSelf DEF OffBill
<1> QED
  BY <1>1, <1>2

LEMMA BillDummyDeals ==
  ASSUME NEW m, Sound(m), NEW o \in Objects, m.obj[o].where \notin {"none", "bill"}, NEW hide \in BOOLEAN,
         \A c \in Objects : m.obj[c].where # "loose", "no room" \notin m.wrong,
         "no room" \notin BillDummy(m, o, hide).wrong
  PROVE  Deals(m, BillDummy(m, o, hide))
<1> DEFINE off == OffBill(m, o, hide)
           d == NewObj(off)
           copy == [MakeObj(off, o, d, off.obj[o].quan) EXCEPT !.obj[d].where = "loose"]
           new == IF m.obj[o].no_charge THEN copy ELSE AddCopy(copy, d)
           same == Rebilled(new, d, [Entry(new, d) EXCEPT !.price = Entry(m, o).price])
           top == IF m.obj[o].unpaid /\ Billed(new, d) THEN same ELSE new
           goods == ForSale(off, Within(off, o))
           billed == IF Unused(off) = {} THEN Complain(off, "no room")
                     ELSE IF BillFull(off) THEN off
                     ELSE IF Within(off, o) = {} \/ hide \/ goods = {} THEN top
                     ELSE AddCopies(top, goods)
           b == off.obj[o].where \in Floor \cup {"bag"}
<1>a. PICK k : k = BillDummy(m, o, hide)
  OBVIOUS
<1>1. k = IF Over(billed) THEN billed ELSE Cleared(Remarked(billed, o, b))
  BY <1>a, Zenon DEF BillDummy, Altered, DummyBilled, CopyOnBill, AddCopy, AddCopies
<1>2. /\ Calm(m, off) /\ off.hero = m.hero /\ off.shk.surcharge = m.shk.surcharge
      /\ "no room" \in off.wrong => Unused(off) = {}
      /\ "no room" \notin off.wrong => ~off.obj[o].unpaid
  BY OffCalm
<1> HIDE DEF off
<1>3. /\ Sound(off) /\ off.obj[o].where = m.obj[o].where /\ off.shk.at = m.shk.at
      /\ off.shk.bill_p = m.shk.bill_p /\ m.wrong \subseteq off.wrong
      /\ \A c \in Objects : off.obj[c].where # "loose"
  BY <1>2 DEF Calm
<1>4. Unused(off) # {} /\ "no room" \notin off.wrong /\ ~off.obj[o].unpaid
  <2>1. ASSUME Unused(off) = {} PROVE FALSE
    <3>1. billed = Complain(off, "no room")
      BY <2>1
    <3> HIDE DEF billed, b
    <3>2. billed \in Rec /\ "no room" \in billed.wrong
      BY <1>3, <3>1 DEF Complain, Sound, Rec, Words
    <3>3. k.wrong = billed.wrong
      BY <1>1, <3>2 DEF Cleared, Remarked, Rec
    <3> QED
      BY <1>a, <3>2, <3>3
  <2> QED
    BY <1>2, <2>1
<1>5. /\ Anew(off, copy, d) /\ copy.shk = off.shk /\ copy.wrong = off.wrong
      /\ copy.obj[d].where = "loose" /\ ~copy.obj[d].unpaid /\ ~Billed(copy, d)
      /\ d \in Objects /\ d # Bag /\ d # o
  BY <1>3, <1>4, CopyMade
<1> HIDE DEF copy, d
<1>6. off.wrong \subseteq m.wrong
  BY <1>2, <1>4 DEF Calm
<1> DEFINE Ready(x) == /\ Sound(x) /\ x.hero = m.hero /\ x.shk.at = m.shk.at
                       /\ x.shk.bill_p = m.shk.bill_p \/ (m.shk.bill_p = "null" /\ x.shk.bill_p = "ok")
                       /\ m.wrong \subseteq x.wrong /\ x.wrong \subseteq m.wrong \cup Fatal
                       /\ ~x.obj[o].unpaid
                       /\ Over(x) \/ \A c \in Objects : x.obj[c].where = "loose" => ~x.obj[c].unpaid /\ c # Bag
<1>7. Ready(off)
  BY <1>2, <1>3, <1>4, <1>6
<1>8. Ready(copy)
  BY <1>2, <1>3, <1>4, <1>5, <1>6 DEF Anew
<1>9. ASSUME ~BillFull(off) PROVE Ready(new) /\ off.shk.surcharge = new.shk.surcharge
                                   /\ \A c \in Objects : off.obj[c].where = "bag" => new.obj[c].where = "bag"
  <2>0. Sound(copy) /\ copy.obj[d].where \notin {"none", "bill"} /\ ~BillFull(copy)
    BY <1>5, <1>9 DEF Anew, BillFull
  <2>1. copy.shk.surcharge = off.shk.surcharge /\ \A c \in Objects : off.obj[c].where = "bag" => copy.obj[c].where = "bag"
    <3>1. off.obj[d].where # "bag"
      <4>1. off \in Rec
        BY <1>3 DEF Sound
      <4> QED
        BY <1>3, <1>4, <4>1, NewObjFree DEF d
    <3> QED
      BY <1>5, <3>1 DEF Anew
  <2>2. CASE m.obj[o].no_charge
    BY <1>8, <2>1, <2>2
  <2>3. CASE ~m.obj[o].no_charge
    <3>1. new = AddCopy(copy, d)
      BY <2>3
    <3> HIDE DEF new
    <3>2. new = Complain(copy, "bill_p") \/ (copy.shk.bill_p # "wild" /\ new = BilledCopy(copy, d))
      BY <1>5, <2>0, <3>1, AddDummyCases, Zenon DEF AddCopy, BilledCopy
    <3>3. CASE new = Complain(copy, "bill_p")
      <4>1. "bill_p" \in Fatal
        BY DEF Fatal
      <4>2. Heard(copy, new)
        BY <2>0, <3>3, <4>1, FatalHeard, Zenon
      <4>3. Over(new)
        BY <2>0, <3>3 DEF Over, Fatal, Complain, Sound, Rec
      <4> QED
        BY <1>8, <2>1, <4>2, <4>3 DEF Heard
    <3>4. CASE copy.shk.bill_p # "wild" /\ new = BilledCopy(copy, d)
      <4>1. Anew(copy, new, d) /\ new.obj[d].where = "bill"
        BY <1>5, <2>0, <3>4, CopyBilled
      <4>2. \A c \in Objects : c # d => new.obj[c] = copy.obj[c]
        BY <4>1 DEF Anew
      <4>3. \A c \in Objects : new.obj[c].where = "loose" => ~new.obj[c].unpaid /\ c # Bag
        <5>1. \A c \in Objects : c # d => copy.obj[c].where # "loose"
          BY <1>3, <1>5 DEF Anew
        <5> QED
          BY <4>1, <4>2, <5>1
      <4>4. ~new.obj[o].unpaid
        BY <1>5, <1>8, <4>2
      <4>5. \A c \in Objects : off.obj[c].where = "bag" => new.obj[c].where = "bag"
        BY <1>5, <2>1, <4>2
      <4>6. /\ Sound(new) /\ new.hero = copy.hero /\ new.shk.at = copy.shk.at /\ new.shk.surcharge = copy.shk.surcharge
            /\ new.shk.bill_p = copy.shk.bill_p \/ (copy.shk.bill_p = "null" /\ new.shk.bill_p = "ok")
            /\ copy.wrong \subseteq new.wrong /\ new.wrong \subseteq copy.wrong \cup Fatal
        BY <4>1 DEF Anew
      <4> QED
        BY <1>8, <2>1, <4>3, <4>4, <4>5, <4>6
    <3> QED
      BY <3>2, <3>3, <3>4
  <2> QED
    BY <2>2, <2>3
<1> HIDE DEF new
<1>10. ASSUME ~BillFull(off) PROVE top = new
  <2>1. CASE ~(m.obj[o].unpaid /\ Billed(new, d))
    BY <2>1
  <2>2. CASE m.obj[o].unpaid /\ Billed(new, d)
    <3>a. PICK e : e = Entry(new, d)
      OBVIOUS
    <3>1. Sound(new) /\ GetCost(new) = GetCost(m)
      BY <1>2, <1>9, <1>10 DEF GetCost
    <3>2. Billed(m, o)
      BY <2>2, NotBilled
    <3>3. Entry(m, o).price = GetCost(m)
      BY <3>2, TheEntry
    <3>4. e \in new.shk.bill /\ e \in Bill /\ e.price = GetCost(new)
      BY <1>5, <2>2, <3>1, <3>a, TheEntry
    <3>5. [e EXCEPT !.price = Entry(m, o).price] = e
      BY <3>1, <3>3, <3>4 DEF Bill
    <3>6. same = Rebilled(new, d, e)
      BY <3>5, <3>a
    <3>7. Rebilled(new, d, e) = [new EXCEPT !.shk.bill = (new.shk.bill \ {e}) \cup {e}]
      BY <3>a DEF Rebilled
    <3>8. (new.shk.bill \ {e}) \cup {e} = new.shk.bill
      BY <3>4
    <3>9. [new EXCEPT !.shk.bill = new.shk.bill] = new
      BY <3>1 DEF Sound, Rec, Keeper
    <3> HIDE DEF same
    <3> QED
      BY <2>2, <3>6, <3>7, <3>8, <3>9
  <2> QED
    BY <2>1, <2>2
<1> HIDE DEF same, top
<1>11. Ready(billed)
  <2>1. CASE BillFull(off)
    <3>1. billed = off
      BY <1>4, <2>1
    <3> HIDE DEF billed
    <3> QED
      BY <1>7, <3>1
  <2>2. CASE ~BillFull(off)
    <3>1. billed = new \/ billed = AddCopies(new, goods)
      BY <1>4, <1>10, <2>2
    <3>2. goods \in SUBSET Objects /\ \A c \in goods : new.obj[c].where = "bag"
      BY <1>9, <2>2 DEF ForSale, Within, Contents
    <3> HIDE DEF billed, goods
    <3>3. Heard(new, AddCopies(new, goods))
      BY <1>9, <2>2, <3>2, AddCopiesHeard
    <3>4. Ready(AddCopies(new, goods))
      <4>1. \A x : (Over(new) /\ Heard(new, x)) => Over(x)
        BY DEF Over, Heard
      <4> QED
        BY <1>9, <2>2, <3>3, <4>1 DEF Heard
    <3> QED
      BY <1>9, <2>2, <3>1, <3>4
  <2> QED
    BY <2>1, <2>2
<1> HIDE DEF billed
<1>12. CASE Over(billed)
  <2>1. k = billed
    BY <1>1, <1>12
  <2> QED
    BY <1>11, <1>12, <1>a, <2>1 DEF Deals
<1>13. CASE ~Over(billed)
  <2>b. PICK c \in BOOLEAN : c <=> off.obj[o].where \in Floor \cup {"bag"}
    OBVIOUS
  <2>a. PICK n : n = Remarked(billed, o, c)
    OBVIOUS
  <2>1. k = Cleared(n)
    <3>1. b = c
      BY <2>b
    <3> HIDE DEF b
    <3> QED
      BY <1>1, <1>13, <2>a, <3>1
  <2> HIDE DEF b
  <2>3. /\ Calm(billed, n) /\ n.wrong = billed.wrong
        /\ \A x \in Objects : n.obj[x].where = billed.obj[x].where /\ n.obj[x].unpaid = billed.obj[x].unpaid
    <3>1. Sound(billed) /\ ~billed.obj[o].unpaid
      BY <1>11
    <3> HIDE DEF Ready
    <3>2. PICK y : y = billed
      OBVIOUS
    <3>3. n = Remarked(y, o, c) /\ Sound(y) /\ ~y.obj[o].unpaid
      BY <2>a, <3>1, <3>2
    <3>4. /\ Calm(y, n) /\ n.wrong = y.wrong
          /\ \A x \in Objects : n.obj[x].where = y.obj[x].where /\ n.obj[x].unpaid = y.obj[x].unpaid
      BY ONLY o \in Objects, c \in BOOLEAN, <3>3, MarksCalm
    <3> QED
      BY <3>2, <3>4
  <2>4. n.hero = billed.hero
    BY <1>11, <2>a DEF Remarked, Sound, Rec
  <2>5. /\ Sound(k) /\ k.hero = n.hero /\ k.shk = n.shk /\ k.wrong = n.wrong
        /\ \A x \in Objects : k.obj[x].where # "loose"
    <3>1. Sound(n) /\ \A x \in Objects : n.obj[x].where = "loose" => ~n.obj[x].unpaid /\ x # Bag
      BY <1>11, <1>13, <2>3 DEF Calm
    <3> QED
      BY <2>1, <3>1, ClearedSound
  <2>6. Deals(m, k)
    BY <1>11, <2>3, <2>4, <2>5 DEF Deals, Calm
  <2> QED
    BY <1>a, <2>6
<1> QED
  BY <1>12, <1>13

----------------------------------------------------------------------------
(* Buying what is on the bill.                                             *)

(* One thing and its line change.                                          *)
LEMMA OneLine ==
  ASSUME NEW m, Sound(m), NEW n, n \in Rec, n.wrong = m.wrong, BillRight(n.shk),
         n.hero.at = m.hero.at, n.hero.ushops = m.hero.ushops,
         n.shk.at = m.shk.at, n.shk.bill_p = m.shk.bill_p, n.shk.surcharge = m.shk.surcharge,
         m.shk.bill = {} => n.shk.bill = {}, NEW o \in Objects,
         \/ n.obj[o].where = m.obj[o].where /\ n.obj[o].quan = m.obj[o].quan
         \/ m.obj[o].where = "bill" /\ n.obj[o].where = "none",
         Fits(n.obj[o], Lines(n.shk.bill, o), GetCost(m)),
         \A c \in Objects : c # o => n.obj[c] = m.obj[c] /\ Lines(n.shk.bill, c) = Lines(m.shk.bill, c)
  PROVE  Calm(m, n)
<1>0. BagRight(m.obj) /\ Bag \in Objects
  BY ShopAssumption DEF Sound, Bag, Objects
<1>1. BagRight(n.obj)
  BY <1>0 DEF BagRight
<1>2. \A c \in Objects : \/ n.obj[c] = m.obj[c] /\ Lines(n.shk.bill, c) = Lines(m.shk.bill, c)
                         \/ Fits(n.obj[c], Lines(n.shk.bill, c), GetCost(m))
  OBVIOUS
<1>3. Sound(n)
  BY <1>1, <1>2, SoundLined
<1> QED
  BY <1>3 DEF Calm

LEMMA PayFunds ==
  ASSUME NEW m, Sound(m), NEW n \in Nat, n <= Funds(m)
  PROVE  Funds(Pay(m, n)) = Funds(m) - n
<1>a. PICK r : r = Pay(m, n)
  OBVIOUS
<1>b. PICK c : c = CheckCredit(m, n)
  OBVIOUS
<1>c. PICK x : x = Max({0, m.shk.credit - n})
  OBVIOUS
<1>d. PICK gold : gold = AfterCredit(m, n)
  OBVIOUS
<1>0. m \in Rec /\ m.shk \in Keeper /\ m.hero \in Hero /\ m.shk.credit \in Nat /\ m.hero.gold \in Nat
  BY DEF Sound, Rec, Keeper, Hero
<1>1. x = IF m.shk.credit - n > 0 THEN m.shk.credit - n ELSE 0
  BY <1>0, <1>c, MaxZero
<1>2. gold = IF n > m.shk.credit THEN n - m.shk.credit ELSE 0
  BY <1>d, CreditUsed
<1>3. c = [m EXCEPT !.shk.credit = x]
  BY <1>b, <1>c DEF CheckCredit
<1>4. c \in Rec /\ c.shk.credit = x /\ c.hero = m.hero
  BY <1>0, <1>1, <1>3 DEF Rec, Keeper
<1>e. PICK z : z = Max({0, c.shk.robbed - n})
  OBVIOUS
<1>5. r = [c EXCEPT !.hero.gold = @ - gold, !.shk.cash = @ + gold, !.shk.robbed = z]
  BY <1>a, <1>b, <1>d, <1>e DEF Pay
<1>6. r.shk.credit = x /\ r.hero.gold = m.hero.gold - gold
  BY <1>0, <1>4, <1>5 DEF Rec, Keeper, Hero
<1>7. x + (m.hero.gold - gold) = m.hero.gold + m.shk.credit - n
  BY <1>0, <1>1, <1>2
<1> QED
  BY <1>0, <1>1, <1>2, <1>6, <1>7, <1>a DEF Funds

(* The whole of an entry is paid.                                          *)
LEMMA BuyEntryCalm ==
  ASSUME NEW m, Sound(m), NEW e \in m.shk.bill, e.price * e.bquan <= Funds(m),
         NEW n, n = BuyEntry(m, e)
  PROVE  /\ Calm(m, n) /\ Funds(n) = Funds(m) - e.price * e.bquan
         /\ \A c \in Objects : c # e.bo_id => /\ n.obj[c] = m.obj[c]
                                              /\ Lines(n.shk.bill, c) = Lines(m.shk.bill, c)
<1>a. PICK cost : cost = e.price * e.bquan
  OBVIOUS
<1>b. PICK r : r = Pay(m, cost)
  OBVIOUS
<1>c. PICK o : o = e.bo_id
  OBVIOUS
<1>d. PICK bill : bill = m.shk.bill \ {e}
  OBVIOUS
<1>e. PICK thing : thing = IF m.obj[o].where = "bill" THEN NoObj ELSE [m.obj[o] EXCEPT !.unpaid = FALSE]
  OBVIOUS
<1>0. e \in Bill /\ o \in Objects /\ m.shk.bill \in SUBSET Bill /\ IsFiniteSet(m.shk.bill) /\ m.shk.bill # {}
  BY <1>c DEF Sound, Rec, Keeper, Bill, BillRight
<1>1. cost \in Nat
  BY <1>0, <1>a DEF Bill
<1>2. Calm(m, r) /\ r.obj = m.obj /\ r.shk.bill = m.shk.bill /\ Funds(r) = Funds(m) - cost
  BY <1>1, <1>a, <1>b, PayCalm, PayFunds
<1>3. Billed(m, o) /\ Billed(r, o) /\ Sound(r) /\ r \in Rec /\ r.obj[o] \in Obj /\ r.shk \in Keeper /\ r.hero \in Hero
  <2>1. Sound(r) /\ r \in Rec /\ r.shk \in Keeper /\ r.hero \in Hero
    BY <1>2 DEF Calm, Sound, Rec
  <2>2. r.obj[o] \in Obj
    BY <1>0, <2>1 DEF Rec
  <2>3. Billed(m, o) /\ Billed(r, o)
    BY <1>c, <1>2 DEF Billed
  <2> QED
    BY <2>1, <2>2, <2>3
<1>4. Entry(r, o) = e /\ m.obj[o].where # "none" /\ Lines(m.shk.bill, o) = {e}
  <2>1. e \in Lines(m.shk.bill, o)
    BY <1>c DEF Lines
  <2>2. Lines(m.shk.bill, o) = {Entry(m, o)} /\ m.obj[o].where # "none"
    BY <1>0, <1>3, TheEntry
  <2> QED
    BY <1>2, <2>1, <2>2 DEF Entry
<1>5. n = [r EXCEPT !.shk.bill = bill, !.obj[o] = thing]
  <2>1. Unbilled(r, o) = [r EXCEPT !.shk.bill = bill]
    BY <1>2, <1>4, <1>d DEF Unbilled
  <2>a. PICK u : u = Unbilled(r, o)
    OBVIOUS
  <2>2. n = IF m.obj[o].where = "bill" THEN Freed(u, {o}) ELSE [u EXCEPT !.obj[o].unpaid = FALSE]
    BY <1>a, <1>b, <1>c, <2>a DEF BuyEntry, FullyUsedUp
  <2>3. u = [r EXCEPT !.shk.bill = bill] /\ u.obj = m.obj
    BY <1>2, <1>3, <2>1, <2>a DEF Rec
  <2>4. CASE m.obj[o].where = "bill"
    <3>1. Freed(u, {o}) = [u EXCEPT !.obj[o] = NoObj]
      BY <1>2, <1>3, <2>3 DEF Freed, Rec
    <3> QED
      BY <1>3, <1>e, <2>2, <2>3, <2>4, <3>1 DEF Rec
  <2>5. CASE m.obj[o].where # "bill"
    <3>1. n = [u EXCEPT !.obj[o] = thing]
      BY <1>e, <2>2, <2>3, <2>5
    <3> QED
      BY <1>3, <2>3, <3>1 DEF Rec
  <2> QED
    BY <2>4, <2>5
<1>6. /\ bill \in SUBSET Bill /\ IsFiniteSet(bill) /\ Cardinality(bill) = Cardinality(m.shk.bill) - 1
      /\ Cardinality(m.shk.bill) \in Nat
      /\ Lines(bill, o) = {} /\ \A c : c # o => Lines(bill, c) = Lines(m.shk.bill, c)
  <2>2. /\ bill \in SUBSET Bill /\ IsFiniteSet(bill) /\ Cardinality(bill) = Cardinality(m.shk.bill) - 1
        /\ Cardinality(m.shk.bill) \in Nat
        /\ \A c : Lines(bill, c) = Lines(m.shk.bill, c) \ {e}
        /\ \A c : c # o => Lines(bill, c) = Lines(m.shk.bill, c)
    BY <1>0, <1>c, <1>d, LineDropped, Zenon
  <2> QED
    BY <1>4, <2>2
<1>7. thing \in Obj /\ ~thing.unpaid
      /\ \/ thing.where = m.obj[o].where /\ thing.quan = m.obj[o].quan /\ m.obj[o].where # "bill"
         \/ m.obj[o].where = "bill" /\ thing.where = "none" /\ thing.quan = 0
  BY <1>2, <1>3, <1>e DEF NoObj, Obj
<1>8. /\ n \in Rec /\ n.hero = r.hero /\ n.wrong = r.wrong /\ n.obj[o] = thing
      /\ \A c \in Objects : c # o => n.obj[c] = r.obj[c]
      /\ n.shk.bill = bill /\ n.shk.at = r.shk.at /\ n.shk.bill_p = r.shk.bill_p
      /\ n.shk.surcharge = r.shk.surcharge /\ n.shk.billsz = r.shk.billsz
      /\ n.shk.loan = r.shk.loan /\ n.shk.debit = r.shk.debit /\ n.shk.credit = r.shk.credit
  <2>a. PICK k : k = [r.shk EXCEPT !.bill = bill]
    OBVIOUS
  <2>1. /\ k \in Keeper /\ k.bill = bill /\ k.at = r.shk.at /\ k.bill_p = r.shk.bill_p
        /\ k.surcharge = r.shk.surcharge /\ k.billsz = r.shk.billsz
        /\ k.loan = r.shk.loan /\ k.debit = r.shk.debit /\ k.credit = r.shk.credit
    BY <1>3, <1>6, <2>a DEF Keeper
  <2>b. PICK u : u = [r EXCEPT !.shk = k]
    OBVIOUS
  <2>c. u \in Rec /\ u.hero = r.hero /\ u.wrong = r.wrong /\ u.obj = r.obj /\ u.shk = k
    BY <1>3, <2>1, <2>b DEF Rec
  <2>2. n = [u EXCEPT !.obj[o] = thing]
    BY <1>3, <1>5, <2>a, <2>b DEF Rec
  <2>3. /\ n \in Rec /\ n.hero = r.hero /\ n.wrong = r.wrong /\ n.obj[o] = thing /\ n.shk = k
        /\ \A c \in Objects : c # o => n.obj[c] = r.obj[c]
    <3>1. thing \in Obj
      BY <1>7
    <3> QED
      BY <1>0, <2>c, <2>2, <3>1 DEF Rec
  <2> QED
    BY <2>1, <2>3
<1>9. BillRight(n.shk)
  <2>1. r.shk.billsz \in Nat /\ Cardinality(r.shk.bill) <= r.shk.billsz /\ r.shk.loan <= r.shk.debit
    BY <1>3 DEF Sound, BillRight, Keeper
  <2> QED
    BY <1>2, <1>6, <1>8, <2>1 DEF BillRight
<1>10. Fits(thing, {}, GetCost(r))
  <2>1. r.obj[o].where = "none" <=> r.obj[o].quan = 0
    BY <1>0, <1>3 DEF Sound, Fits
  <2> QED
    BY <1>2, <1>7, <2>1, FitsNone
<1>11. Calm(r, n)
  <2>1. Fits(n.obj[o], Lines(n.shk.bill, o), GetCost(r))
    BY <1>6, <1>8, <1>10
  <2>2. \A c \in Objects : c # o => n.obj[c] = r.obj[c] /\ Lines(n.shk.bill, c) = Lines(r.shk.bill, c)
    BY <1>2, <1>6, <1>8
  <2>3. r.shk.bill # {}
    BY <1>0, <1>2
  <2>4. \/ n.obj[o].where = r.obj[o].where /\ n.obj[o].quan = r.obj[o].quan
        \/ r.obj[o].where = "bill" /\ n.obj[o].where = "none"
    BY <1>2, <1>7, <1>8
  <2> QED
    BY <1>0, <1>3, <1>8, <1>9, <2>1, <2>2, <2>3, <2>4, OneLine
<1>12. Calm(m, n)
  BY <1>2, <1>11, CalmTrans
<1>13. Funds(n) = Funds(m) - cost
  BY <1>2, <1>8 DEF Funds
<1> QED
  BY <1>2, <1>6, <1>8, <1>12, <1>13, <1>a, <1>c

(* The part that was used up is paid.                                      *)
LEMMA BuyUsedUpCalm ==
  ASSUME NEW m, Sound(m), NEW e \in m.shk.bill, PartlyUsedUp(m, e),
         e.price * (e.bquan - Quan(m, e)) <= Funds(m), NEW n, n = BuyUsedUp(m, e)
  PROVE  Calm(m, n)
<1>a. PICK q : q = e.bquan - m.obj[e.bo_id].quan
  OBVIOUS
<1>z. PICK cost : cost = e.price * q
  OBVIOUS
<1>b. PICK r : r = Pay(m, cost)
  OBVIOUS
<1>c. PICK o : o = e.bo_id
  OBVIOUS
<1>d. PICK bill : bill = Swapped(m.shk.bill, e, [e EXCEPT !.bquan = m.obj[o].quan])
  OBVIOUS
<1>e. PICK f : f = [e EXCEPT !.bquan = m.obj[o].quan]
  OBVIOUS
<1>0. e \in Bill /\ o \in Objects /\ m.obj[o] \in Obj /\ m.obj[o].quan \in Nat
  BY <1>c DEF Sound, Rec, Keeper, Bill, Obj
<1>1. q \in Nat /\ m.obj[o].where # "bill"
  BY <1>0, <1>a, <1>c DEF Bill, PartlyUsedUp, FullyUsedUp, Quan
<1>y. cost \in Nat
  BY <1>0, <1>1, <1>z DEF Bill
<1>2. Calm(m, r) /\ r.obj = m.obj /\ r.shk.bill = m.shk.bill
  BY <1>y, <1>a, <1>b, <1>z, PayCalm DEF Quan
<1>3. Billed(m, o) /\ Billed(r, o) /\ Sound(r) /\ r \in Rec /\ r.shk \in Keeper
  BY <1>c, <1>2 DEF Billed, Calm, Sound, Rec
<1>4. Entry(r, o) = e /\ m.obj[o].where # "none" /\ m.obj[o].unpaid /\ e.price = GetCost(r) /\ ~e.useup
      /\ m.obj[o].quan # 0
  <2>1. e \in Lines(m.shk.bill, o)
    BY <1>c DEF Lines
  <2>2. Lines(r.shk.bill, o) = {Entry(r, o)} /\ m.obj[o].where # "none"
        /\ (m.obj[o].unpaid \/ m.obj[o].where = "bill") /\ Entry(r, o).price = GetCost(r)
        /\ (Entry(r, o).useup <=> m.obj[o].where = "bill")
    BY <1>0, <1>2, <1>3, TheEntry
  <2>3. m.obj[o].quan # 0
    BY <1>0, <2>2 DEF Sound, Fits
  <2> QED
    BY <1>1, <1>2, <2>1, <2>2, <2>3
<1>5. n = [r EXCEPT !.shk.bill = bill]
  <2>1. n = Rebilled(r, o, f)
    BY <1>a, <1>z, <1>b, <1>c, <1>e DEF BuyUsedUp, Quan
  <2> QED
    BY <1>2, <1>4, <1>d, <1>e, <2>1 DEF Rebilled, Swapped
<1>6. f \in Bill /\ f.bo_id = o /\ f.price = e.price /\ f.bquan = m.obj[o].quan /\ f.useup = e.useup
  BY <1>0, <1>4, <1>c, <1>e DEF Bill
<1>7. /\ bill \in SUBSET Bill /\ IsFiniteSet(bill) /\ Cardinality(bill) <= Cardinality(m.shk.bill)
      /\ Cardinality(m.shk.bill) \in Nat /\ Cardinality(bill) \in Nat /\ m.shk.bill # {}
      /\ Lines(bill, o) = {f} /\ \A c : c # o => Lines(bill, c) = Lines(m.shk.bill, c)
  <2>1. bill = Swapped(m.shk.bill, e, f)
    BY <1>d, <1>e
  <2> QED
    BY <1>6, <1>c, <2>1, LineSwapped
<1>8. /\ n \in Rec /\ n.hero = r.hero /\ n.wrong = r.wrong /\ n.obj = r.obj
      /\ n.shk.bill = bill /\ n.shk.at = r.shk.at /\ n.shk.bill_p = r.shk.bill_p
      /\ n.shk.surcharge = r.shk.surcharge /\ n.shk.billsz = r.shk.billsz
      /\ n.shk.loan = r.shk.loan /\ n.shk.debit = r.shk.debit
  BY <1>3, <1>5, <1>7 DEF Rec, Keeper
<1>9. BillRight(n.shk)
  <2>1. r.shk.billsz \in Nat /\ Cardinality(r.shk.bill) <= r.shk.billsz /\ r.shk.loan <= r.shk.debit
    BY <1>3 DEF Sound, BillRight, Keeper
  <2> QED
    BY <1>2, <1>7, <1>8, <2>1 DEF BillRight
<1>10. Fits(m.obj[o], {f}, GetCost(r))
  <2>1. f.price = GetCost(r) /\ (f.useup <=> m.obj[o].where = "bill") /\ f.bquan >= m.obj[o].quan
    BY <1>0, <1>1, <1>4, <1>6
  <2> QED
    BY <1>0, <1>4, <1>6, <2>1, FitsOne
<1>11. Calm(r, n)
  <2>1. Fits(n.obj[o], Lines(n.shk.bill, o), GetCost(r))
    BY <1>2, <1>7, <1>8, <1>10
  <2>2. \A c \in Objects : c # o => n.obj[c] = r.obj[c] /\ Lines(n.shk.bill, c) = Lines(r.shk.bill, c)
    BY <1>2, <1>7, <1>8
  <2>3. r.shk.bill # {}
    BY <1>7, <1>2
  <2> QED
    BY <1>0, <1>3, <1>8, <1>9, <2>1, <2>2, <2>3, OneLine
<1> QED
  BY <1>2, <1>11, CalmTrans

(* What is in the bag, and the bag, are bought one after the other.        *)
Bought(m, n, o) == IF \E bp \in InBag(m) : bp.bo_id = o THEN BuyEntry(n, Entry(m, o)) ELSE n

LEMMA BuyContainerUnfolds ==
  ASSUME NEW m
  PROVE  \E f : /\ f[0] = Bought(m, m, 0)
                /\ \A n \in 0 .. MaxId - 1 : f[n + 1] = Bought(m, f[n], n + 1)
                /\ BuyContainer(m) = f[MaxId]
<1> DEFINE Body(f, n) == Bought(m, IF n = 0 THEN m ELSE f[n - 1], n)
           T == {k \in 0 .. MaxId : \E f : f = [n \in 0 .. k |-> Body(f, n)]}
<1>0. MaxId \in Nat
  BY ShopAssumption
<1>1. 0 \in T
  <2> DEFINE f == [n \in 0 .. 0 |-> Bought(m, m, 0)]
  <2>1. f = [n \in 0 .. 0 |-> Body(f, n)]
    OBVIOUS
  <2> HIDE DEF f, Body
  <2> QED
    BY <1>0, <2>1
<1>2. ASSUME NEW k \in 0 .. MaxId - 1, k \in T PROVE k + 1 \in T
  <2>1. PICK f : f = [n \in 0 .. k |-> Body(f, n)]
    BY <1>2
  <2> DEFINE g == [n \in 0 .. k + 1 |-> IF n <= k THEN f[n] ELSE Body(f, k + 1)]
  <2>2. \A n \in 0 .. k + 1 : g[n] = Body(g, n)
    <3> TAKE n \in 0 .. k + 1
    <3>1. CASE n <= k
      <4>1. g[n] = f[n] /\ f[n] = Body(f, n)
        <5> HIDE DEF Body
        <5> QED
          BY <1>0, <2>1, <3>1
      <4>2. n # 0 => f[n - 1] = g[n - 1]
        BY <1>0, <3>1
      <4> QED
        BY <4>1, <4>2
    <3>2. CASE n = k + 1
      <4>1. g[n] = Body(f, k + 1) /\ f[n - 1] = g[n - 1]
        BY <1>0, <3>2
      <4> QED
        BY <1>0, <3>2, <4>1
    <3> QED
      BY <1>0, <3>1, <3>2
  <2>3. g = [n \in 0 .. k + 1 |-> Body(g, n)]
    BY <2>2
  <2> HIDE DEF g, Body
  <2> QED
    BY <1>0, <2>3
<1>3. \E f : f = [n \in 0 .. MaxId |-> Body(f, n)]
  <2> HIDE DEF Body
  <2>1. \A n \in 0 .. MaxId - 1 : n \in T => n + 1 \in T
    BY <1>2
  <2>2. MaxId \in T
    <3> HIDE DEF T
    <3>1. \A n \in 0 .. MaxId : n \in T
      BY <1>0, <1>1, <2>1, CountedTo
    <3> QED
      BY <1>0, <3>1
  <2> QED
    BY <2>2
<1> DEFINE whole == CHOOSE f : f = [n \in 0 .. MaxId |-> Body(f, n)]
<1>4. BuyContainer(m) = whole[MaxId]
  BY Zenon DEF BuyContainer, Bought, Objects
<1>5. whole = [n \in 0 .. MaxId |-> Body(whole, n)]
  <2> HIDE DEF Body
  <2> QED
    BY <1>3
<1> HIDE DEF whole, Body
<1>6. /\ whole[0] = Body(whole, 0)
      /\ \A n \in 0 .. MaxId - 1 : whole[n + 1] = Body(whole, n + 1)
  BY <1>0, <1>5
<1>7. /\ whole[0] = Bought(m, m, 0)
      /\ \A n \in 0 .. MaxId - 1 : whole[n + 1] = Bought(m, whole[n], n + 1)
  <2>1. \A n \in 0 .. MaxId - 1 : n + 1 # 0 /\ n + 1 - 1 = n
    BY <1>0
  <2> QED
    BY <1>6, <2>1 DEF Body
<1> QED
  BY <1>4, <1>7

(* The entries from id k on, which remain to be paid.                      *)
Remaining(m, k) == {bp \in InBag(m) : bp.bo_id >= k}

LEMMA BuyContainerCalm ==
  ASSUME NEW m, Sound(m), CostInBag(m) <= Funds(m), m.obj[Bag].where = "inv",
         ~\E bp \in InBag(m) : PartlyUsedUp(m, bp), NEW n, n = BuyContainer(m)
  PROVE  Calm(m, n)
<1> DEFINE fun == [bp \in InBag(m) |-> bp.price * Quan(m, bp)]
<1>0. /\ MaxId \in Nat /\ Objects \subseteq Nat /\ m \in Rec /\ IsFiniteSet(m.shk.bill)
      /\ m.shk.bill \in SUBSET Bill /\ InBag(m) \in SUBSET m.shk.bill /\ Funds(m) \in Nat
  BY ShopAssumption DEF Objects, Sound, Rec, Keeper, Hero, BillRight, InBag, Funds
<1>1. IsFiniteSet(InBag(m)) /\ fun \in [InBag(m) -> Nat]
  <2>1. \A bp \in InBag(m) : bp.price \in Nat /\ Quan(m, bp) \in Nat
    BY <1>0 DEF Bill, Quan, Rec, Obj
  <2>2. \A bp \in InBag(m) : bp.price * Quan(m, bp) \in Nat
    BY <2>1
  <2> QED
    BY <1>0, <2>2, FS_Subset
<1>2. CostInBag(m) = SumFunction(fun)
  BY DEF CostInBag
<1> HIDE DEF fun
<1>a. PICK sum : SumsUp(sum, InBag(m), fun)
  BY <1>1, SumAlong
<1>3. /\ SumFunction(fun) = sum[InBag(m)] /\ sum[{}] = 0
      /\ \A s \in SUBSET InBag(m) : sum[s] \in Nat
      /\ \A s \in SUBSET InBag(m) : \A x \in s : sum[s] = fun[x] + sum[s \ {x}]
  BY <1>a DEF SumsUp
<1>4. PICK f : /\ f[0] = Bought(m, m, 0)
               /\ \A i \in 0 .. MaxId - 1 : f[i + 1] = Bought(m, f[i], i + 1)
               /\ BuyContainer(m) = f[MaxId]
  BY BuyContainerUnfolds
<1> DEFINE Left(x, k) == /\ Calm(m, x) /\ Funds(x) \in Nat /\ Funds(x) >= sum[Remaining(m, k)]
                         /\ \A c \in Objects : c >= k => /\ x.obj[c] = m.obj[c]
                                                         /\ Lines(x.shk.bill, c) = Lines(m.shk.bill, c)
<1>5. ASSUME NEW k \in Objects, NEW x, Left(x, k) PROVE Left(Bought(m, x, k), k + 1)
  <2>a. PICK y : y = Bought(m, x, k)
    OBVIOUS
  <2>b. PICK some \in BOOLEAN : some <=> \E bp \in InBag(m) : bp.bo_id = k
    OBVIOUS
  <2>0. k \in Nat /\ Remaining(m, k) \in SUBSET InBag(m) /\ Remaining(m, k + 1) \in SUBSET InBag(m)
    BY <1>0 DEF Remaining
  <2>1. CASE ~some
    <3>1. y = x
      BY <2>1, <2>a, <2>b DEF Bought
    <3>2. Remaining(m, k + 1) = Remaining(m, k)
      <4>1. \A bp \in InBag(m) : bp.bo_id \in Nat /\ bp.bo_id # k
        BY <1>0, <2>1, <2>b DEF Bill
      <4>2. \A bp \in InBag(m) : bp.bo_id >= k + 1 <=> bp.bo_id >= k
        BY <2>0, <4>1
      <4> QED
        BY <4>2 DEF Remaining
    <3>3. \A c \in Objects : c >= k + 1 => c >= k
      BY <1>0, <2>0
    <3> QED
      BY <1>5, <2>a, <3>1, <3>2, <3>3
  <2>2. CASE some
    <3>a. PICK e : e = Entry(m, k)
      OBVIOUS
    <3>1. /\ y = BuyEntry(x, e) /\ e \in InBag(m) /\ e \in m.shk.bill /\ e \in Bill /\ e.bo_id = k
          /\ Lines(m.shk.bill, k) = {e}
      <4>1. PICK bp \in InBag(m) : bp.bo_id = k
        BY <2>2, <2>b
      <4>2. Billed(m, k) /\ bp \in Lines(m.shk.bill, k)
        BY <1>0, <4>1 DEF Billed, Lines
      <4>3. Lines(m.shk.bill, k) = {e} /\ e \in m.shk.bill /\ e \in Bill /\ e.bo_id = k
        BY <3>a, <4>2, TheEntry
      <4>4. bp = e
        BY <4>2, <4>3
      <4>5. y = BuyEntry(x, e)
        BY <2>2, <2>a, <2>b, <3>a DEF Bought
      <4> QED
        BY <4>1, <4>3, <4>4, <4>5
    <3>2. e \in x.shk.bill /\ Sound(x)
      <4>1. Lines(x.shk.bill, k) = {e}
        BY <1>5, <2>0, <3>1
      <4> QED
        BY <1>5, <4>1 DEF Lines, Calm
    <3>3. e.bquan = Quan(m, e)
      <4>1. Quan(m, e) \in Nat /\ e.bquan \in Nat /\ e.bquan >= Quan(m, e)
        <5>1. e.bquan >= m.obj[k].quan
          BY <3>1, <3>a, TheEntry DEF Billed
        <5> QED
          BY <1>0, <3>1, <5>1 DEF Quan, Rec, Obj, Bill
      <4>2. ~FullyUsedUp(m, e)
        BY <3>1 DEF FullyUsedUp, InBag
      <4>3. ~(Quan(m, e) < e.bquan)
        BY <3>1, <4>2 DEF PartlyUsedUp
      <4> QED
        BY <4>1, <4>3
    <3>b. PICK cost : cost = e.price * e.bquan
      OBVIOUS
    <3>4. cost \in Nat /\ cost = fun[e]
      BY <1>1, <3>1, <3>3, <3>b DEF fun
    <3>5. sum[Remaining(m, k)] = cost + sum[Remaining(m, k + 1)] /\ sum[Remaining(m, k + 1)] \in Nat
      <4>1. e \in Remaining(m, k)
        BY <2>0, <3>1 DEF Remaining
      <4>2. Remaining(m, k) \ {e} = Remaining(m, k + 1)
        <5>1. \A bp \in InBag(m) : bp.bo_id \in Nat /\ (bp.bo_id = k <=> bp = e)
          <6>1. \A bp \in InBag(m) : bp.bo_id = k => bp \in Lines(m.shk.bill, k)
            BY <1>0 DEF Lines
          <6> QED
            BY <1>0, <3>1, <6>1 DEF Bill
        <5>2. \A bp \in InBag(m) : bp.bo_id >= k + 1 <=> bp.bo_id >= k /\ bp # e
          BY <2>0, <5>1
        <5> QED
          BY <5>2 DEF Remaining
      <4> QED
        BY <1>3, <2>0, <3>4, <4>1, <4>2
    <3>6. cost <= Funds(x)
      BY <1>5, <3>4, <3>5
    <3>7. /\ Calm(x, y) /\ Funds(y) = Funds(x) - cost
          /\ \A c \in Objects : c # k => /\ y.obj[c] = x.obj[c]
                                         /\ Lines(y.shk.bill, c) = Lines(x.shk.bill, c)
      BY <3>1, <3>2, <3>6, <3>b, BuyEntryCalm
    <3>8. Calm(m, y)
      BY <1>5, <3>7, CalmTrans
    <3>9. Funds(y) \in Nat /\ Funds(y) >= sum[Remaining(m, k + 1)]
      BY <1>5, <3>4, <3>5, <3>6, <3>7
    <3>10. \A c \in Objects : c >= k + 1 => c >= k /\ c # k
      BY <1>0, <2>0
    <3> QED
      BY <1>5, <2>a, <3>7, <3>8, <3>9, <3>10
  <2> QED
    BY <2>1, <2>2
<1>6. Left(m, 0)
  <2>1. Remaining(m, 0) = InBag(m)
    <3>1. \A bp \in InBag(m) : bp.bo_id >= 0
      <4>1. \A bp \in InBag(m) : bp.bo_id \in Nat
        BY <1>0 DEF Bill
      <4> QED
        BY <4>1
    <3> QED
      BY <3>1 DEF Remaining
  <2> QED
    BY <1>0, <1>2, <1>3, <2>1, CalmSelf
<1> DEFINE T == {i \in 0 .. MaxId : Left(f[i], i + 1)}
<1>7. 0 \in T
  <2> HIDE DEF Left
  <2>1. 0 \in Objects /\ 0 \in 0 .. MaxId
    BY <1>0 DEF Objects
  <2>2. Left(Bought(m, m, 0), 0 + 1)
    BY <1>5, <1>6, <2>1
  <2> QED
    BY <1>4, <2>1, <2>2
<1>8. \A i \in 0 .. MaxId - 1 : i \in T => i + 1 \in T
  <2> HIDE DEF Left
  <2> SUFFICES ASSUME NEW i \in 0 .. MaxId - 1, i \in T PROVE i + 1 \in T
    OBVIOUS
  <2>1. i + 1 \in Objects /\ i + 1 \in 0 .. MaxId
    BY <1>0 DEF Objects
  <2>2. Left(Bought(m, f[i], i + 1), i + 1 + 1)
    BY <1>5, <2>1
  <2> QED
    BY <1>4, <2>1, <2>2
<1> HIDE DEF T
<1>9. MaxId \in T
  <2>1. \A i \in 0 .. MaxId : i \in T
    BY <1>0, <1>7, <1>8, CountedTo
  <2> QED
    BY <1>0, <2>1
<1> QED
  BY <1>4, <1>9 DEF T

----------------------------------------------------------------------------
(* The invariant: a sound state nothing is complained of but by dopay(),   *)
(* and, unless the game is over, all things in their places and the        *)
(* shopkeeper aware of who is in his shop.                                 *)

Grounded(m) == \A c \in Objects : m.obj[c].where # "loose"
Quiet(m) == m.wrong \subseteq Fatal \cup {"dopay: not to shopkeeper"}
Good(m) == Sound(m) /\ Quiet(m) /\ (Over(m) \/ (Grounded(m) /\ Placed(m)))
Inv == Good(State)

(* What an action starts from.                                             *)
Fine(m) == /\ Sound(m) /\ Grounded(m) /\ Placed(m) /\ m.shk.at # "dead"
           /\ m.wrong \subseteq {"dopay: not to shopkeeper"}

LEMMA Begins ==
  ASSUME Inv, NEW m, Commit(m)
  PROVE  Fine(State) /\ "no room" \notin m.wrong
<1>1. ~Over(State) /\ shk.at # "dead" /\ "no room" \notin m.wrong
  BY DEF Commit
<1>2. State.shk = shk
  BY DEF State
<1>3. Good(State)
  BY DEF Inv
<1>4. State.wrong \subseteq {"dopay: not to shopkeeper"}
  BY <1>1, <1>3 DEF Good, Quiet, Over
<1> QED
  BY <1>1, <1>2, <1>3, <1>4 DEF Good, Fine

LEMMA Ends ==
  ASSUME NEW m, Commit(m), Good(m)
  PROVE  Inv'
<1>1. m \in Rec
  BY DEF Good, Sound
<1>2. m = [obj |-> m.obj, shk |-> m.shk, hero |-> m.hero, wrong |-> m.wrong]
  BY <1>1 DEF Rec
<1>3. State' = m
  BY <1>2 DEF State, Commit
<1>4. Good(State')
  BY <1>3
<1> QED
  BY <1>4 DEF Inv

LEMMA EndsCalm ==
  ASSUME NEW k, Fine(k), NEW m, Commit(m), Calm(k, m)
  PROVE  Inv'
<1>1. "no room" \notin m.wrong
  BY DEF Commit
<1>2. Quiet(m)
  BY <1>1 DEF Fine, Calm, Quiet
<1>3. Grounded(m)
  BY DEF Fine, Calm, Grounded
<1>4. Placed(m)
  BY CalmStays DEF Fine
<1>5. Good(m)
  BY <1>2, <1>3, <1>4 DEF Good, Calm
<1> QED
  BY <1>5, Ends

LEMMA EndsStays ==
  ASSUME NEW k, Fine(k), NEW m, Commit(m), Stays(k, m), Placed(m)
  PROVE  Inv'
<1>1. "no room" \notin m.wrong
  BY DEF Commit
<1>2. Quiet(m)
  BY <1>1 DEF Fine, Stays, Quiet
<1>3. Grounded(m)
  BY DEF Fine, Stays, Grounded
<1>5. Good(m)
  BY <1>2, <1>3 DEF Good, Stays
<1> QED
  BY <1>5, Ends

(* The hero moves; nothing else does.                                      *)
LEMMA MovedSound ==
  ASSUME NEW m, Sound(m), NEW n, n \in Rec, n.obj = m.obj, n.shk = m.shk, n.wrong = m.wrong
  PROVE  Sound(n)
<1>1. BagRight(n.obj) /\ n.shk.loan <= n.shk.debit
  BY DEF Sound, BillRight
<1> QED
  BY <1>1, SoundSame

(* ASSUME Inv and an action: what State and the committed record are.      *)
LEMMA StateParts ==
  ASSUME Fine(State)
  PROVE  /\ State.obj = obj /\ State.shk = shk /\ State.hero = hero /\ State.wrong = wrong
         /\ Sound(State) /\ Placed(State) /\ State \in Rec /\ shk \in Keeper /\ hero \in Hero
         /\ \A o \in Objects : obj[o] \in Obj
<1>1. State.obj = obj /\ State.shk = shk /\ State.hero = hero /\ State.wrong = wrong
  BY DEF State
<1>2. Sound(State) /\ Placed(State) /\ State \in Rec
  BY DEF Fine, Sound
<1> QED
  BY <1>1, <1>2 DEF Rec

LEMMA WalkKeeps ==
  ASSUME Inv, NEW p \in {"inside", "spot", "street"}, Walk(p)
  PROVE  Inv'
<1>a. PICK m : m = [State EXCEPT !.hero.at = p]
  OBVIOUS
<1>b. PICK r : r = CheckSpecialRoom(m)
  OBVIOUS
<1>1. Commit(r)
  BY <1>a, <1>b DEF Walk
<1>2. Fine(State) /\ "no room" \notin r.wrong
  BY <1>1, Begins
<1>3. /\ m \in Rec /\ m.obj = State.obj /\ m.shk = State.shk /\ m.wrong = State.wrong
      /\ m.hero.ushops = State.hero.ushops
  BY <1>2, <1>a, StateParts DEF Rec, Hero
<1>4. Sound(m) /\ Minding(m) /\ Grounded(m)
  BY <1>2, <1>3, MovedSound DEF Fine, Placed, Minding, Tended, Grounded
<1>5. Stays(m, r) /\ Placed(r)
  BY <1>4, <1>b, CheckSpecialRoomStays
<1>6. Quiet(r) /\ Grounded(r)
  BY <1>2, <1>3, <1>4, <1>5 DEF Quiet, Grounded, Fine, Stays
<1>7. Good(r)
  BY <1>5, <1>6 DEF Good, Stays
<1> QED
  BY <1>1, <1>7, Ends

LEMMA LeaveLevelKeeps ==
  ASSUME Inv, LeaveLevel
  PROVE  Inv'
<1>a. PICK m : m = [State EXCEPT !.hero.at = "away", !.hero.ushops = FALSE]
  OBVIOUS
<1>b. PICK r : r = IF hero.ushops THEN LeftShop(m) ELSE m
  OBVIOUS
<1>1. Commit(r)
  BY <1>a, <1>b DEF LeaveLevel
<1>2. Fine(State) /\ "no room" \notin r.wrong
  BY <1>1, Begins
<1>3. /\ m \in Rec /\ m.obj = State.obj /\ m.shk = State.shk /\ m.wrong = State.wrong
      /\ ~m.hero.ushops /\ m.hero.at = "away"
  BY <1>2, <1>a, StateParts DEF Rec, Hero
<1>4. Sound(m) /\ Grounded(m)
  BY <1>2, <1>3, MovedSound DEF Fine, Grounded
<1>5. Calm(m, r)
  BY <1>4, <1>b, LeftShopCalm, CalmSelf
<1>6. r.shk.bill = {}
  <2>1. (hero.ushops /\ Tended(State)) \/ shk.bill = {}
    BY <1>2, StateParts DEF Placed, Minding
  <2>2. hero.ushops /\ Tended(m) => r.shk.bill = {}
    BY <1>4, <1>b, LeftShopCalm
  <2>3. Tended(m) <=> Tended(State)
    BY <1>3 DEF Tended
  <2> QED
    BY <1>2, <1>3, <1>5, <2>1, <2>2, <2>3, StateParts DEF Calm
<1>7. r.hero.at = "away" /\ ~r.hero.ushops
  BY <1>3, <1>5 DEF Calm
<1>8. Placed(r)
  BY <1>6, <1>7 DEF Placed, Minding
<1>9. Quiet(r) /\ Grounded(r)
  BY <1>2, <1>3, <1>4, <1>5 DEF Quiet, Grounded, Fine, Calm
<1>10. Good(r)
  BY <1>5, <1>8, <1>9 DEF Good, Calm
<1> QED
  BY <1>1, <1>10, Ends

----------------------------------------------------------------------------
(* Gold, payment, and how the shopkeeper feels about it.                   *)

(* Gold changes hands, the bill does not.                                  *)
LEMMA GoldMoved ==
  ASSUME NEW m, Sound(m), NEW till \in Nat, NEW gold \in Nat,
         NEW n, n = [m EXCEPT !.hero.till = till, !.hero.gold = gold]
  PROVE  Calm(m, n) /\ n.obj = m.obj /\ n.shk = m.shk /\ n.wrong = m.wrong
<1>1. m \in Rec /\ m.shk.loan <= m.shk.debit
  BY DEF Sound, BillRight
<1>2. /\ n \in Rec /\ n.obj = m.obj /\ n.shk = m.shk /\ n.wrong = m.wrong
      /\ n.hero.at = m.hero.at /\ n.hero.ushops = m.hero.ushops
  BY <1>1 DEF Rec, Hero
<1> QED
  BY <1>1, <1>2, Booked

LEMMA TakeGoldKeeps ==
  ASSUME Inv, TakeGold
  PROVE  Inv'
<1>a. PICK m : m = [State EXCEPT !.hero.till = @ - 1, !.hero.gold = @ + 1]
  OBVIOUS
<1>b. PICK owed \in {0, 1} : owed = IF shk.credit = 0 THEN 1 ELSE 0
  OBVIOUS
<1>c. PICK k : k = ShopKeeper(m)
  OBVIOUS
<1>d. PICK c : c = CheckCredit(k, 1)
  OBVIOUS
<1>e. PICK p : p = [c EXCEPT !.shk.debit = @ + owed, !.shk.loan = @ + owed]
  OBVIOUS
<1>f. PICK r : r = IF ~Tended(m) THEN m ELSE p
  OBVIOUS
<1>1. Commit(r) /\ hero.till > 0
  BY <1>a, <1>b, <1>c, <1>d, <1>e, <1>f DEF TakeGold
<1>2. Fine(State)
  BY <1>1, Begins
<1>3. Calm(State, m) /\ Sound(m)
  <2>a. PICK till : till = hero.till - 1
    OBVIOUS
  <2>b. PICK gold : gold = hero.gold + 1
    OBVIOUS
  <2>1. till \in Nat /\ gold \in Nat
    BY <1>1, <1>2, <2>a, <2>b, StateParts DEF Hero
  <2>2. m = [State EXCEPT !.hero.till = till, !.hero.gold = gold]
    BY <1>2, <1>a, <2>a, <2>b, StateParts
  <2>3. Calm(State, m)
    BY <1>2, <2>1, <2>2, GoldMoved DEF Fine
  <2> QED
    BY <2>3 DEF Calm
<1>4. Calm(m, k) /\ Sound(k)
  BY <1>3, <1>c, ShopKeeperCalm DEF Calm
<1>5. Calm(k, c) /\ Sound(c) /\ c \in Rec /\ c.shk \in Keeper
  <2>1. Calm(k, c)
    BY <1>4, <1>d, CheckCreditCalm
  <2> QED
    BY <2>1 DEF Calm, Sound, Rec
<1>6. Calm(c, p)
  <2>a. PICK debit : debit = c.shk.debit + owed
    OBVIOUS
  <2>b. PICK loan : loan = c.shk.loan + owed
    OBVIOUS
  <2>1. debit \in Nat /\ loan \in Nat /\ loan <= debit
    BY <1>5, <2>a, <2>b DEF Sound, BillRight, Keeper
  <2>2. p = [c EXCEPT !.shk.debit = debit, !.shk.loan = loan]
    BY <1>5, <1>e, <2>a, <2>b DEF Keeper, Rec
  <2>3. /\ p \in Rec /\ p.obj = c.obj /\ p.hero = c.hero /\ p.wrong = c.wrong
        /\ p.shk.at = c.shk.at /\ p.shk.bill_p = c.shk.bill_p /\ p.shk.bill = c.shk.bill
        /\ p.shk.billsz = c.shk.billsz /\ p.shk.surcharge = c.shk.surcharge
        /\ p.shk.loan = loan /\ p.shk.debit = debit
    BY <1>5, <2>1, <2>2 DEF Rec, Keeper
  <2> QED
    BY <1>5, <2>1, <2>3, Booked
<1>7. Calm(State, r)
  BY <1>3, <1>4, <1>5, <1>6, <1>f, CalmTrans
<1> QED
  BY <1>1, <1>2, <1>7, EndsCalm

LEMMA DropGoldKeeps ==
  ASSUME Inv, DropGold
  PROVE  Inv'
<1>a. PICK m : m = [State EXCEPT !.hero.till = @ + 1, !.hero.gold = @ - 1]
  OBVIOUS
<1>f. PICK r : r = IF ~Tended(m) \/ ~hero.ushops \/ shk.angry THEN m ELSE DonateGold(m, 1)
  OBVIOUS
<1>1. Commit(r) /\ hero.gold > 0
  BY <1>a, <1>f DEF DropGold
<1>2. Fine(State)
  BY <1>1, Begins
<1>3. Calm(State, m) /\ Sound(m)
  <2>a. PICK till : till = hero.till + 1
    OBVIOUS
  <2>b. PICK gold : gold = hero.gold - 1
    OBVIOUS
  <2>1. till \in Nat /\ gold \in Nat
    BY <1>1, <1>2, <2>a, <2>b, StateParts DEF Hero
  <2>2. m = [State EXCEPT !.hero.till = till, !.hero.gold = gold]
    BY <1>2, <1>a, <2>a, <2>b, StateParts
  <2>3. Calm(State, m)
    BY <1>2, <2>1, <2>2, GoldMoved DEF Fine
  <2> QED
    BY <2>3 DEF Calm
<1>4. Calm(m, DonateGold(m, 1))
  BY <1>3, DonateGoldCalm
<1>5. Calm(State, r)
  BY <1>3, <1>4, <1>f, CalmTrans
<1> QED
  BY <1>1, <1>2, <1>5, EndsCalm

LEMMA SettleDebitKeeps ==
  ASSUME Inv, SettleDebit
  PROVE  Inv'
<1>a. PICK r : r = PayDebit(State)
  OBVIOUS
<1>1. Commit(r) /\ Funds(State) >= shk.debit
  BY <1>a DEF SettleDebit
<1>2. Fine(State)
  BY <1>1, Begins
<1>3. State.shk.debit <= Funds(State)
  BY <1>1, <1>2, StateParts DEF Funds, Keeper, Hero
<1>4. Calm(State, r)
  BY <1>2, <1>3, <1>a, PayDebitCalm DEF Fine
<1> QED
  BY <1>1, <1>2, <1>4, EndsCalm

LEMMA BuyIntactKeeps ==
  ASSUME Inv, NEW bp \in shk.bill, BuyIntact(bp)
  PROVE  Inv'
<1>a. PICK r : r = BuyEntry(State, bp)
  OBVIOUS
<1>1. Commit(r) /\ Funds(State) >= bp.price * bp.bquan
  BY <1>a DEF BuyIntact
<1>2. Fine(State)
  BY <1>1, Begins
<1>b. PICK cost : cost = bp.price * bp.bquan
  OBVIOUS
<1>3. Funds(State) \in Nat /\ bp \in State.shk.bill /\ cost \in Nat
  BY <1>2, <1>b, StateParts DEF Funds, Keeper, Hero, Bill
<1>4. bp.price * bp.bquan <= Funds(State)
  BY <1>1, <1>3, <1>b
<1>5. Calm(State, r)
  BY <1>2, <1>3, <1>4, <1>a, BuyEntryCalm DEF Fine
<1> QED
  BY <1>1, <1>2, <1>5, EndsCalm

LEMMA BuyUsedKeeps ==
  ASSUME Inv, NEW bp \in shk.bill, BuyUsed(bp)
  PROVE  Inv'
<1>a. PICK r : r = BuyUsedUp(State, bp)
  OBVIOUS
<1>b. PICK cost : cost = bp.price * (bp.bquan - Quan(State, bp))
  OBVIOUS
<1>1. Commit(r) /\ Funds(State) >= cost /\ PartlyUsedUp(State, bp)
  BY <1>a, <1>b DEF BuyUsed
<1>2. Fine(State)
  BY <1>1, Begins
<1>3. Funds(State) \in Nat /\ bp \in State.shk.bill /\ cost \in Int
  <2>1. Quan(State, bp) \in Nat /\ bp.bquan \in Nat /\ bp.price \in Nat
    BY <1>2, StateParts DEF Quan, Keeper, Bill, Obj
  <2>2. bp.bquan - Quan(State, bp) \in Int
    BY <2>1
  <2> QED
    BY <1>2, <1>b, <2>1, <2>2, StateParts DEF Funds, Keeper, Hero
<1>4. bp.price * (bp.bquan - Quan(State, bp)) <= Funds(State)
  BY <1>1, <1>3, <1>b
<1>5. Calm(State, r)
  BY <1>1, <1>2, <1>3, <1>4, <1>a, BuyUsedUpCalm DEF Fine
<1> QED
  BY <1>1, <1>2, <1>5, EndsCalm

LEMMA BuyBagKeeps ==
  ASSUME Inv, BuyBag
  PROVE  Inv'
<1>a. PICK r : r = BuyContainer(State)
  OBVIOUS
<1>1. /\ Commit(r) /\ Funds(State) >= CostInBag(State) /\ obj[Bag].where = "inv"
      /\ ~\E bp \in InBag(State) : PartlyUsedUp(State, bp)
  BY <1>a DEF BuyBag
<1>2. Fine(State)
  BY <1>1, Begins
<1>3. CostInBag(State) <= Funds(State) /\ State.obj[Bag].where = "inv"
  BY <1>1, <1>2, StateParts
<1>4. Calm(State, r)
  BY <1>1, <1>2, <1>3, <1>a, BuyContainerCalm DEF Fine
<1> QED
  BY <1>1, <1>2, <1>4, EndsCalm

LEMMA CompensateKeeps ==
  ASSUME Inv, Compensate
  PROVE  Inv'
<1>a. PICK n : n = Min({hero.gold, shk.robbed})
  OBVIOUS
<1>b. PICK p : p = Pay(State, n)
  OBVIOUS
<1>c. PICK r : r = MakeHappy(p)
  OBVIOUS
<1>1. Commit(r)
  BY <1>a, <1>b, <1>c DEF Compensate
<1>2. Fine(State)
  BY <1>1, Begins
<1>3. hero.gold \in Nat /\ shk.robbed \in Nat /\ shk.credit \in Nat
  BY <1>2, StateParts DEF Hero, Keeper
<1>4. n \in Nat /\ n <= hero.gold
  BY <1>3, <1>a, MinTwo
<1>5. n <= Funds(State)
  BY <1>2, <1>3, <1>4, StateParts DEF Funds
<1>6. Calm(State, p)
  BY <1>2, <1>4, <1>5, <1>b, PayCalm DEF Fine
<1>7. Stays(State, p) /\ Placed(p) /\ p.shk.at # "dead" /\ Sound(p)
  BY <1>2, <1>6, CalmStays DEF Fine, Calm
<1>8. Stays(p, r) /\ Placed(r)
  BY <1>7, <1>c, MakeHappyStays
<1>9. Stays(State, r)
  BY <1>7, <1>8, StaysTrans
<1> QED
  BY <1>1, <1>2, <1>8, <1>9, EndsStays

LEMMA AppeaseKeeps ==
  ASSUME Inv, NEW happy \in BOOLEAN, Appease(happy)
  PROVE  Inv'
<1>b. PICK p : p = Pay(State, Peace)
  OBVIOUS
<1>c. PICK r : r = IF happy THEN MakeHappy(p) ELSE p
  OBVIOUS
<1>1. Commit(r) /\ hero.gold >= Peace
  BY <1>b, <1>c DEF Appease
<1>2. Fine(State)
  BY <1>1, Begins
<1>3. hero.gold \in Nat /\ shk.credit \in Nat /\ Peace \in Nat
  BY <1>2, StateParts, ShopAssumption DEF Hero, Keeper
<1>5. Peace <= Funds(State)
  BY <1>1, <1>2, <1>3, StateParts DEF Funds
<1>6. Calm(State, p)
  BY <1>2, <1>3, <1>5, <1>b, PayCalm DEF Fine
<1>7. Stays(State, p) /\ Placed(p) /\ p.shk.at # "dead" /\ Sound(p)
  BY <1>2, <1>6, CalmStays DEF Fine, Calm
<1>8. CASE happy
  <2>1. Stays(p, r) /\ Placed(r)
    BY <1>7, <1>8, <1>c, MakeHappyStays
  <2>2. Stays(State, r)
    BY <1>7, <2>1, StaysTrans
  <2> QED
    BY <1>1, <1>2, <2>1, <2>2, EndsStays
<1>9. CASE ~happy
  <2>1. r = p
    BY <1>9, <1>c
  <2> QED
    BY <1>1, <1>2, <1>6, <2>1, EndsCalm
<1> QED
  BY <1>8, <1>9

LEMMA TameKeeps ==
  ASSUME Inv, Tame
  PROVE  Inv'
<1>a. PICK r : r = MakeHappy(State)
  OBVIOUS
<1>1. Commit(r)
  BY <1>a DEF Tame
<1>2. Fine(State)
  BY <1>1, Begins
<1>3. Stays(State, r) /\ Placed(r)
  BY <1>2, <1>a, MakeHappyStays DEF Fine
<1> QED
  BY <1>1, <1>2, <1>3, EndsStays

LEMMA PayElsewhereKeeps ==
  ASSUME Inv, PayElsewhere
  PROVE  Inv'
<1>a. PICK r : r = Complain(State, "dopay: not to shopkeeper")
  OBVIOUS
<1>1. Commit(r)
  BY <1>a DEF PayElsewhere
<1>2. Fine(State)
  BY <1>1, Begins
<1>3. /\ r \in Rec /\ r.obj = State.obj /\ r.shk = State.shk /\ r.hero = State.hero
      /\ r.wrong = State.wrong \cup {"dopay: not to shopkeeper"}
  BY <1>2, <1>a, StateParts DEF Complain, Rec, Words
<1>4. Sound(r)
  <2>1. BagRight(r.obj) /\ r.shk.loan <= r.shk.debit /\ Sound(State)
    BY <1>2, <1>3 DEF Fine, Sound, BillRight
  <2> QED
    BY <1>3, <2>1, SoundSame
<1>5. Grounded(r) /\ Placed(r) /\ Quiet(r)
  BY <1>2, <1>3 DEF Fine, Grounded, Placed, Minding, Tended, Quiet
<1>6. Good(r)
  BY <1>4, <1>5 DEF Good
<1> QED
  BY <1>1, <1>6, Ends

LEMMA AttackKeeps ==
  ASSUME Inv, Attack
  PROVE  Inv'
<1>a. PICK m : m = [State EXCEPT !.shk.angry = TRUE]
  OBVIOUS
<1>b. PICK r : r = IF hero.ushops THEN m ELSE HotPursuit(State)
  OBVIOUS
<1>1. Commit(r)
  BY <1>a, <1>b DEF Attack
<1>2. Fine(State)
  BY <1>1, Begins
<1>3. /\ m \in Rec /\ m.obj = State.obj /\ m.hero = State.hero /\ m.wrong = State.wrong
      /\ m.shk.at = State.shk.at /\ m.shk.bill_p = State.shk.bill_p /\ m.shk.bill = State.shk.bill
      /\ m.shk.billsz = State.shk.billsz /\ m.shk.surcharge = State.shk.surcharge
      /\ m.shk.loan = State.shk.loan /\ m.shk.debit = State.shk.debit
  BY <1>2, <1>a, StateParts DEF Rec, Keeper
<1>4. Calm(State, m)
  BY <1>2, <1>3, Booked DEF Fine, Sound, BillRight
<1>5. Calm(State, HotPursuit(State))
  BY <1>2, HotPursuitCalm DEF Fine
<1> QED
  BY <1>1, <1>2, <1>4, <1>5, <1>b, EndsCalm

LEMMA DamageKeeps ==
  ASSUME Inv, NEW paid \in BOOLEAN, Damage(paid)
  PROVE  Inv'
<1>a. PICK gold : gold = AfterCredit(State, 1)
  OBVIOUS
<1>b. PICK p : p = [CheckCredit(State, 1) EXCEPT !.hero.gold = @ - gold, !.shk.cash = @ + gold]
  OBVIOUS
<1>c. PICK r : r = IF ~paid THEN HotPursuit(State) ELSE p
  OBVIOUS
<1>1. Commit(r) /\ (paid => Funds(State) >= 1)
  BY <1>a, <1>b, <1>c DEF Damage
<1>2. Fine(State) /\ Sound(State)
  BY <1>1, Begins DEF Fine
<1>3. CASE ~paid
  <2>1. Calm(State, r)
    BY <1>2, <1>3, <1>c, HotPursuitCalm
  <2> QED
    BY <1>1, <1>2, <2>1, EndsCalm
<1>4. CASE paid
  <2>0. /\ shk.debit \in Nat /\ shk.loan \in Nat /\ shk.robbed \in Nat /\ shk.loan <= shk.debit
        /\ Funds(State) \in Nat
    BY <1>2, StateParts DEF Keeper, Hero, Funds, Sound, BillRight
  <2>a. PICK c : c = CheckCredit(State, 1)
    OBVIOUS
  <2>b. PICK x : x = c.shk.credit
    OBVIOUS
  <2>1. c.shk = [shk EXCEPT !.credit = x] /\ c \in Rec
    <3>1. Calm(State, c) /\ c.shk = [State.shk EXCEPT !.credit = c.shk.credit]
      BY <1>2, <2>a, CheckCreditCalm
    <3> QED
      BY <1>2, <2>b, <3>1, StateParts DEF Calm, Sound
  <2>2. c.shk.debit = shk.debit /\ c.shk.loan = shk.loan /\ c.shk.robbed = shk.robbed /\ c.shk \in Keeper
    BY <1>2, <2>1, StateParts DEF Keeper, Rec
  <2>3. p = [c EXCEPT !.hero.gold = @ - gold, !.shk.cash = @ + gold]
    BY <1>b, <2>a
  <2>c. PICK q : q = c.shk
    OBVIOUS
  <2>4. [q EXCEPT !.cash = @ + gold]
        = [q EXCEPT !.cash = @ + gold, !.debit = shk.debit, !.loan = shk.loan, !.robbed = shk.robbed]
    BY <2>2, <2>c DEF Keeper
  <2>5. p = Paid(State, 1, shk.debit, shk.loan, shk.robbed)
    BY <1>a, <2>a, <2>3, <2>4, <2>c DEF Paid
  <2>6. 1 <= Funds(State)
    BY <1>1, <1>4, <2>0
  <2>7. Calm(State, p)
    BY <1>2, <2>0, <2>5, <2>6, PaidCalm
  <2> QED
    BY <1>1, <1>2, <1>4, <1>c, <2>7, EndsCalm
<1> QED
  BY <1>3, <1>4

----------------------------------------------------------------------------
(* The shopkeeper's own moves.                                             *)

(* He is elsewhere, or gone; neither the bill nor anything else changes.   *)
Whereabouts(m, w) == [m EXCEPT !.shk.at = w]
LEMMA ShkMoved ==
  ASSUME NEW m, Sound(m), NEW w \in {"home", "out", "dead"}, NEW n, n = Whereabouts(m, w)
  PROVE  /\ Stays(m, n) /\ n \in Rec /\ n.obj = m.obj /\ n.hero = m.hero /\ n.wrong = m.wrong
         /\ n.shk.at = w /\ n.shk.bill = m.shk.bill /\ n.shk.bill_p = m.shk.bill_p
<1>1. m \in Rec /\ m.shk \in Keeper
  BY DEF Sound, Rec
<1>2. /\ n \in Rec /\ n.obj = m.obj /\ n.hero = m.hero /\ n.wrong = m.wrong
      /\ n.shk.at = w /\ n.shk.bill = m.shk.bill /\ n.shk.bill_p = m.shk.bill_p
      /\ n.shk.billsz = m.shk.billsz /\ n.shk.surcharge = m.shk.surcharge
      /\ n.shk.loan = m.shk.loan /\ n.shk.debit = m.shk.debit
  BY <1>1 DEF Rec, Keeper, Whereabouts
<1>3. Stays(m, n)
  BY <1>2, Turned
<1> QED
  BY <1>2, <1>3

LEMMA ShkLeavesKeeps ==
  ASSUME Inv, ShkLeaves
  PROVE  Inv'
<1>a. PICK r : r = [State EXCEPT !.shk.at = "out"]
  OBVIOUS
<1>1. Commit(r) /\ shk.bill = {} /\ hero.at = "street"
  BY <1>a DEF ShkLeaves
<1>2. Fine(State)
  BY <1>1, Begins
<1>3. /\ Stays(State, r) /\ r.hero = State.hero /\ r.shk.bill = State.shk.bill
  <2>1. r = Whereabouts(State, "out") /\ Sound(State)
    BY <1>2, <1>a DEF Whereabouts, Fine
  <2> QED
    BY <2>1, ShkMoved
<1>4. Placed(r)
  BY <1>1, <1>2, <1>3, StateParts DEF Placed, Minding
<1> QED
  BY <1>1, <1>2, <1>3, <1>4, EndsStays

LEMMA ShkReturnsKeeps ==
  ASSUME Inv, ShkReturns
  PROVE  Inv'
<1>a. PICK m : m = [State EXCEPT !.shk.at = "home"]
  OBVIOUS
<1>b. PICK r : r = AfterShkMove(m)
  OBVIOUS
<1>1. Commit(r)
  BY <1>a, <1>b DEF ShkReturns
<1>2. Fine(State)
  BY <1>1, Begins
<1>3. /\ Stays(State, m) /\ m.hero = State.hero /\ m.shk.bill = State.shk.bill
      /\ m.shk.bill_p = State.shk.bill_p /\ m.shk.at = "home"
  <2>1. m = Whereabouts(State, "home") /\ Sound(State)
    BY <1>2, <1>a DEF Whereabouts, Fine
  <2> QED
    BY <2>1, ShkMoved
<1>4. Placed(m) /\ Minding(m) /\ Sound(m)
  BY <1>2, <1>3 DEF Fine, Placed, Minding, Tended, Stays
<1>5. Stays(m, r) /\ Placed(r)
  BY <1>4, <1>b, AfterShkMoveStays
<1>6. Stays(State, r)
  BY <1>3, <1>5, StaysTrans
<1> QED
  BY <1>1, <1>2, <1>5, <1>6, EndsStays

LEMMA TeleportedOutKeeps ==
  ASSUME Inv, TeleportedOut
  PROVE  Inv'
<1>a. PICK m : m = [State EXCEPT !.shk.at = "out"]
  OBVIOUS
<1>b. PICK r : r = MakeAngry(m)
  OBVIOUS
<1>1. Commit(r)
  BY <1>a, <1>b DEF TeleportedOut
<1>2. Fine(State)
  BY <1>1, Begins
<1>3. /\ Stays(State, m) /\ m.hero = State.hero /\ m.shk.bill_p = State.shk.bill_p /\ Sound(m)
  <2>1. m = Whereabouts(State, "out") /\ Sound(State)
    BY <1>2, <1>a DEF Whereabouts, Fine
  <2> QED
    <3>1. Stays(State, m) /\ m.hero = State.hero /\ m.shk.bill_p = State.shk.bill_p
      BY <2>1, ShkMoved
    <3> QED
      BY <3>1 DEF Stays
<1>4. Calm(m, r) /\ r.shk.bill = {}
  BY <1>3, <1>b, MakeAngryCalm
<1>5. Stays(State, r)
  BY <1>3, <1>4, CalmStays, StaysTrans
<1>6. Placed(r)
  BY <1>2, <1>3, <1>4 DEF Calm, Fine, Placed, Minding
<1> QED
  BY <1>1, <1>2, <1>5, <1>6, EndsStays

LEMMA TeleportedHomeKeeps ==
  ASSUME Inv, TeleportedHome
  PROVE  Inv'
<1>a. PICK r : r = [State EXCEPT !.shk.at = "home"]
  OBVIOUS
<1>1. Commit(r)
  BY <1>a DEF TeleportedHome
<1>2. Fine(State)
  BY <1>1, Begins
<1>3. /\ Stays(State, r) /\ r.hero = State.hero /\ r.shk.bill = State.shk.bill
      /\ r.shk.bill_p = State.shk.bill_p /\ r.shk.at = "home"
  <2>1. r = Whereabouts(State, "home") /\ Sound(State)
    BY <1>2, <1>a DEF Whereabouts, Fine
  <2> QED
    BY <2>1, ShkMoved
<1>4. Placed(r)
  BY <1>2, <1>3 DEF Fine, Placed, Minding, Tended
<1> QED
  BY <1>1, <1>2, <1>3, <1>4, EndsStays

(* A bill there is when he dies is a bill of a hero in the shop.           *)
LEMMA ShkDiesKeeps ==
  ASSUME Inv, ShkDies
  PROVE  Inv'
<1>a. PICK k : k = [State EXCEPT !.shk.at = "dead"]
  OBVIOUS
<1>b. PICK m : m = Charged(k, {o \in Objects : obj[o].where \in {"shelf", "spot"}})
  OBVIOUS
<1>c. PICK s : s = SetPaid(m)
  OBVIOUS
<1>d. PICK e : e = [s EXCEPT !.shk.bill_p = "null", !.hero.ushops = FALSE]
  OBVIOUS
<1>e. PICK r : r = IF hero.ushops THEN e ELSE m
  OBVIOUS
<1>1. Commit(r)
  BY <1>a, <1>b, <1>c, <1>d, <1>e DEF ShkDies
<1>2. Fine(State)
  BY <1>1, Begins
<1>3. Stays(State, k) /\ k.hero = State.hero /\ k.shk.bill = State.shk.bill /\ k.shk.at = "dead" /\ Sound(k)
  <2>1. k = Whereabouts(State, "dead") /\ Sound(State)
    BY <1>2, <1>a DEF Whereabouts, Fine
  <2> QED
    <3>1. Stays(State, k) /\ k.hero = State.hero /\ k.shk.bill = State.shk.bill /\ k.shk.at = "dead"
      BY <2>1, ShkMoved
    <3> QED
      BY <3>1 DEF Stays
<1>4. Calm(k, m) /\ m.shk = k.shk
  BY <1>3, <1>b, ChargedCalm
<1>5. Stays(State, m) /\ Sound(m)
  BY <1>3, <1>4, CalmStays, StaysTrans DEF Calm
<1>6. CASE hero.ushops
  <2>1. Calm(m, s) /\ s.shk.bill = {}
    BY <1>5, <1>c, SetPaidCalm
  <2>2. Sound(s) /\ s \in Rec
    BY <2>1 DEF Calm, Sound
  <2>3. /\ e \in Rec /\ e.obj = s.obj /\ e.wrong = s.wrong /\ e.hero.at = s.hero.at
        /\ e.shk.bill = s.shk.bill /\ e.shk.billsz = s.shk.billsz /\ e.shk.surcharge = s.shk.surcharge
        /\ e.shk.loan = s.shk.loan /\ e.shk.debit = s.shk.debit
        /\ e.shk.at = s.shk.at /\ ~e.hero.ushops
    BY <2>2, <1>d DEF Rec, Keeper, Hero
  <2>4. Stays(s, e)
    BY <2>2, <2>3, Turned
  <2>5. Stays(State, e)
    BY <1>5, <2>1, <2>4, CalmStays, StaysTrans
  <2>6. e.shk.at = "dead"
    BY <1>3, <1>4, <2>1, <2>3 DEF Calm
  <2>7. Placed(e)
    BY <2>1, <2>3, <2>6 DEF Placed, Minding
  <2> QED
    BY <1>1, <1>2, <1>6, <1>e, <2>5, <2>7, EndsStays
<1>7. CASE ~hero.ushops
  <2>1. ~m.hero.ushops /\ m.shk.at = "dead" /\ m.shk.bill = {}
    BY <1>2, <1>3, <1>4, <1>7, StateParts DEF Calm, Placed, Minding
  <2>2. Placed(m)
    BY <2>1 DEF Placed, Minding
  <2> QED
    BY <1>1, <1>2, <1>5, <1>7, <1>e, <2>2, EndsStays
<1> QED
  BY <1>6, <1>7

----------------------------------------------------------------------------
(* Handling goods.                                                         *)

(* In the middle of an action, with p in mid-air.                          *)
Mid(m) == Sound(m) /\ Placed(m) /\ m.wrong \subseteq {"no room", "dopay: not to shopkeeper"}
Holds(m, p) == p \in Objects /\ m.obj[p].where = "loose" /\ \A c \in Objects : m.obj[c].where = "loose" => c = p
Done(m) == /\ Sound(m) /\ m.wrong \subseteq Fatal \cup {"no room", "dopay: not to shopkeeper"}
           /\ Over(m) \/ (Grounded(m) /\ Placed(m))

LEMMA EndsDone ==
  ASSUME NEW m, Commit(m), Done(m)
  PROVE  Inv'
<1>1. "no room" \notin m.wrong
  BY DEF Commit
<1>2. Good(m)
  BY <1>1 DEF Done, Good, Quiet
<1> QED
  BY <1>2, Ends

LEMMA MidDone ==
  ASSUME NEW m, Mid(m), Grounded(m)
  PROVE  Done(m)
BY DEF Mid, Done

LEMMA FineMid ==
  ASSUME NEW m, Fine(m)
  PROVE  Mid(m) /\ Grounded(m) /\ m.shk.at # "dead"
BY DEF Fine, Mid

LEMMA MidCalm ==
  ASSUME NEW m, Mid(m), NEW n, Calm(m, n)
  PROVE  /\ Mid(n) /\ (Grounded(m) => Grounded(n)) /\ \A p : Holds(m, p) => Holds(n, p)
<1>1. Placed(n)
  BY CalmStays DEF Mid
<1>2. Mid(n)
  BY <1>1 DEF Mid, Calm
<1> QED
  BY <1>2 DEF Calm, Grounded, Holds

LEMMA MidStays ==
  ASSUME NEW m, Mid(m), NEW n, Stays(m, n), Placed(n)
  PROVE  /\ Mid(n) /\ (Grounded(m) => Grounded(n)) /\ \A p : Holds(m, p) => Holds(n, p)
<1>2. Mid(n)
  BY DEF Mid, Stays
<1> QED
  BY <1>2 DEF Stays, Grounded, Holds

LEMMA MidLands ==
  ASSUME NEW m, Mid(m), NEW o, Grounded(m) \/ Holds(m, o), NEW n, Lands(m, n, o)
  PROVE  Mid(n) /\ Grounded(n)
<1>1. Placed(n) /\ Sound(n)
  BY DEF Mid, Lands, Placed, Minding, Tended
<1>2. Mid(n)
  BY <1>1 DEF Mid, Lands
<1> QED
  BY <1>2 DEF Lands, Grounded, Holds

(* What is unpaid is carried by a hero whom the shopkeeper minds.          *)
LEMMA UnpaidMinded ==
  ASSUME NEW m, Mid(m), NEW o \in Objects, m.obj[o].unpaid
  PROVE  Tended(m) /\ m.hero.ushops
<1>1. Billed(m, o)
  BY NotBilled DEF Mid
<1>2. m.shk.bill # {}
  BY <1>1 DEF Billed
<1> QED
  BY <1>2 DEF Mid, Placed, Minding

LEMMA MidSplits ==
  ASSUME NEW m, Mid(m), Grounded(m), NEW o \in Objects, m.obj[o].where \notin {"none", "bill"},
         NEW n \in 1 .. m.obj[o].quan, NEW k, k = SplitObj(m, o, n), NEW p, p = Piece(m, o, n)
  PROVE  /\ Mid(k) /\ Grounded(k) /\ k.hero = m.hero /\ k.shk.at = m.shk.at
         /\ p \in Objects /\ k.obj[p].where = m.obj[o].where /\ (p = Bag <=> o = Bag)
         /\ k.obj[Bag] = m.obj[Bag]
<1>1. m.obj[o].unpaid => Tended(m) /\ m.hero.ushops
  BY UnpaidMinded
<1>2. Splits(m, k, o, p)
  BY <1>1, SplitObjSplits DEF Mid
<1>3. Placed(k) /\ Sound(k)
  BY <1>2 DEF Mid, Splits, Placed, Minding, Tended
<1>4. Mid(k)
  BY <1>2, <1>3 DEF Mid, Splits
<1>5. Grounded(k)
  BY <1>2 DEF Splits, Grounded
<1> QED
  BY <1>2, <1>4, <1>5 DEF Splits

LEMMA MidPut ==
  ASSUME NEW m, Mid(m), NEW o \in Objects, m.obj[o].where \notin {"none", "bill"},
         NEW w \in Floor \cup {"inv", "bag", "loose", "mon"}, Grounded(m) \/ Holds(m, o),
         o = Bag => w \notin {"bag", "mon"}, w = "bag" => m.obj[Bag].where # "none",
         NEW n, n = Put(m, o, w)
  PROVE  /\ Mid(n) /\ n.shk = m.shk /\ n.hero = m.hero /\ n.obj[o].where = w
         /\ (w # "loose" => Grounded(n)) /\ (w = "loose" => Holds(n, o))
         /\ \A c \in Objects : c # o => n.obj[c] = m.obj[c]
<1>1. /\ Sound(n) /\ n.shk = m.shk /\ n.hero = m.hero /\ n.wrong = m.wrong
      /\ n.obj[o].where = w
      /\ \A c \in Objects : c # o => n.obj[c] = m.obj[c]
  <2>1. Sound(m)
    BY DEF Mid
  <2>2. LET k == Put(m, o, w) IN
        /\ Sound(k) /\ k.shk = m.shk /\ k.hero = m.hero /\ k.wrong = m.wrong
        /\ k.obj[o].where = w
        /\ \A c \in Objects : k.obj[c].quan = m.obj[c].quan /\ k.obj[c].unpaid = m.obj[c].unpaid
        /\ \A c \in Objects : c # o => k.obj[c] = m.obj[c]
    BY <2>1, PutSound
  <2> QED
    BY <2>2
<1>2. Mid(n)
  BY <1>1 DEF Mid, Placed, Minding, Tended
<1> QED
  BY <1>1, <1>2 DEF Grounded, Holds

LEMMA DivideKeeps ==
  ASSUME Inv, NEW o \in Objects, Divide(o)
  PROVE  Inv'
<1>a. PICK r : r = SplitObj(State, o, 1)
  OBVIOUS
<1>1. Commit(r) /\ obj[o].where = "inv" /\ obj[o].quan > 1
  BY <1>a DEF Divide
<1>2. Fine(State)
  BY <1>1, Begins
<1>3. State.obj[o].where = "inv" /\ 1 \in 1 .. State.obj[o].quan
  BY <1>1, <1>2, StateParts DEF Obj
<1>4. Mid(r) /\ Grounded(r)
  BY <1>2, <1>3, <1>a, FineMid, MidSplits
<1> QED
  BY <1>1, <1>4, MidDone, EndsDone

LEMMA MonsterStealsKeeps ==
  ASSUME Inv, NEW o \in Objects, MonsterSteals(o)
  PROVE  Inv'
<1>a. PICK m : m = IF obj[o].unpaid THEN SubFromBill(State, o) ELSE State
  OBVIOUS
<1>b. PICK r : r = Put(m, o, "mon")
  OBVIOUS
<1>1. Commit(r) /\ obj[o].where = "inv" /\ o # Bag
  BY <1>a, <1>b DEF MonsterSteals
<1>2. Fine(State) /\ Sound(State)
  BY <1>1, Begins DEF Fine
<1>3. State.obj[o].where = "inv"
  BY <1>1, <1>2, StateParts
<1>4. Calm(State, m)
  BY <1>2, <1>3, <1>a, SubFromBillCalm, CalmSelf
<1>5. m.obj[o].where = "inv" /\ Mid(m) /\ Grounded(m)
  <2>1. m.obj[o].where = "inv"
    BY <1>3, <1>4 DEF Calm
  <2> QED
    BY <1>2, <1>4, <2>1, FineMid, MidCalm
<1>6. Mid(r) /\ Grounded(r)
  <2>1. "mon" \in Floor \cup {"inv", "bag", "loose", "mon"} /\ "mon" # "loose" /\ "mon" # "bag"
    OBVIOUS
  <2> QED
    BY <1>1, <1>5, <1>b, <2>1, MidPut
<1> QED
  BY <1>1, <1>6, MidDone, EndsDone

LEMMA UseUpKeeps ==
  ASSUME Inv, NEW o \in Objects, UseUp(o)
  PROVE  Inv'
<1>a. PICK m : m = [State EXCEPT !.obj[o].quan = @ - 1]
  OBVIOUS
<1>b. PICK r : r = IF obj[o].quan > 1 THEN m ELSE FreeOne(State, o)
  OBVIOUS
<1>1. Commit(r) /\ obj[o].where = "inv" /\ o # Bag
  BY <1>a, <1>b DEF UseUp
<1>2. Fine(State) /\ Sound(State)
  BY <1>1, Begins DEF Fine
<1>3. State.obj[o].where = "inv" /\ State.obj = obj
  BY <1>1, <1>2, StateParts
<1>4. CASE obj[o].quan > 1
  <2>a. PICK q : q = obj[o].quan - 1
    OBVIOUS
  <2>b. PICK thing : thing = [obj[o] EXCEPT !.quan = q]
    OBVIOUS
  <2>0. obj[o] \in Obj
    BY <1>2, StateParts
  <2>1. q \in Nat /\ q # 0 /\ q <= obj[o].quan /\ obj[o].quan \in Nat
    BY <1>4, <2>0, <2>a DEF Obj
  <2>2. thing \in Obj /\ thing.quan = q /\ thing.where = "inv" /\ thing.unpaid = obj[o].unpaid
    BY <1>1, <2>0, <2>1, <2>b DEF Obj
  <2>3. m = [State EXCEPT !.obj[o] = thing]
    BY <1>3, <1>a, <2>a, <2>b
  <2>4. /\ m \in Rec /\ m.shk = State.shk /\ m.hero = State.hero /\ m.wrong = State.wrong
        /\ m.obj[o] = thing /\ \A c \in Objects : c # o => m.obj[c] = State.obj[c]
    BY <1>2, <2>2, <2>3, StateParts DEF Rec
  <2>5. Fits(thing, Lines(m.shk.bill, o), GetCost(State))
    <3>1. Fits(obj[o], Lines(m.shk.bill, o), GetCost(State))
      BY <1>2, <1>3, <2>4 DEF Sound
    <3>2. \A b \in Lines(m.shk.bill, o) : b.bquan \in Nat
      BY <1>2, <2>4, StateParts DEF Lines, Keeper, Bill
    <3>3. \A b \in Lines(m.shk.bill, o) : b.bquan >= thing.quan
      BY <2>1, <2>2, <3>1, <3>2 DEF Fits
    <3> QED
      BY <1>1, <2>1, <2>2, <3>1, <3>3 DEF Fits
  <2>6. BagRight(m.obj)
    <3>1. BagRight(State.obj) /\ Bag \in Objects
      BY <1>2, ShopAssumption DEF Sound, Bag, Objects
    <3> QED
      BY <1>1, <1>3, <2>2, <2>4, <3>1 DEF BagRight
  <2>7. Sound(m)
    <3>1. \A c \in Objects : \/ m.obj[c] = State.obj[c] /\ Lines(m.shk.bill, c) = Lines(State.shk.bill, c)
                             \/ Fits(m.obj[c], Lines(m.shk.bill, c), GetCost(State))
      BY <2>4, <2>5
    <3>2. BillRight(m.shk) /\ m.shk.surcharge = State.shk.surcharge
      BY <1>2, <2>4 DEF Sound
    <3> QED
      BY <1>2, <2>4, <2>6, <3>1, <3>2, SoundLined
  <2>8. Good(m)
    <3>1. Grounded(m)
      BY <1>2, <2>2, <2>4 DEF Fine, Grounded
    <3>2. Placed(m) /\ Quiet(m)
      BY <1>2, <2>4 DEF Fine, Placed, Minding, Tended, Quiet
    <3> QED
      BY <2>7, <3>1, <3>2 DEF Good
  <2> QED
    BY <1>1, <1>4, <1>b, <2>8, Ends
<1>5. CASE ~(obj[o].quan > 1)
  <2>1. Lands(State, r, o)
    BY <1>1, <1>2, <1>3, <1>5, <1>b, FreeOneLands
  <2>2. Mid(r) /\ Grounded(r)
    BY <1>2, <2>1, FineMid, MidLands
  <2> QED
    BY <1>1, <2>2, MidDone, EndsDone
<1> QED
  BY <1>4, <1>5

LEMMA UseChargeKeeps ==
  ASSUME Inv, NEW o \in Objects, UseCharge(o)
  PROVE  Inv'
<1>a. PICK k : k = ShopKeeper(State)
  OBVIOUS
<1>b. PICK r : r = [k EXCEPT !.shk.debit = @ + Fee]
  OBVIOUS
<1>1. Commit(r)
  BY <1>a, <1>b DEF UseCharge
<1>2. Fine(State) /\ Sound(State)
  BY <1>1, Begins DEF Fine
<1>3. Calm(State, k)
  BY <1>2, <1>a, ShopKeeperCalm
<1>4. Sound(k) /\ k \in Rec /\ k.shk \in Keeper
  BY <1>3 DEF Calm, Sound, Rec
<1>c. PICK debit : debit = k.shk.debit + Fee
  OBVIOUS
<1>5. debit \in Nat /\ k.shk.loan <= debit
  BY <1>4, <1>c, ShopAssumption DEF Keeper, Sound, BillRight
<1>6. r = [k EXCEPT !.shk.debit = debit]
  BY <1>b, <1>c
<1>7. /\ r \in Rec /\ r.obj = k.obj /\ r.hero = k.hero /\ r.wrong = k.wrong
      /\ r.shk.at = k.shk.at /\ r.shk.bill_p = k.shk.bill_p /\ r.shk.bill = k.shk.bill
      /\ r.shk.billsz = k.shk.billsz /\ r.shk.surcharge = k.shk.surcharge
      /\ r.shk.loan = k.shk.loan /\ r.shk.debit = debit
  BY <1>4, <1>5, <1>6 DEF Rec, Keeper
<1>8. Calm(k, r)
  BY <1>4, <1>5, <1>7, Booked
<1>9. Calm(State, r)
  BY <1>3, <1>8, CalmTrans
<1> QED
  BY <1>1, <1>2, <1>9, EndsCalm

(* Dropped, thrown, put away: PutDown and PutMerged end it.                *)
LEMMA DropKeeps ==
  ASSUME Inv, NEW o \in Objects, NEW n \in 1 .. obj[o].quan, NEW yes \in BOOLEAN, Drop(o, n, yes)
  PROVE  Inv'
<1>a. PICK p : p = Piece(State, o, n)
  OBVIOUS
<1>b. PICK s : s = SplitObj(State, o, n)
  OBVIOUS
<1>c. PICK where : where = Square[hero.at]
  OBVIOUS
<1>d. PICK down : down = Put(s, p, where)
  OBVIOUS
<1>e. PICK sold : sold = IF hero.ushops /\ Costly(down, where) THEN SellObj(down, p, FALSE, yes) ELSE down
  OBVIOUS
<1>f. PICK r \in PutDown(sold, p, where) : Commit(r)
  BY <1>a, <1>b, <1>c, <1>d, <1>e DEF Drop
<1>1. obj[o].where = "inv" /\ hero.at # "away"
  BY DEF Drop
<1>2. Fine(State)
  BY <1>f, Begins
<1>3. State.obj[o].where = "inv" /\ State.obj = obj /\ where \in Floor
  <2>1. hero.at \in {"inside", "spot", "street"}
    BY <1>1, <1>2, StateParts DEF Hero
  <2>2. where \in Floor
    BY <2>1, <1>c DEF Square, Floor
  <2> QED
    BY <1>1, <1>2, <2>2, StateParts
<1>4. Mid(s) /\ Grounded(s) /\ p \in Objects /\ s.obj[p].where = "inv"
  BY <1>2, <1>3, <1>a, <1>b, FineMid, MidSplits
<1>5. Mid(down) /\ Grounded(down) /\ down.obj[p].where = where
  <2>1. where \in Floor \cup {"inv", "bag", "loose", "mon"} /\ where \notin {"bag", "loose", "mon"}
    BY <1>3 DEF Floor
  <2> QED
    BY <1>4, <1>d, <2>1, MidPut
<1>6. Mid(sold) /\ Grounded(sold) /\ sold.obj[p].where = where
  <2>1. where \notin {"none", "bill"}
    BY <1>3 DEF Floor
  <2>2. Calm(down, sold)
    <3>1. Calm(down, SellObj(down, p, FALSE, yes))
      BY <1>4, <1>5, <2>1, SellObjCalm DEF Mid
    <3>2. Calm(down, down)
      BY <1>5, CalmSelf DEF Mid
    <3> QED
      BY <1>e, <3>1, <3>2
  <2>3. sold.obj[p].where = where
    BY <1>4, <1>5, <2>1, <2>2 DEF Calm
  <2> QED
    BY <1>5, <2>2, <2>3, MidCalm
<1>7. Lands(sold, r, p)
  <2>1. where \in Floor \cup {"inv", "bag"} /\ where # "bag" /\ where \notin {"none", "bill"}
    BY <1>3 DEF Floor
  <2> QED
    BY <1>4, <1>6, <1>f, <2>1, PutDownLands DEF Mid
<1>8. Mid(r) /\ Grounded(r)
  BY <1>6, <1>7, MidLands
<1> QED
  BY <1>8, <1>f, MidDone, EndsDone

LEMMA CheckShopObjCalm ==
  ASSUME NEW m, Sound(m), NEW o \in Objects, m.obj[o].where \notin {"none", "bill"}, NEW w, NEW keeper
  PROVE  Calm(m, CheckShopObj(m, o, w, keeper))
<1>a. PICK k : k = CheckShopObj(m, o, w, keeper)
  OBVIOUS
<1>b. PICK peaceful \in BOOLEAN : peaceful <=> ~m.shk.angry
  OBVIOUS
<1>c. PICK v : v = StolenValue(m, o, peaceful)
  OBVIOUS
<1>d. PICK y : y = SellObj(m, o, FALSE, TRUE)
  OBVIOUS
<1>1. k = m \/ k = v \/ k = OnBill(m, o) \/ k = SubFromBill(m, o) \/ k = y
  <2>1. (~m.shk.angry) = peaceful
    <3>1. m.shk.angry \in BOOLEAN
      BY DEF Sound, Rec, Keeper
    <3> QED
      BY <1>b, <3>1
  <2>2. StolenValue(m, o, ~m.shk.angry) = v
    BY <1>c, <2>1
  <2> DEFINE p == ~m.hero.ushops
             q == m.hero.ushops /\ ~Costly(m, w) /\ IsUnpaid(m, o)
             s == m.hero.ushops /\ Costly(m, w) /\ IsUnpaid(m, o)
             t == m.hero.ushops /\ Costly(m, w) /\ ~IsUnpaid(m, o) /\ ~keeper
             h == Tended(m)
             x == StolenValue(m, o, ~m.shk.angry)
             b == OnBill(m, o)
             f == SubFromBill(m, o)
             z == SellObj(m, o, FALSE, TRUE)
  <2>3. k = CASE p -> m [] q -> IF h THEN x ELSE b [] s -> f [] t -> z [] OTHER -> m
    BY <1>a DEF CheckShopObj
  <2>4. x = v /\ z = y
    BY <1>d, <2>2
  <2> HIDE DEF p, q, s, t, h, x, b, f, z
  <2>5. k = m \/ k = x \/ k = b \/ k = f \/ k = z
    BY <2>3
  <2> QED
    BY <2>4, <2>5 DEF b, f
<1>2. OnBill(m, o) = m
  BY OnBillQuiet
<1>3. Calm(m, m) /\ Calm(m, SubFromBill(m, o))
  BY CalmSelf, SubFromBillCalm
<1>4. Calm(m, v)
  BY <1>c, StolenValueCalm
<1>5. Calm(m, y)
  BY <1>d, SellObjCalm
<1> QED
  BY <1>a, <1>1, <1>2, <1>3, <1>4, <1>5

(* Where a levitating hero ends up.                                        *)
Drift(m, q) == IF q = m.hero.at THEN m ELSE CheckSpecialRoom([m EXCEPT !.hero.at = q])
LEMMA DriftMid ==
  ASSUME NEW m, Mid(m), NEW q \in {"inside", "spot", "street"}, NEW k, k = Drift(m, q)
  PROVE  Mid(k) /\ \A p : Holds(m, p) => Holds(k, p)
<1>1. CASE q = m.hero.at
  BY <1>1 DEF Drift
<1>2. CASE q # m.hero.at
  <2>a. PICK n : n = [m EXCEPT !.hero.at = q]
    OBVIOUS
  <2>0. m \in Rec /\ Sound(m) /\ Minding(m)
    BY DEF Mid, Sound, Placed
  <2>1. /\ n \in Rec /\ n.obj = m.obj /\ n.shk = m.shk /\ n.wrong = m.wrong /\ n.hero.ushops = m.hero.ushops
    BY <2>0, <2>a DEF Rec, Hero
  <2>2. Sound(n) /\ Minding(n)
    BY <2>0, <2>1, MovedSound DEF Minding, Tended
  <2>3. k = CheckSpecialRoom(n)
    BY <1>2, <2>a DEF Drift
  <2>4. Stays(n, k) /\ Placed(k)
    BY <2>2, <2>3, CheckSpecialRoomStays
  <2>5. Mid(k)
    BY <2>1, <2>4 DEF Mid, Stays
  <2>6. \A p : Holds(m, p) => Holds(k, p)
    BY <2>1, <2>4 DEF Stays, Holds
  <2> QED
    BY <2>5, <2>6
<1> QED
  BY <1>1, <1>2

LEMMA ThrowKeeps ==
  ASSUME Inv, NEW o \in Objects, Throw(o)
  PROVE  Inv'
<1>a. PICK p : p = Piece(State, o, 1)
  OBVIOUS
<1>b. PICK s : s = SplitObj(State, o, 1)
  OBVIOUS
<1>c. PICK flying : flying = Put(s, p, "loose")
  OBVIOUS
<1>1. obj[o].where = "inv"
  BY DEF Throw
<1>k. PICK where \in Floor, keeper \in BOOLEAN :
        \E q \in Recoil(where) : \E m \in PutDown(CheckShopObj(Put(IF q = hero.at THEN flying
                 ELSE CheckSpecialRoom([flying EXCEPT !.hero.at = q]), p, where), p, where, keeper), p, where) : Commit(m)
  BY <1>a, <1>b, <1>c, Zenon DEF Throw
<1>d. PICK q \in Recoil(where) :
        \E m \in PutDown(CheckShopObj(Put(IF q = hero.at THEN flying
                 ELSE CheckSpecialRoom([flying EXCEPT !.hero.at = q]), p, where), p, where, keeper), p, where) : Commit(m)
  BY <1>k
<1>e. PICK drifted : drifted = IF q = hero.at THEN flying ELSE CheckSpecialRoom([flying EXCEPT !.hero.at = q])
  OBVIOUS
<1>f. PICK down : down = Put(drifted, p, where)
  OBVIOUS
<1>g. PICK landed : landed = CheckShopObj(down, p, where, keeper)
  OBVIOUS
<1>h. PICK r \in PutDown(landed, p, where) : Commit(r)
  BY <1>d, <1>e, <1>f, <1>g
<1>2. Fine(State)
  BY <1>h, Begins
<1>3. State.obj[o].where = "inv" /\ State.obj = obj /\ State.hero = hero /\ 1 \in 1 .. State.obj[o].quan
  <2>1. obj[o].quan \in Nat /\ obj[o].quan # 0
    BY <1>1, <1>2, StateParts DEF Sound, Fits, Obj
  <2> QED
    BY <1>1, <1>2, <2>1, StateParts
<1>4. Mid(s) /\ Grounded(s) /\ p \in Objects /\ s.obj[p].where = "inv" /\ s.hero = hero
  BY <1>2, <1>3, <1>a, <1>b, FineMid, MidSplits
<1>5. Mid(flying) /\ Holds(flying, p) /\ flying.hero = hero
  <2>1. "loose" \in Floor \cup {"inv", "bag", "loose", "mon"} /\ "loose" \notin {"bag", "mon"}
    OBVIOUS
  <2> QED
    BY <1>4, <1>c, <2>1, MidPut
<1>6. Mid(drifted) /\ Holds(drifted, p)
  <2>1. q \in {"inside", "spot", "street"}
    BY DEF Recoil
  <2>2. drifted = Drift(flying, q)
    BY <1>5, <1>e DEF Drift
  <2> QED
    BY <1>5, <2>1, <2>2, DriftMid
<1>7. Mid(down) /\ Grounded(down) /\ down.obj[p].where = where
  <2>1. where \in Floor \cup {"inv", "bag", "loose", "mon"} /\ where \notin {"bag", "loose", "mon"}
    BY DEF Floor
  <2>2. drifted.obj[p].where \notin {"none", "bill"}
    BY <1>6 DEF Holds
  <2> QED
    BY <1>4, <1>6, <1>f, <2>1, <2>2, MidPut
<1>8. Mid(landed) /\ Grounded(landed) /\ landed.obj[p].where = where
  <2>1. where \notin {"none", "bill"}
    BY DEF Floor
  <2>2. Calm(down, landed)
    BY <1>4, <1>7, <1>g, <2>1, CheckShopObjCalm DEF Mid
  <2>3. landed.obj[p].where = where
    BY <1>4, <1>7, <2>1, <2>2 DEF Calm
  <2> QED
    BY <1>7, <2>2, <2>3, MidCalm
<1>9. Lands(landed, r, p)
  <2>1. where \in Floor \cup {"inv", "bag"} /\ where # "bag" /\ where \notin {"none", "bill"}
    BY DEF Floor
  <2> QED
    BY <1>4, <1>8, <1>h, <2>1, PutDownLands DEF Mid
<1>10. Mid(r) /\ Grounded(r)
  BY <1>8, <1>9, MidLands
<1> QED
  BY <1>10, <1>h, MidDone, EndsDone

LEMMA PutInKeeps ==
  ASSUME Inv, NEW o \in Objects, NEW yes \in BOOLEAN, PutIn(o, yes)
  PROVE  Inv'
<1>a. PICK m : m = Put(State, o, "loose")
  OBVIOUS
<1>b. PICK keep \in BOOLEAN : keep <=> obj[Bag].no_charge
  OBVIOUS
<1>c. PICK shown \in BOOLEAN : shown <=> obj[Bag].where = "shelf" /\ Tended(m) /\ hero.ushops
  OBVIOUS
<1>d. PICK sold : sold = IF shown THEN SellObj(m, o, obj[Bag].no_charge, yes) ELSE m
  OBVIOUS
<1>e. PICK r : r = PutMerged(sold, o, "bag")
  OBVIOUS
<1>1. Commit(r) /\ obj[o].where = "inv" /\ o # Bag /\ BagAtHand
  BY <1>a, <1>c, <1>d, <1>e DEF PutIn
<1>2. Fine(State)
  BY <1>1, Begins
<1>3. State.obj[o].where = "inv" /\ State.obj = obj /\ obj[Bag].where \notin {"none", "bill"} /\ Bag \in Objects
  <2>1. Reach(State, Bag) => obj[Bag].where \in Floor
    <3>1. hero.at # "away" => Square[hero.at] \in Floor
      BY <1>2, StateParts DEF Hero, Square, Floor
    <3> QED
      BY <1>2, <3>1, StateParts DEF Reach
  <2>2. obj[Bag].where \notin {"none", "bill"}
    BY <1>1, <2>1 DEF BagAtHand, Floor
  <2> QED
    BY <1>1, <1>2, <2>2, ShopAssumption, StateParts DEF Bag, Objects
<1>4. Mid(m) /\ Holds(m, o) /\ m.obj[Bag] = obj[Bag]
  <2>1. "loose" \in Floor \cup {"inv", "bag", "loose", "mon"} /\ "loose" \notin {"bag", "mon"}
    OBVIOUS
  <2>2. /\ Mid(m) /\ Holds(m, o) /\ \A c \in Objects : c # o => m.obj[c] = State.obj[c]
    BY <1>2, <1>3, <1>a, <2>1, FineMid, MidPut
  <2> QED
    BY <1>1, <1>3, <2>2
<1>5. Calm(m, sold)
  <2>1. m.obj[o].where \notin {"none", "bill"}
    BY <1>4 DEF Holds
  <2>2. Calm(m, SellObj(m, o, obj[Bag].no_charge, yes))
    BY <1>4, <2>1, SellObjCalm DEF Mid
  <2>3. Calm(m, m)
    BY <1>4, CalmSelf DEF Mid
  <2> QED
    BY <1>d, <2>2, <2>3
<1>6. Mid(sold) /\ Holds(sold, o) /\ sold.obj[Bag].where # "none"
  <2>1. sold.obj[Bag].where # "none"
    BY <1>3, <1>4, <1>5 DEF Calm
  <2> QED
    BY <1>4, <1>5, <2>1, MidCalm
<1>7. Lands(sold, r, o)
  <2>1. sold.obj[o].where \notin {"none", "bill"} /\ Sound(sold)
    BY <1>6 DEF Holds, Mid
  <2> QED
    BY <1>1, <1>6, <1>e, <2>1, PutMergedLands
<1>8. Mid(r) /\ Grounded(r)
  BY <1>6, <1>7, MidLands
<1> QED
  BY <1>1, <1>8, MidDone, EndsDone

----------------------------------------------------------------------------
(* Goods that go on the bill.                                              *)

LEMMA ShopKeeperMid ==
  ASSUME NEW m, Mid(m), NEW n, n = ShopKeeper(m) \/ n = m
  PROVE  /\ Mid(n) /\ (Grounded(m) => Grounded(n)) /\ (\A p : Holds(m, p) => Holds(n, p))
         /\ n.obj = m.obj /\ n.hero = m.hero /\ n.shk.at = m.shk.at /\ Calm(m, n)
<1>1. Calm(m, n) /\ n.obj = m.obj /\ n.hero = m.hero
  <2>1. Sound(m)
    BY DEF Mid
  <2> QED
    BY <2>1, ShopKeeperCalm, CalmSelf
<1>2. n.shk.at = m.shk.at
  BY <1>1 DEF Calm
<1> QED
  BY <1>1, <1>2, MidCalm

(* Billed as it should be, in a shop; or the game is over.                 *)
LEMMA BillsMid ==
  ASSUME NEW m, Mid(m), NEW o, NEW n, Bills(m, n, o), n.shk.bill = m.shk.bill \/ m.hero.ushops
  PROVE  /\ Placed(n) /\ Sound(n) /\ n.wrong \subseteq Fatal \cup {"no room", "dopay: not to shopkeeper"}
         /\ \A p : Holds(m, p) => Holds(n, p)
         /\ Grounded(m) => Grounded(n)
         /\ ~Over(n) => Mid(n)
<1>1. Placed(n)
  <2>1. n.shk.bill # {} => Tended(m) /\ m.hero.ushops
    BY DEF Bills, Mid, Placed, Minding
  <2>2. n.hero = m.hero /\ n.shk.at = m.shk.at /\ (m.shk.bill_p = "wild" => n.shk.bill_p = "wild") /\ Placed(m)
    BY DEF Bills, Mid
  <2> QED
    BY <2>1, <2>2 DEF Placed, Minding, Tended
<1>2. Sound(n) /\ n.wrong \subseteq Fatal \cup {"no room", "dopay: not to shopkeeper"}
  BY DEF Bills, Mid
<1>3. ~Over(n) => Mid(n)
  BY <1>1, <1>2 DEF Over, Mid
<1>4. (\A p : Holds(m, p) => Holds(n, p)) /\ (Grounded(m) => Grounded(n))
  BY DEF Bills, Holds, Grounded
<1> QED
  BY <1>1, <1>2, <1>3, <1>4

(* Whatever is hooked from outside is paid for, as it is no bag.           *)
LEMMA PickObjDone ==
  ASSUME NEW m0, Mid(m0), Grounded(m0), m0.shk.at # "dead", NEW o \in Objects,
         m0.obj[o].where \notin {"none", "bill"}, NEW where,
         o # Bag \/ m0.hero.at \in {"inside", "spot"} \/ ~Costly(m0, where),
         NEW r, r = PickObj(m0, o, where)
  PROVE  Done(r)
<1>a. PICK costly \in BOOLEAN : costly <=> Costly(m0, where)
  OBVIOUS
<1>b. PICK m : m = IF costly THEN ShopKeeper(m0) ELSE m0
  OBVIOUS
<1>c. PICK lifted : lifted = Put(m, o, "loose")
  OBVIOUS
<1>d. PICK yes \in BOOLEAN : yes = TRUE
  OBVIOUS
<1>e. PICK billed : billed = IF costly THEN AddToBill(lifted, o, yes) ELSE lifted
  OBVIOUS
<1>f. PICK kept : kept = AddInv(billed, o)
  OBVIOUS
<1>1. r = IF Over(billed) THEN billed
          ELSE IF costly /\ billed.obj[o].unpaid /\ ~m.hero.ushops THEN LeftShop(kept) ELSE kept
  BY <1>a, <1>b, <1>c, <1>d, <1>e, <1>f DEF PickObj
<1>2. Mid(m) /\ Grounded(m) /\ m.obj = m0.obj /\ m.hero = m0.hero /\ m.shk.at = m0.shk.at
  BY <1>b, ShopKeeperMid
<1>3. Mid(lifted) /\ Holds(lifted, o) /\ lifted.hero = m0.hero /\ lifted.shk.at = m0.shk.at
  <2>1. "loose" \in Floor \cup {"inv", "bag", "loose", "mon"} /\ "loose" \notin {"bag", "mon"}
    OBVIOUS
  <2> QED
    BY <1>2, <1>c, <2>1, MidPut
<1>4. Bills(lifted, billed, o)
  <2>1. lifted.obj[o].where \notin {"none", "bill"} /\ Sound(lifted)
    BY <1>3 DEF Holds, Mid
  <2>2. Bills(lifted, AddToBill(lifted, o, yes), o)
    BY <2>1, AddToBillBills
  <2>3. Bills(lifted, lifted, o)
    BY <2>1, BillsSelf
  <2> QED
    BY <1>e, <2>2, <2>3
<1>5. Holds(billed, o) /\ Sound(billed) /\ billed.hero = m0.hero
  <2>1. Holds(billed, o)
    BY <1>3, <1>4 DEF Bills, Holds
  <2> QED
    BY <1>3, <1>4, <2>1 DEF Bills
<1>6. Lands(billed, kept, o)
  <2>1. billed.obj[o].where \notin {"none", "bill"}
    BY <1>5 DEF Holds
  <2> QED
    BY <1>5, <1>f, <2>1, AddInvLands
<1>7. billed.wrong \subseteq Fatal \cup {"no room", "dopay: not to shopkeeper"}
  BY <1>3, <1>4 DEF Bills, Mid
<1>8. CASE Over(billed)
  BY <1>1, <1>5, <1>7, <1>8 DEF Done
<1>9. CASE ~Over(billed) /\ (billed.shk.bill = lifted.shk.bill \/ m0.hero.ushops)
  <2>1. Mid(billed)
    BY <1>3, <1>4, <1>9, BillsMid
  <2>2. Mid(kept) /\ Grounded(kept)
    BY <1>5, <1>6, <2>1, MidLands
  <2>3. CASE r = kept
    BY <2>2, <2>3, MidDone
  <2>4. CASE r = LeftShop(kept)
    <3>1. Calm(kept, r)
      BY <2>2, <2>4, LeftShopCalm DEF Mid
    <3> QED
      BY <2>2, <3>1, MidCalm, MidDone
  <2> QED
    BY <1>1, <1>9, <2>3, <2>4
<1>10. CASE ~Over(billed) /\ billed.shk.bill # lifted.shk.bill /\ ~m0.hero.ushops
  <2>1. Tended(lifted) /\ lifted.shk.bill_p # "wild" /\ \E c \in {o} \cup Within(lifted, o) : billed.obj[c].unpaid
    BY <1>4, <1>10 DEF Bills
  <2>2. costly
    BY <1>10, <1>e
  <2>3. m0.hero.at \notin {"inside", "spot"}
    <3>1. Placed(lifted)
      BY <1>3 DEF Mid
    <3> QED
      BY <1>3, <1>10, <2>1, <3>1 DEF Placed, Tended
  <2>4. o # Bag
    BY <1>a, <2>2, <2>3
  <2>5. billed.obj[o].unpaid
    BY <2>1, <2>4 DEF Within
  <2>6. r = LeftShop(kept)
    BY <1>1, <1>2, <1>10, <2>2, <2>5
  <2>7. Sound(kept) /\ Tended(kept) /\ kept.hero = m0.hero /\ kept.wrong = billed.wrong
        /\ Grounded(kept)
    <3>1. Grounded(kept)
      BY <1>5, <1>6 DEF Lands, Grounded, Holds
    <3>2. kept.shk.at = billed.shk.at /\ billed.shk.at = lifted.shk.at
      BY <1>4, <1>6 DEF Lands, Bills
    <3> QED
      BY <1>5, <1>6, <2>1, <3>1, <3>2 DEF Lands, Tended
  <2>8. Calm(kept, r) /\ r.shk.bill = {}
    BY <2>6, <2>7, LeftShopCalm
  <2>9. Placed(r)
    <3>1. r.hero.at \notin {"inside", "spot"} /\ ~r.hero.ushops
      BY <1>10, <2>3, <2>7, <2>8 DEF Calm
    <3> QED
      BY <2>8, <3>1 DEF Placed, Minding
  <2>10. Sound(r) /\ Grounded(r) /\ r.wrong \subseteq Fatal \cup {"no room", "dopay: not to shopkeeper"}
    <3>1. Sound(r)
      BY <2>8 DEF Calm
    <3>2. Grounded(r)
      BY <2>7, <2>8 DEF Calm, Grounded
    <3>3. r.wrong \subseteq kept.wrong \cup {"no room"}
      BY <2>8 DEF Calm
    <3>4. r.wrong \subseteq billed.wrong \cup {"no room"}
      BY <2>7, <3>3
    <3> QED
      BY <1>7, <3>1, <3>2, <3>4
  <2> QED
    BY <2>9, <2>10 DEF Done
<1> QED
  BY <1>8, <1>9, <1>10

LEMMA PickUpKeeps ==
  ASSUME Inv, NEW o \in Objects, NEW n \in 1 .. obj[o].quan, PickUp(o, n)
  PROVE  Inv'
<1>a. PICK p : p = Piece(State, o, n)
  OBVIOUS
<1>b. PICK s : s = SplitObj(State, o, n)
  OBVIOUS
<1>c. PICK where : where = obj[o].where
  OBVIOUS
<1>d. PICK r : r = PickObj(s, p, where)
  OBVIOUS
<1>1. Commit(r) /\ Reach(State, o)
  BY <1>a, <1>b, <1>c, <1>d DEF PickUp
<1>2. Fine(State)
  BY <1>1, Begins
<1>3. State.obj = obj /\ State.hero = hero /\ where = Square[hero.at] /\ hero.at \in {"inside", "spot", "street"}
  BY <1>1, <1>2, <1>c, StateParts DEF Reach, Hero
<1>4. where \notin {"none", "bill"} /\ (where = "shelf" => hero.at = "inside")
  BY <1>3 DEF Square
<1>5. /\ Mid(s) /\ Grounded(s) /\ p \in Objects /\ s.obj[p].where = where /\ s.hero = hero
      /\ s.shk.at # "dead"
  BY <1>2, <1>3, <1>4, <1>a, <1>b, <1>c, FineMid, MidSplits
<1>6. s.hero.at \in {"inside", "spot"} \/ ~Costly(s, where)
  BY <1>4, <1>5 DEF Costly
<1>7. Done(r)
  BY <1>4, <1>5, <1>6, <1>d, PickObjDone
<1> QED
  BY <1>1, <1>7, EndsDone

(* A grappling hook catches no bag.                                        *)
SmallSnags == Snags \subseteq Ids

LEMMA HookKeeps ==
  ASSUME SmallSnags, Inv, NEW o \in Objects, Hook(o)
  PROVE  Inv'
<1>a. PICK p : p = Piece(State, o, 1)
  OBVIOUS
<1>b. PICK s : s = SplitObj(State, o, 1)
  OBVIOUS
<1>d. PICK r : r = PickObj(s, p, "shelf")
  OBVIOUS
<1>1. Commit(r) /\ obj[o].where = "shelf" /\ o \in Snags
  BY <1>a, <1>b, <1>d DEF Hook
<1>2. Fine(State)
  BY <1>1, Begins
<1>3. State.obj[o].where = "shelf" /\ State.obj = obj /\ State.hero = hero /\ 1 \in 1 .. State.obj[o].quan /\ o # Bag
  <2>1. obj[o].quan \in Nat /\ obj[o].quan # 0
    BY <1>1, <1>2, StateParts DEF Sound, Fits, Obj
  <2>2. o # Bag
    BY <1>1 DEF SmallSnags, Ids, Bag
  <2> QED
    BY <1>1, <1>2, <2>1, <2>2, StateParts
<1>5. /\ Mid(s) /\ Grounded(s) /\ p \in Objects /\ s.obj[p].where = "shelf" /\ p # Bag
      /\ s.shk.at # "dead"
  BY <1>2, <1>3, <1>a, <1>b, FineMid, MidSplits
<1>7. Done(r)
  <2>a. PICK where : where = "shelf"
    OBVIOUS
  <2>1. r = PickObj(s, p, where) /\ s.obj[p].where \notin {"none", "bill"}
    BY <1>5, <1>d, <2>a
  <2> QED
    BY <1>5, <2>1, PickObjDone
<1> QED
  BY <1>1, <1>7, EndsDone

LEMMA TakeOutKeeps ==
  ASSUME Inv, NEW o \in Objects, NEW n \in 1 .. obj[o].quan, TakeOut(o, n)
  PROVE  Inv'
<1>a. PICK p : p = Piece(State, o, n)
  OBVIOUS
<1>b. PICK s : s = SplitObj(State, o, n)
  OBVIOUS
<1>c. PICK m : m = Put(s, p, "loose")
  OBVIOUS
<1>k. PICK k : k = ShopKeeper(m)
  OBVIOUS
<1>h. PICK here \in BOOLEAN : here <=> hero.ushops
  OBVIOUS
<1>d. PICK billed : billed = IF ~m.obj[p].unpaid /\ Costly(m, obj[Bag].where)
                             THEN AddToBill(ShopKeeper(m), p, hero.ushops) ELSE m
  OBVIOUS
<1>e. PICK kept : kept = AddInv(billed, p)
  OBVIOUS
<1>f. PICK r : r = IF Over(billed) THEN billed ELSE kept
  OBVIOUS
<1>1. Commit(r) /\ obj[o].where = "bag"
  BY <1>a, <1>b, <1>c, <1>d, <1>e, <1>f DEF TakeOut
<1>2. Fine(State)
  BY <1>1, Begins
<1>3. State.obj[o].where = "bag" /\ State.obj = obj /\ State.hero = hero /\ here = hero.ushops
  BY <1>1, <1>2, <1>h, StateParts DEF Hero
<1>4. Mid(s) /\ Grounded(s) /\ p \in Objects /\ s.obj[p].where = "bag" /\ s.hero = hero
  BY <1>2, <1>3, <1>a, <1>b, FineMid, MidSplits
<1>5. Mid(m) /\ Holds(m, p) /\ m.hero = hero
  <2>1. "loose" \in Floor \cup {"inv", "bag", "loose", "mon"} /\ "loose" \notin {"bag", "mon"}
    OBVIOUS
  <2> QED
    BY <1>4, <1>c, <2>1, MidPut
<1>6. Mid(k) /\ Holds(k, p) /\ k.hero = hero
  BY <1>5, <1>k, ShopKeeperMid
<1>7. /\ Sound(billed) /\ billed.wrong \subseteq Fatal \cup {"no room", "dopay: not to shopkeeper"}
      /\ Holds(billed, p) /\ (~Over(billed) => Mid(billed))
  <2>a. PICK y : y = AddToBill(k, p, here)
    OBVIOUS
  <2>1. CASE billed = m
    BY <1>5, <2>1 DEF Mid
  <2>2. CASE billed = y
    <3>1. k.obj[p].where \notin {"none", "bill"} /\ Sound(k)
      BY <1>6 DEF Holds, Mid
    <3>2. Bills(k, y, p) /\ (~here => y.shk.bill = k.shk.bill)
      BY <1>4, <2>a, <3>1, AddToBillBills
    <3>3. y.shk.bill = k.shk.bill \/ k.hero.ushops
      BY <1>3, <1>6, <3>2
    <3> QED
      BY <1>6, <2>2, <3>2, <3>3, BillsMid
  <2> QED
    BY <1>3, <1>d, <1>k, <2>a, <2>1, <2>2
<1>8. CASE Over(billed)
  <2>1. Done(r)
    BY <1>7, <1>8, <1>f DEF Done
  <2> QED
    BY <1>1, <2>1, EndsDone
<1>9. CASE ~Over(billed)
  <2>1. Lands(billed, kept, p)
    <3>1. billed.obj[p].where \notin {"none", "bill"}
      BY <1>7 DEF Holds
    <3> QED
      BY <1>4, <1>7, <1>e, <3>1, AddInvLands
  <2>2. Mid(kept) /\ Grounded(kept)
    BY <1>7, <1>9, <2>1, MidLands
  <2> QED
    BY <1>1, <1>9, <1>f, <2>2, MidDone, EndsDone
<1> QED
  BY <1>8, <1>9

LEMMA UseUpFloorKeeps ==
  ASSUME Inv, NEW o \in Objects, UseUpFloor(o)
  PROVE  Inv'
<1>a. PICK p : p = Piece(State, o, 1)
  OBVIOUS
<1>b. PICK m : m = SplitObj(State, o, 1)
  OBVIOUS
<1>k. PICK k : k = ShopKeeper(m)
  OBVIOUS
<1>h. PICK here \in BOOLEAN : here <=> hero.ushops
  OBVIOUS
<1>d. PICK billed : billed = IF Tended(m) THEN AddToBill(ShopKeeper(m), p, hero.ushops) ELSE m
  OBVIOUS
<1>e. PICK kept : kept = FreeOne(billed, p)
  OBVIOUS
<1>f. PICK r : r = IF Over(billed) THEN billed ELSE kept
  OBVIOUS
<1>1. Commit(r) /\ hero.at = "inside" /\ Reach(State, o) /\ o # Bag
  BY <1>a, <1>b, <1>d, <1>e, <1>f DEF UseUpFloor
<1>2. Fine(State)
  BY <1>1, Begins
<1>3. State.obj[o].where = "shelf" /\ State.obj = obj /\ State.hero = hero /\ here = hero.ushops
      /\ 1 \in 1 .. State.obj[o].quan
  <2>1. State.obj = obj /\ State.hero = hero /\ here = hero.ushops
    BY <1>2, <1>h, StateParts DEF Hero
  <2>2. obj[o].where = "shelf"
    BY <1>1, <2>1 DEF Reach, Square
  <2>3. obj[o].quan \in Nat /\ obj[o].quan # 0
    BY <1>2, <2>2, StateParts DEF Sound, Fits, Obj
  <2> QED
    BY <2>1, <2>2, <2>3
<1>4. Mid(m) /\ Grounded(m) /\ p \in Objects /\ m.obj[p].where = "shelf" /\ m.hero = hero /\ p # Bag
  BY <1>1, <1>2, <1>3, <1>a, <1>b, FineMid, MidSplits
<1>6. Mid(k) /\ Grounded(k) /\ k.hero = hero /\ k.obj = m.obj
  BY <1>4, <1>k, ShopKeeperMid
<1>7. /\ Sound(billed) /\ billed.wrong \subseteq Fatal \cup {"no room", "dopay: not to shopkeeper"}
      /\ Grounded(billed) /\ billed.obj[p].where = "shelf" /\ (~Over(billed) => Mid(billed))
  <2>a. PICK y : y = AddToBill(k, p, here)
    OBVIOUS
  <2>1. CASE billed = m
    BY <1>4, <2>1 DEF Mid
  <2>2. CASE billed = y
    <3>1. k.obj[p].where \notin {"none", "bill"} /\ Sound(k)
      BY <1>4, <1>6 DEF Mid
    <3>2. Bills(k, y, p) /\ (~here => y.shk.bill = k.shk.bill)
      BY <1>4, <2>a, <3>1, AddToBillBills
    <3>3. y.shk.bill = k.shk.bill \/ k.hero.ushops
      BY <1>3, <1>6, <3>2
    <3>4. y.obj[p].where = "shelf"
      BY <1>4, <1>6, <3>2 DEF Bills
    <3> QED
      BY <1>6, <2>2, <3>2, <3>3, <3>4, BillsMid
  <2> QED
    BY <1>3, <1>d, <1>k, <2>a, <2>1, <2>2
<1>8. CASE Over(billed)
  <2>1. Done(r)
    BY <1>7, <1>8, <1>f DEF Done
  <2> QED
    BY <1>1, <2>1, EndsDone
<1>9. CASE ~Over(billed)
  <2>1. Lands(billed, kept, p)
    BY <1>4, <1>7, <1>e, FreeOneLands
  <2>2. Mid(kept) /\ Grounded(kept)
    BY <1>7, <1>9, <2>1, MidLands
  <2> QED
    BY <1>1, <1>9, <1>f, <2>2, MidDone, EndsDone
<1> QED
  BY <1>8, <1>9

LEMMA AlterKeeps ==
  ASSUME Inv, NEW o \in Objects, NEW hide \in BOOLEAN, Alter(o, hide)
  PROVE  Inv'
<1>a. PICK m : m = ShopKeeper(State)
  OBVIOUS
<1>b. PICK d : d = BillDummy(m, o, hide)
  OBVIOUS
<1>c. PICK no \in BOOLEAN : no = FALSE
  OBVIOUS
<1>e. PICK v : v = StolenValue(m, o, no)
  OBVIOUS
<1>1. /\ obj[o].where \in {"inv", "shelf"}
      /\ \/ Tended(m) /\ hero.ushops /\ Commit(d)
         \/ Commit(v)
  BY <1>a, <1>b, <1>c, <1>e DEF Alter
<1>2. Fine(State)
  BY <1>1, Begins
<1>3. State.obj = obj /\ State.hero = hero
  BY <1>2, StateParts
<1>4. Mid(m) /\ Grounded(m) /\ m.obj = obj /\ m.hero = hero /\ Calm(State, m)
  BY <1>2, <1>3, <1>a, FineMid, ShopKeeperMid
<1>5. m.obj[o].where \notin {"none", "bill"} /\ Sound(m)
  BY <1>1, <1>4 DEF Mid
<1>6. CASE Tended(m) /\ hero.ushops /\ Commit(d)
  <2>1. "no room" \notin m.wrong
    <3>1. m.wrong = State.wrong
      BY <1>2, <1>a, ShopKeeperCalm DEF Fine
    <3>2. State.wrong \subseteq {"dopay: not to shopkeeper"}
      BY <1>2 DEF Fine
    <3>3. "no room" \notin {"dopay: not to shopkeeper"}
      OBVIOUS
    <3>4. "no room" \notin State.wrong
      BY <3>2, <3>3
    <3> QED
      BY <3>1, <3>4
  <2>2. "no room" \notin d.wrong
    BY <1>6 DEF Commit
  <2>3. Deals(m, d)
    <3>1. \A c \in Objects : m.obj[c].where # "loose"
      BY <1>4 DEF Grounded
    <3> QED
      BY <1>5, <1>b, <2>1, <2>2, <3>1, BillDummyDeals
  <2>4. Placed(d)
    BY <1>4, <1>6, <2>3 DEF Deals, Mid, Placed, Minding, Tended
  <2>5. Done(d)
    BY <1>4, <2>3, <2>4 DEF Deals, Mid, Done, Grounded
  <2> QED
    BY <1>6, <2>5, EndsDone
<1>7. CASE Commit(v)
  <2>1. Calm(m, v)
    BY <1>5, <1>e, StolenValueCalm
  <2>2. Calm(State, v)
    BY <1>4, <2>1, CalmTrans
  <2> QED
    BY <1>2, <1>7, <2>2, EndsCalm
<1> QED
  BY <1>1, <1>6, <1>7

----------------------------------------------------------------------------
(* The invariant and what follows from it.                                 *)

LEMMA InitInv == Init => Inv
<1> SUFFICES ASSUME Init PROVE Good(State)
  BY DEF Inv
<1>1. PICK stock \in Stocks :
        /\ obj = stock.obj
        /\ shk = [at |-> "home", bill |-> {}, bill_p |-> "null", billsz |-> stock.billsz,
                  robbed |-> 0, credit |-> 0, debit |-> 0, loan |-> 0, cash |-> 0,
                  angry |-> FALSE, surcharge |-> FALSE, following |-> FALSE]
        /\ hero = [at |-> "street", ushops |-> FALSE, gold |-> stock.purse, till |-> 0]
  BY DEF Init
<1>2. /\ stock.obj \in [Objects -> Obj] /\ stock.billsz \in Nat /\ stock.purse \in Nat
      /\ stock.obj[Bag].quan <= 1
  BY StocksAssumption
<1>3. ASSUME NEW o \in Objects
      PROVE  /\ obj[o] = NoObj \/ (obj[o].where \in Floor \cup {"inv", "bag"} /\ obj[o].quan > 0)
             /\ ~obj[o].unpaid /\ ~obj[o].no_charge
             /\ obj[o].where = "bag" => o # Bag /\ obj[Bag] # NoObj
  BY <1>1, <1>3, StocksAssumption
<1>4. State.obj = obj /\ State.shk = shk /\ State.hero = hero /\ State.wrong = {} /\ State \in Rec
  <2>1. shk \in Keeper
    BY <1>1, <1>2 DEF Keeper
  <2>2. hero \in Hero
    BY <1>1, <1>2 DEF Hero
  <2>3. obj \in [Objects -> Obj] /\ wrong = {}
    BY <1>1, <1>2 DEF Init
  <2> QED
    BY <2>1, <2>2, <2>3 DEF State, Rec
<1>5. Bag \in Objects
  BY ShopAssumption DEF Bag, Objects
<1>6. \A o \in Objects : obj[o].where = "none" <=> obj[o].quan = 0
  BY <1>3 DEF NoObj, Floor
<1>7. BagRight(State.obj)
  <2>1. \A o \in Objects : obj[o].where = "bag" => obj[Bag].where # "none"
    BY <1>3, <1>5 DEF NoObj, Floor
  <2>2. obj[Bag].where \notin {"bag", "bill", "mon"}
    BY <1>3, <1>5 DEF NoObj, Floor
  <2> QED
    BY <1>1, <1>2, <1>4, <2>1, <2>2 DEF BagRight
<1>8. BillRight(State.shk)
  BY <1>1, <1>2, <1>4, FS_EmptySet DEF BillRight
<1>9. \A o \in Objects : Fits(State.obj[o], Lines(State.shk.bill, o), GetCost(State))
  <2>1. \A o \in Objects : Lines(State.shk.bill, o) = {}
    BY <1>1, <1>4 DEF Lines
  <2>2. \A o \in Objects : State.obj[o].where # "bill" /\ ~State.obj[o].unpaid
    BY <1>3, <1>4 DEF NoObj, Floor
  <2> QED
    BY <1>4, <1>6, <2>1, <2>2 DEF Fits
<1>10. Grounded(State)
  BY <1>3, <1>4 DEF Grounded, NoObj, Floor
<1>11. Placed(State)
  BY <1>1, <1>4 DEF Placed, Minding
<1>12. Quiet(State)
  BY <1>4 DEF Quiet
<1> QED
  BY <1>4, <1>7, <1>8, <1>9, <1>10, <1>11, <1>12 DEF Good, Sound

LEMMA NextInv ==
  ASSUME SmallSnags, Inv, [Next]_vars
  PROVE  Inv'
<1>1. ASSUME Handling PROVE Inv'
  <2>1. PICK o \in Objects :
          \/ \E n \in 1 .. obj[o].quan : PickUp(o, n) \/ TakeOut(o, n)
          \/ \E n \in 1 .. obj[o].quan, yes \in BOOLEAN : Drop(o, n, yes)
          \/ \E yes \in BOOLEAN : PutIn(o, yes)
          \/ Throw(o) \/ Hook(o) \/ Divide(o) \/ UseUp(o) \/ UseUpFloor(o) \/ UseCharge(o)
          \/ MonsterSteals(o)
          \/ \E hide \in BOOLEAN : Alter(o, hide)
    BY <1>1 DEF Handling
  <2>2. CASE \E n \in 1 .. obj[o].quan : PickUp(o, n) \/ TakeOut(o, n)
    BY <2>2, PickUpKeeps, TakeOutKeeps
  <2>3. CASE \E n \in 1 .. obj[o].quan, yes \in BOOLEAN : Drop(o, n, yes)
    BY <2>3, DropKeeps
  <2>4. CASE \E yes \in BOOLEAN : PutIn(o, yes)
    BY <2>4, PutInKeeps
  <2>5. CASE Throw(o) \/ Hook(o) \/ Divide(o)
    BY <2>5, ThrowKeeps, HookKeeps, DivideKeeps
  <2>6. CASE UseUp(o) \/ UseUpFloor(o) \/ UseCharge(o) \/ MonsterSteals(o)
    BY <2>6, UseUpKeeps, UseUpFloorKeeps, UseChargeKeeps, MonsterStealsKeeps
  <2>7. CASE \E hide \in BOOLEAN : Alter(o, hide)
    BY <2>7, AlterKeeps
  <2> QED
    BY <2>1, <2>2, <2>3, <2>4, <2>5, <2>6, <2>7
<1>2. ASSUME Moving PROVE Inv'
  BY <1>2, LeaveLevelKeeps, WalkKeeps DEF Moving
<1>3. ASSUME Trading PROVE Inv'
  <2>1. CASE TakeGold \/ DropGold \/ SettleDebit
    BY <2>1, TakeGoldKeeps, DropGoldKeeps, SettleDebitKeeps
  <2>2. CASE Compensate \/ PayElsewhere \/ \E happy \in BOOLEAN : Appease(happy)
    BY <2>2, CompensateKeeps, PayElsewhereKeeps, AppeaseKeeps
  <2>3. CASE BuyBag \/ \E bp \in shk.bill : BuyIntact(bp) \/ BuyUsed(bp)
    BY <2>3, BuyBagKeeps, BuyIntactKeeps, BuyUsedKeeps
  <2> QED
    BY <1>3, <2>1, <2>2, <2>3 DEF Trading
<1>4. ASSUME Shopkeeping PROVE Inv'
  <2>1. CASE Attack \/ Tame \/ \E paid \in BOOLEAN : Damage(paid)
    BY <2>1, AttackKeeps, TameKeeps, DamageKeeps
  <2>2. CASE ShkLeaves \/ ShkReturns
    BY <2>2, ShkLeavesKeeps, ShkReturnsKeeps
  <2>3. CASE TeleportedOut \/ TeleportedHome \/ ShkDies
    BY <2>3, TeleportedOutKeeps, TeleportedHomeKeeps, ShkDiesKeeps
  <2> QED
    BY <1>4, <2>1, <2>2, <2>3 DEF Shopkeeping
<1>5. ASSUME UNCHANGED vars PROVE Inv'
  <2>1. State' = State
    BY <1>5 DEF State, vars
  <2>2. Good(State')
    BY <2>1 DEF Inv
  <2> QED
    BY <2>2 DEF Inv
<1> QED
  BY <1>1, <1>2, <1>3, <1>4, <1>5 DEF Next

LEMMA Parts ==
  State.obj = obj /\ State.shk = shk /\ State.hero = hero /\ State.wrong = wrong
BY DEF State

LEMMA InvTypeOK == Inv => TypeOK
<1> SUFFICES ASSUME Sound(State), Over(State) \/ Grounded(State) PROVE TypeOK
  BY DEF Inv, Good
<1>1. obj \in [Objects -> Obj] /\ shk \in Keeper /\ hero \in Hero
  BY Parts DEF Sound, Rec
<1>2. \A o \in Objects : obj[o].where = "loose" => Over(State)
  BY Parts DEF Grounded
<1>3. \A o \in Objects : obj[o].where = "none" <=> obj[o].quan = 0
  BY Parts DEF Sound, Fits
<1>4. Cardinality(shk.bill) <= shk.billsz /\ shk.loan <= shk.debit
  BY Parts DEF Sound, BillRight
<1> QED
  BY <1>1, <1>2, <1>3, <1>4 DEF TypeOK

LEMMA InvBillMatches == Inv => BillMatches
<1> SUFFICES ASSUME Sound(State) PROVE BillMatches
  BY DEF Inv, Good
<1>1. shk.bill \subseteq Bill
  BY Parts DEF Sound, Rec, Keeper
<1>2. ASSUME NEW bp \in shk.bill
      PROVE  /\ \A other \in shk.bill : other.bo_id = bp.bo_id => other = bp
             /\ bp.useup <=> obj[bp.bo_id].where = "bill"
             /\ obj[bp.bo_id].where # "none" /\ bp.bquan >= obj[bp.bo_id].quan
             /\ obj[bp.bo_id].unpaid \/ bp.useup
  <2>1. bp.bo_id \in Objects
    BY <1>1 DEF Bill
  <2>2. Fits(obj[bp.bo_id], Lines(shk.bill, bp.bo_id), GetCost(State))
    BY <2>1, Parts DEF Sound
  <2>3. bp \in Lines(shk.bill, bp.bo_id)
        /\ \A other \in shk.bill : other.bo_id = bp.bo_id => other \in Lines(shk.bill, bp.bo_id)
    BY DEF Lines
  <2> QED
    BY <2>2, <2>3 DEF Fits
<1>3. ASSUME NEW o \in Objects, obj[o].unpaid \/ obj[o].where = "bill"
      PROVE  Billed(State, o)
  <2>1. Fits(obj[o], Lines(shk.bill, o), GetCost(State))
    BY Parts DEF Sound
  <2>2. Lines(shk.bill, o) # {}
    BY <1>3, <2>1 DEF Fits
  <2> QED
    BY <2>2, Parts DEF Lines, Billed
<1> QED
  BY <1>2, <1>3 DEF BillMatches

LEMMA InvOnePrice == Inv => OnePrice
<1> SUFFICES ASSUME Sound(State), NEW bp \in shk.bill PROVE bp.price = GetCost(State)
  BY DEF Inv, Good, OnePrice
<1>1. bp.bo_id \in Objects
  BY Parts DEF Sound, Rec, Keeper, Bill
<1>2. Fits(obj[bp.bo_id], Lines(shk.bill, bp.bo_id), GetCost(State))
  BY <1>1, Parts DEF Sound
<1>3. bp \in Lines(shk.bill, bp.bo_id)
  BY DEF Lines
<1> QED
  BY <1>2, <1>3 DEF Fits

(* Whatever a grappling hook catches of single things, the invariant holds *)
(* of every state of the game.                                             *)
THEOREM Inductive == SmallSnags => (Spec => []Inv)
<1>1. SUFFICES ASSUME SmallSnags PROVE Spec => []Inv
  OBVIOUS
<1>2. Init => Inv
  BY InitInv
<1>3. Inv /\ [Next]_vars => Inv'
  BY <1>1, NextInv
<1> QED
  BY <1>2, <1>3, PTL DEF Spec

(* The objects, the shopkeeper's records and the hero stay well formed     *)
(* through every routine of shk.c and of its callers; no thing is left on  *)
(* no chain but by a panic; the bill does not outgrow BILLSZ, and no more  *)
(* is lent than is owed.                                                   *)
THEOREM TypeCorrect == SmallSnags => (Spec => []TypeOK)
<1>1. SUFFICES ASSUME SmallSnags PROVE Spec => []TypeOK
  OBVIOUS
<1>2. Spec => []Inv
  BY <1>1, Inductive
<1> QED
  BY <1>2, InvTypeOK, PTL

(* The bill and the "unpaid" marks on the objects agree.                   *)
THEOREM BillAgrees == SmallSnags => (Spec => []BillMatches)
<1>1. SUFFICES ASSUME SmallSnags PROVE Spec => []BillMatches
  OBVIOUS
<1>2. Spec => []Inv
  BY <1>1, Inductive
<1> QED
  BY <1>2, InvBillMatches, PTL

(* Everything on the bill costs what it would cost now: rile_shk() and     *)
(* pacify_shk() change the entries together with the surcharge.            *)
THEOREM PriceAgrees == SmallSnags => (Spec => []OnePrice)
<1>1. SUFFICES ASSUME SmallSnags PROVE Spec => []OnePrice
  OBVIOUS
<1>2. Spec => []Inv
  BY <1>1, Inductive
<1> QED
  BY <1>2, InvOnePrice, PTL

(* Of the complaints of shk.c only dopay()'s ever comes, and the two ways  *)
(* in which the game ends.                                                 *)
THEOREM Uncomplaining == SmallSnags => (Spec => []NoImpossible)
<1>1. SUFFICES ASSUME SmallSnags PROVE Spec => []NoImpossible
  OBVIOUS
<1>2. Spec => []Inv
  BY <1>1, Inductive
<1>3. Inv => NoImpossible
  BY Parts DEF Inv, Good, Quiet, NoImpossible
<1> QED
  BY <1>2, <1>3, PTL

=============================================================================
