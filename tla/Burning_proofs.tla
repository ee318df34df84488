--------------------------- MODULE Burning_proofs ---------------------------
(***************************************************************************)
(* Timers, light sources and fuel are right at every step of Burning.      *)
(*                                                                         *)
(* In the order of the proof: sequences and queues of timers; each routine *)
(* on the heap; the invariant Inv; that each action keeps it; and that the *)
(* properties follow.                                                      *)
(***************************************************************************)
EXTENDS Burning, SequenceTheorems, FiniteSetTheorems, WellFoundedInduction, TLAPS

(* A set of numbers that is not empty has a least one.                     *)
LEMMA LeastNatural ==
  ASSUME NEW T \in SUBSET Nat, T # {}
  PROVE  \E n \in T : \A m \in T : n <= m
<1>1. \E x \in T : \A y \in T : ~(<<y, x>> \in OpToRel(<, Nat))
  BY NatLessThanWellFounded, WFMin
<1>2. PICK x \in T : \A y \in T : ~(<<y, x>> \in OpToRel(<, Nat))
  BY <1>1
<1>3. \A y \in T : ~(y < x)
  BY <1>2 DEF OpToRel
<1> QED
  BY <1>3

(* RemoveAt() and InsertAt() of the community modules.                     *)
LEMMA Removed ==
  ASSUME NEW S, NEW q \in Seq(S), NEW i \in 1 .. Len(q)
  PROVE  /\ RemoveAt(q, i) \in Seq(S) /\ Len(RemoveAt(q, i)) = Len(q) - 1
         /\ \A j \in 1 .. Len(q) - 1 : RemoveAt(q, i)[j] = IF j < i THEN q[j] ELSE q[j + 1]
<1>1. Len(q) \in Nat /\ \A j \in 1 .. Len(q) : q[j] \in S
  BY LenProperties, ElementOfSeq
<1> DEFINE a == SubSeq(q, 1, i - 1)  b == SubSeq(q, i + 1, Len(q))
<1>2. a \in Seq(S) /\ Len(a) = i - 1 /\ \A j \in 1 .. i - 1 : a[j] = q[j]
  <2>1. \A j \in 1 .. i - 1 : q[j] \in S
    BY <1>1
  <2>2. /\ a \in Seq(S) /\ Len(a) = (IF 1 <= i - 1 THEN i - 1 - 1 + 1 ELSE 0)
        /\ \A j \in 1 .. i - 1 - 1 + 1 : a[j] = q[1 + j - 1]
    BY <1>1, <2>1, SubSeqProperties
  <2> QED
    BY <1>1, <2>2
<1>3. b \in Seq(S) /\ Len(b) = Len(q) - i /\ \A j \in 1 .. Len(q) - i : b[j] = q[i + j]
  <2>1. \A j \in i + 1 .. Len(q) : q[j] \in S
    BY <1>1
  <2>2. /\ b \in Seq(S) /\ Len(b) = (IF i + 1 <= Len(q) THEN Len(q) - (i + 1) + 1 ELSE 0)
        /\ \A j \in 1 .. Len(q) - (i + 1) + 1 : b[j] = q[(i + 1) + j - 1]
    BY <1>1, <2>1, SubSeqProperties
  <2> QED
    BY <1>1, <2>2
<1>4. /\ a \o b \in Seq(S) /\ Len(a \o b) = Len(a) + Len(b)
      /\ \A j \in 1 .. Len(a) + Len(b) :
           (a \o b)[j] = IF j <= Len(a) THEN a[j] ELSE b[j - Len(a)]
  BY <1>2, <1>3, ConcatProperties
<1>5. RemoveAt(q, i) = a \o b
  BY DEF RemoveAt
<1> HIDE DEF a, b
<1>6. Len(a \o b) = Len(q) - 1
  BY <1>1, <1>2, <1>3, <1>4
<1>7. \A j \in 1 .. Len(q) - 1 : (a \o b)[j] = IF j < i THEN q[j] ELSE q[j + 1]
  <2> TAKE j \in 1 .. Len(q) - 1
  <2>1. CASE j < i
    BY <1>1, <1>2, <1>3, <1>4, <2>1
  <2>2. CASE ~(j < i)
    <3>1. (a \o b)[j] = b[j - Len(a)] /\ j - Len(a) \in 1 .. Len(q) - i
      BY <1>1, <1>2, <1>3, <1>4, <2>2
    <3>2. b[j - Len(a)] = q[i + (j - Len(a))] /\ i + (j - Len(a)) = j + 1
      BY <1>1, <1>2, <1>3, <3>1
    <3> QED
      BY <2>2, <3>1, <3>2
  <2> QED
    BY <2>1, <2>2
<1> QED
  BY <1>4, <1>5, <1>6, <1>7

LEMMA OneMore ==
  ASSUME NEW S, NEW s \in Seq(S), NEW t \in Seq(S), NEW e, Len(t) = 1, t[1] = e
  PROVE  /\ s \o t \in Seq(S) /\ Len(s \o t) = Len(s) + 1
         /\ \A j \in 1 .. Len(s) + 1 : (s \o t)[j] = IF j <= Len(s) THEN s[j] ELSE e
<1>1. Len(s) \in Nat
  BY LenProperties
<1>2. /\ s \o t \in Seq(S) /\ Len(s \o t) = Len(s) + Len(t)
      /\ \A j \in 1 .. Len(s) + Len(t) :
           (s \o t)[j] = IF j <= Len(s) THEN s[j] ELSE t[j - Len(s)]
  BY ConcatProperties
<1>3. ASSUME NEW j \in 1 .. Len(s) + 1, ~(j <= Len(s)) PROVE j - Len(s) = 1
  BY <1>1, <1>3
<1> QED
  BY <1>1, <1>2, <1>3

LEMMA Inserted ==
  ASSUME NEW S, NEW q \in Seq(S), NEW i \in 1 .. Len(q) + 1, NEW e \in S
  PROVE  /\ InsertAt(q, i, e) \in Seq(S) /\ Len(InsertAt(q, i, e)) = Len(q) + 1
         /\ \A j \in 1 .. Len(q) + 1 :
              InsertAt(q, i, e)[j] = IF j < i THEN q[j] ELSE IF j = i THEN e ELSE q[j - 1]
<1>1. Len(q) \in Nat /\ \A j \in 1 .. Len(q) : q[j] \in S
  BY LenProperties, ElementOfSeq
<1> DEFINE a == SubSeq(q, 1, i - 1)  b == SubSeq(q, i, Len(q))
<1>2. a \in Seq(S) /\ Len(a) = i - 1 /\ \A j \in 1 .. i - 1 : a[j] = q[j]
  <2>1. \A j \in 1 .. i - 1 : q[j] \in S
    BY <1>1
  <2>2. /\ a \in Seq(S) /\ Len(a) = (IF 1 <= i - 1 THEN i - 1 - 1 + 1 ELSE 0)
        /\ \A j \in 1 .. i - 1 - 1 + 1 : a[j] = q[1 + j - 1]
    BY <1>1, <2>1, SubSeqProperties
  <2> QED
    BY <1>1, <2>2
<1>3. b \in Seq(S) /\ Len(b) = Len(q) - i + 1 /\ \A j \in 1 .. Len(q) - i + 1 : b[j] = q[i + j - 1]
  <2>1. \A j \in i .. Len(q) : q[j] \in S
    BY <1>1
  <2>2. /\ b \in Seq(S) /\ Len(b) = (IF i <= Len(q) THEN Len(q) - i + 1 ELSE 0)
        /\ \A j \in 1 .. Len(q) - i + 1 : b[j] = q[i + j - 1]
    BY <1>1, <2>1, SubSeqProperties
  <2> QED
    BY <1>1, <2>2
<1>4. <<e>> \in Seq(S) /\ Len(<<e>>) = 1 /\ <<e>>[1] = e
  OBVIOUS
<1>5. /\ a \o <<e>> \in Seq(S) /\ Len(a \o <<e>>) = i
      /\ \A j \in 1 .. i : (a \o <<e>>)[j] = IF j < i THEN q[j] ELSE e
  <2> HIDE DEF a
  <2>1. /\ a \o <<e>> \in Seq(S) /\ Len(a \o <<e>>) = Len(a) + 1
        /\ \A j \in 1 .. Len(a) + 1 : (a \o <<e>>)[j] = IF j <= Len(a) THEN a[j] ELSE e
    BY <1>2, <1>4, OneMore
  <2> QED
    BY <1>1, <1>2, <2>1
<1> DEFINE c == a \o <<e>>
<1>6. /\ c \o b \in Seq(S) /\ Len(c \o b) = Len(c) + Len(b)
      /\ \A j \in 1 .. Len(c) + Len(b) :
           (c \o b)[j] = IF j <= Len(c) THEN c[j] ELSE b[j - Len(c)]
  BY <1>3, <1>5, ConcatProperties, ZenonT(30)
<1>7. InsertAt(q, i, e) = c \o b
  BY DEF InsertAt
<1> HIDE DEF b, c
<1>8. Len(c \o b) = Len(q) + 1
  BY <1>1, <1>3, <1>5, <1>6 DEF c
<1>9. \A j \in 1 .. Len(q) + 1 :
        (c \o b)[j] = IF j < i THEN q[j] ELSE IF j = i THEN e ELSE q[j - 1]
  <2> TAKE j \in 1 .. Len(q) + 1
  <2>0. Len(c) = i
    BY <1>5 DEF c
  <2>1. CASE j <= i
    BY <1>1, <1>3, <1>5, <1>6, <2>0, <2>1 DEF c
  <2>2. CASE ~(j <= i)
    <3>1. (c \o b)[j] = b[j - i] /\ j - i \in 1 .. Len(q) - i + 1
      BY <1>1, <1>3, <1>6, <2>0, <2>2
    <3>2. b[j - i] = q[i + (j - i) - 1] /\ i + (j - i) - 1 = j - 1
      BY <1>1, <1>3, <3>1
    <3> QED
      BY <2>2, <3>1, <3>2
  <2> QED
    BY <2>1, <2>2
<1> QED
  BY <1>6, <1>7, <1>8, <1>9

LEMMA CountedTo ==
  ASSUME NEW N \in Nat, NEW T, 0 \in T, \A n \in 0 .. N - 1 : n \in T => n + 1 \in T
  PROVE  \A n \in 0 .. N : n \in T
<1> SUFFICES ASSUME NEW n \in 0 .. N, n \notin T PROVE FALSE
  OBVIOUS
<1> DEFINE B == {k \in 0 .. N : k \notin T}
<1>1. B \in SUBSET Nat /\ B # {}
  OBVIOUS
<1>2. PICK b \in B : \A k \in B : b <= k
  BY <1>1, LeastNatural
<1>3. b # 0 /\ b - 1 \in 0 .. N - 1 /\ b - 1 \notin B
  BY <1>2
<1>4. b - 1 \in T /\ (b - 1) + 1 = b
  BY <1>3, <1>2
<1> QED
  BY <1>2, <1>3, <1>4

----------------------------------------------------------------------------
(* Queues of timers.                                                       *)

HasIn(q, o) == \E i \in DOMAIN q : q[i].o = o
Entries(q) == {q[i] : i \in DOMAIN q}
Proper(q) ==
  /\ q \in Seq(Timer)
  /\ \A i, j \in DOMAIN q : q[i].o = q[j].o => i = j
  /\ \A i, j \in DOMAIN q : i <= j => q[i].at <= q[j].at

LEMMA ProperFacts ==
  ASSUME NEW q, Proper(q)
  PROVE  /\ q \in Seq(Timer) /\ Len(q) \in Nat /\ DOMAIN q = 1 .. Len(q)
         /\ \A i \in 1 .. Len(q) : q[i] \in Timer /\ q[i].o \in Slots /\ q[i].at \in Int
         /\ \A i, j \in 1 .. Len(q) : q[i].o = q[j].o => i = j
         /\ \A i, j \in 1 .. Len(q) : i <= j => q[i].at <= q[j].at
<1>1. q \in Seq(Timer) /\ Len(q) \in Nat /\ DOMAIN q = 1 .. Len(q)
  BY LenProperties DEF Proper
<1>2. \A i \in 1 .. Len(q) : q[i] \in Timer
  BY <1>1, ElementOfSeq
<1> QED
  BY <1>1, <1>2 DEF Proper, Timer

LEMMA Placed ==
  ASSUME NEW q, NEW t \in Timer, Proper(q)
  PROVE  /\ Position(q, t) \in 1 .. Len(q) + 1
         /\ \A j \in 1 .. Position(q, t) - 1 : q[j].at < t.at
         /\ Position(q, t) <= Len(q) => q[Position(q, t)].at >= t.at
<1>0. t.at \in Int
  BY DEF Timer
<1>1. /\ Len(q) \in Nat
      /\ \A i \in 1 .. Len(q) : q[i].at \in Int
  BY ProperFacts
<1> DEFINE Fits(i) == /\ \A j \in 1 .. i - 1 : q[j].at < t.at
                      /\ i <= Len(q) => q[i].at >= t.at
           Later == {i \in 1 .. Len(q) : q[i].at >= t.at}
<1>2. \E i \in 1 .. Len(q) + 1 : Fits(i)
  <2>1. CASE Later = {}
    <3>1. Fits(Len(q) + 1)
      BY <1>0, <1>1, <2>1
    <3> QED
      BY <1>1, <3>1
  <2>2. CASE Later # {}
    <3>1. Later \in SUBSET Nat
      OBVIOUS
    <3>2. PICK i \in Later : \A k \in Later : i <= k
      BY <2>2, <3>1, LeastNatural
    <3>3. Fits(i)
      BY <1>0, <1>1, <3>2
    <3> QED
      BY <1>1, <3>2, <3>3
  <2> QED
    BY <2>1, <2>2
<1>3. Position(q, t) = CHOOSE i \in 1 .. Len(q) + 1 : Fits(i)
  BY DEF Position
<1> HIDE DEF Fits
<1>4. Position(q, t) \in 1 .. Len(q) + 1 /\ Fits(Position(q, t))
  BY <1>2, <1>3
<1> QED
  BY <1>4 DEF Fits

LEMMA TimerInserted ==
  ASSUME NEW q, NEW t \in Timer, Proper(q), ~HasIn(q, t.o)
  PROVE  /\ Proper(InsertTimer(q, t))
         /\ Entries(InsertTimer(q, t)) = Entries(q) \cup {t}
<1> DEFINE p == Position(q, t)  r == InsertTimer(q, t)
<1>0. t.at \in Int
  BY DEF Timer
<1>1. /\ q \in Seq(Timer) /\ Len(q) \in Nat /\ DOMAIN q = 1 .. Len(q)
      /\ \A i \in 1 .. Len(q) : q[i] \in Timer /\ q[i].at \in Int
      /\ \A i, j \in 1 .. Len(q) : q[i].o = q[j].o => i = j
      /\ \A i, j \in 1 .. Len(q) : i <= j => q[i].at <= q[j].at
  BY ProperFacts
<1>2. /\ p \in 1 .. Len(q) + 1
      /\ \A j \in 1 .. p - 1 : q[j].at < t.at
      /\ p <= Len(q) => q[p].at >= t.at
  BY Placed
<1>a. r = InsertAt(q, p, t)
  BY DEF InsertTimer
<1> HIDE DEF p, r
<1>3. /\ r \in Seq(Timer) /\ Len(r) = Len(q) + 1
      /\ \A j \in 1 .. Len(q) + 1 : r[j] = IF j < p THEN q[j] ELSE IF j = p THEN t ELSE q[j - 1]
  <2>1. q \in Seq(Timer) /\ p \in 1 .. Len(q) + 1 /\ t \in Timer
    BY <1>1, <1>2
  <2>2. /\ InsertAt(q, p, t) \in Seq(Timer) /\ Len(InsertAt(q, p, t)) = Len(q) + 1
        /\ \A j \in 1 .. Len(q) + 1 :
             InsertAt(q, p, t)[j] = IF j < p THEN q[j] ELSE IF j = p THEN t ELSE q[j - 1]
    BY <2>1, Inserted
  <2> QED
    BY <1>a, <2>2
<1>4. DOMAIN r = 1 .. Len(q) + 1
  BY <1>3, LenProperties
<1>5. \A i \in 1 .. Len(q) : q[i].o # t.o
  BY <1>1 DEF HasIn
<1>6. \A i, j \in 1 .. Len(q) + 1 : r[i].o = r[j].o => i = j
  <2> SUFFICES ASSUME NEW i \in 1 .. Len(q) + 1, NEW j \in 1 .. Len(q) + 1,
                      r[i].o = r[j].o, i < j
               PROVE FALSE
    BY <1>1
  <2>1. CASE j < p
    BY <1>1, <1>2, <1>3, <2>1
  <2>2. CASE j = p
    BY <1>1, <1>2, <1>3, <1>5, <2>2
  <2>3. CASE j > p /\ i < p
    BY <1>1, <1>2, <1>3, <2>3
  <2>4. CASE j > p /\ i = p
    BY <1>1, <1>2, <1>3, <1>5, <2>4
  <2>5. CASE j > p /\ i > p
    BY <1>1, <1>2, <1>3, <2>5, SMTT(30)
  <2>6. i \in Int /\ j \in Int /\ p \in Int
    BY <1>1, <1>2
  <2>7. j < p \/ j = p \/ (j > p /\ i < p) \/ (j > p /\ i = p) \/ (j > p /\ i > p)
    BY <2>6
  <2> QED
    BY <2>1, <2>2, <2>3, <2>4, <2>5, <2>7
<1>7. \A i, j \in 1 .. Len(q) + 1 : i <= j => r[i].at <= r[j].at
  <2> SUFFICES ASSUME NEW i \in 1 .. Len(q) + 1, NEW j \in 1 .. Len(q) + 1, i < j
               PROVE r[i].at <= r[j].at
    <3>1. \A i \in 1 .. Len(q) + 1 : r[i].at \in Int
      BY <1>0, <1>1, <1>2, <1>3
    <3> QED
      BY <1>1, <3>1
  <2>1. CASE j < p
    BY <1>1, <1>2, <1>3, <2>1
  <2>2. CASE j = p
    <3>1. r[j] = t /\ r[i] = q[i] /\ i \in 1 .. p - 1 /\ i \in 1 .. Len(q)
      BY <1>1, <1>2, <1>3, <2>2
    <3> QED
      BY <1>0, <1>1, <1>2, <3>1
  <2>3. CASE j > p /\ i < p
    <3>1. r[i] = q[i] /\ r[j] = q[j - 1] /\ i \in 1 .. Len(q) /\ j - 1 \in 1 .. Len(q) /\ i <= j - 1
      BY <1>1, <1>2, <1>3, <2>3
    <3> QED
      BY <1>1, <3>1
  <2>4. CASE j > p /\ i = p
    <3>1. r[i] = t /\ r[j] = q[j - 1] /\ j - 1 \in 1 .. Len(q) /\ p <= j - 1 /\ p \in 1 .. Len(q)
      BY <1>1, <1>2, <1>3, <2>4
    <3>2. q[p].at <= q[j - 1].at /\ q[p].at \in Int /\ q[j - 1].at \in Int
      BY <1>1, <3>1
    <3> QED
      BY <1>0, <1>2, <3>1, <3>2
  <2>5. CASE j > p /\ i > p
    <3>1. /\ r[i] = q[i - 1] /\ r[j] = q[j - 1] /\ i - 1 \in 1 .. Len(q) /\ j - 1 \in 1 .. Len(q)
          /\ i - 1 <= j - 1
      BY <1>1, <1>2, <1>3, <2>5
    <3> QED
      BY <1>1, <3>1
  <2>6. i \in Int /\ j \in Int /\ p \in Int
    BY <1>1, <1>2
  <2>7. j < p \/ j = p \/ (j > p /\ i < p) \/ (j > p /\ i = p) \/ (j > p /\ i > p)
    BY <2>6
  <2> QED
    BY <2>1, <2>2, <2>3, <2>4, <2>5, <2>7
<1>8. Entries(r) = Entries(q) \cup {t}
  <2>1. ASSUME NEW i \in 1 .. Len(q) + 1 PROVE r[i] \in Entries(q) \cup {t}
    BY <1>1, <1>2, <1>3, SMTT(30) DEF Entries
  <2>2. t \in Entries(r)
    BY <1>2, <1>3, <1>4 DEF Entries
  <2>3. ASSUME NEW i \in 1 .. Len(q) PROVE q[i] \in Entries(r)
    <3>1. CASE i < p
      BY <1>1, <1>3, <1>4, <3>1 DEF Entries
    <3>2. CASE ~(i < p)
      <4>1. i + 1 \in 1 .. Len(q) + 1 /\ r[i + 1] = q[i]
        BY <1>1, <1>2, <1>3, <3>2
      <4> QED
        BY <1>4, <4>1 DEF Entries
    <3> QED
      BY <3>1, <3>2
  <2> QED
    BY <1>1, <1>4, <2>1, <2>2, <2>3 DEF Entries
<1> QED
  BY <1>3, <1>4, <1>6, <1>7, <1>8 DEF Proper, r

LEMMA TimerRemoved ==
  ASSUME NEW q, Proper(q), NEW k \in 1 .. Len(q)
  PROVE  /\ Proper(RemoveAt(q, k))
         /\ Entries(RemoveAt(q, k)) = Entries(q) \ {q[k]}
<1> DEFINE r == RemoveAt(q, k)
<1>1. /\ q \in Seq(Timer) /\ Len(q) \in Nat /\ DOMAIN q = 1 .. Len(q)
      /\ \A i \in 1 .. Len(q) : q[i] \in Timer /\ q[i].at \in Int
      /\ \A i, j \in 1 .. Len(q) : q[i].o = q[j].o => i = j
      /\ \A i, j \in 1 .. Len(q) : i <= j => q[i].at <= q[j].at
  BY ProperFacts
<1>2. /\ r \in Seq(Timer) /\ Len(r) = Len(q) - 1
      /\ \A j \in 1 .. Len(q) - 1 : r[j] = IF j < k THEN q[j] ELSE q[j + 1]
  BY <1>1, Removed
<1>3. DOMAIN r = 1 .. Len(q) - 1
  BY <1>2, LenProperties
<1> HIDE DEF r
<1>4. \A i, j \in 1 .. Len(q) - 1 : r[i].o = r[j].o => i = j
  BY <1>1, <1>2
<1>5. \A i, j \in 1 .. Len(q) - 1 : i <= j => r[i].at <= r[j].at
  BY <1>1, <1>2, SMTT(30)
<1>6. ASSUME NEW i \in 1 .. Len(q) - 1 PROVE r[i] \in Entries(q) /\ r[i] # q[k]
  <2>1. PICK j \in 1 .. Len(q) : r[i] = q[j] /\ j # k
    <3>1. CASE i < k
      BY <1>1, <1>2, <3>1, SMTT(30)
    <3>2. CASE ~(i < k)
      <4>1. i + 1 \in 1 .. Len(q) /\ i + 1 # k /\ r[i] = q[i + 1]
        BY <1>1, <1>2, <3>2
      <4> QED
        BY <4>1
    <3> QED
      BY <3>1, <3>2
  <2>2. q[j].o # q[k].o /\ q[j] \in Entries(q)
    BY <1>1, <2>1 DEF Entries
  <2> QED
    BY <2>1, <2>2
<1>7. ASSUME NEW i \in 1 .. Len(q), i # k PROVE q[i] \in Entries(r)
  <2>1. CASE i < k
    BY <1>1, <1>2, <1>3, <2>1 DEF Entries
  <2>2. CASE i > k
    <3>1. i - 1 \in 1 .. Len(q) - 1 /\ r[i - 1] = q[i]
      BY <1>1, <1>2, <2>2
    <3> QED
      BY <1>3, <3>1 DEF Entries
  <2> QED
    BY <1>7, <2>1, <2>2
<1>8. Entries(r) = Entries(q) \ {q[k]}
  BY <1>1, <1>3, <1>6, <1>7 DEF Entries
<1> QED
  BY <1>2, <1>3, <1>4, <1>5, <1>8 DEF Proper, r

LEMMA FirstRemoved ==
  ASSUME NEW q, Proper(q), q # <<>>
  PROVE  /\ Head(q) \in Entries(q) /\ Head(q) \in Timer
         /\ \A t \in Entries(q) : Head(q).at <= t.at
         /\ Proper(Tail(q))
         /\ Entries(Tail(q)) = Entries(q) \ {Head(q)}
<1> DEFINE r == Tail(q)
<1>1. /\ q \in Seq(Timer) /\ Len(q) \in Nat /\ DOMAIN q = 1 .. Len(q)
      /\ \A i \in 1 .. Len(q) : q[i] \in Timer /\ q[i].at \in Int
      /\ \A i, j \in 1 .. Len(q) : q[i].o = q[j].o => i = j
      /\ \A i, j \in 1 .. Len(q) : i <= j => q[i].at <= q[j].at
  BY ProperFacts
<1>2. /\ r \in Seq(Timer) /\ Len(r) = Len(q) - 1 /\ Head(q) = q[1] /\ Len(q) >= 1
      /\ \A j \in 1 .. Len(q) - 1 : r[j] = q[j + 1]
  BY <1>1, HeadTailProperties, EmptySeq
<1>3. DOMAIN r = 1 .. Len(q) - 1
  BY <1>2, LenProperties
<1> HIDE DEF r
<1>b. \A i \in 1 .. Len(q) - 1 : i + 1 \in 1 .. Len(q) /\ r[i] = q[i + 1]
  BY <1>1, <1>2
<1>4. \A i, j \in 1 .. Len(q) - 1 : r[i].o = r[j].o => i = j
  <2> TAKE i, j \in 1 .. Len(q) - 1
  <2>1. r[i].o = r[j].o => i + 1 = j + 1
    BY <1>1, <1>b
  <2> QED
    BY <2>1
<1>5. \A i, j \in 1 .. Len(q) - 1 : i <= j => r[i].at <= r[j].at
  BY <1>1, <1>b
<1>6. ASSUME NEW i \in 1 .. Len(q) - 1 PROVE r[i] \in Entries(q) /\ r[i] # q[1]
  <2>1. PICK j \in 1 .. Len(q) : r[i] = q[j] /\ j # 1
    BY <1>1, <1>2
  <2> QED
    BY <1>1, <2>1 DEF Entries
<1>7. ASSUME NEW i \in 1 .. Len(q), i # 1 PROVE q[i] \in Entries(r)
  <2>1. i - 1 \in 1 .. Len(q) - 1 /\ r[i - 1] = q[i]
    BY <1>1, <1>2, <1>7
  <2> QED
    BY <1>3, <2>1 DEF Entries
<1>8. Entries(r) = Entries(q) \ {q[1]}
  BY <1>1, <1>3, <1>6, <1>7 DEF Entries
<1>9. /\ q[1] \in Entries(q) /\ q[1] \in Timer
      /\ \A t \in Entries(q) : q[1].at <= t.at
  BY <1>1, <1>2 DEF Entries
<1> QED
  BY <1>2, <1>3, <1>4, <1>5, <1>8, <1>9 DEF Proper, r

(* The recursive functions of goto_level() have a value at every argument. *)
Kept(s, t, S) == IF t.o \in S THEN Append(s, t) ELSE s

LEMMA ThoseUnfolds ==
  ASSUME NEW q, NEW S, Len(q) \in Nat
  PROVE  \E f : /\ f[0] = <<>>
                /\ \A n \in 0 .. Len(q) - 1 :
                     f[n + 1] = Kept(f[n], q[n + 1], S)
                /\ Those(q, S) = f[Len(q)]
<1> DEFINE N == Len(q)
           Body(f, n) == IF n = 0 THEN <<>> ELSE Kept(f[n - 1], q[n], S)
           T == {k \in 0 .. N : \E f : f = [n \in 0 .. k |-> Body(f, n)]}
<1>1. 0 \in T
  <2> DEFINE f == [n \in 0 .. 0 |-> <<>>]
  <2>1. f = [n \in 0 .. 0 |-> Body(f, n)]
    OBVIOUS
  <2> HIDE DEF f, Body
  <2> QED
    BY <2>1
<1>2. ASSUME NEW k \in 0 .. N - 1, k \in T PROVE k + 1 \in T
  <2>1. PICK f : f = [n \in 0 .. k |-> Body(f, n)]
    BY <1>2
  <2> DEFINE g == [n \in 0 .. k + 1 |-> IF n <= k THEN f[n] ELSE Body(f, k + 1)]
  <2>2. \A n \in 0 .. k + 1 : g[n] = Body(g, n)
    <3> TAKE n \in 0 .. k + 1
    <3>1. CASE n <= k
      <4>1. g[n] = f[n] /\ f[n] = Body(f, n)
        <5> HIDE DEF Body
        <5> QED
          BY <2>1, <3>1
      <4>2. n # 0 => f[n - 1] = g[n - 1]
        BY <3>1
      <4> QED
        BY <4>1, <4>2
    <3>2. CASE n = k + 1
      <4>1. g[n] = Body(f, k + 1) /\ f[n - 1] = g[n - 1]
        BY <3>2
      <4> QED
        BY <3>2, <4>1
    <3> QED
      BY <3>1, <3>2
  <2>3. g = [n \in 0 .. k + 1 |-> Body(g, n)]
    BY <2>2
  <2> HIDE DEF g, Body
  <2> QED
    BY <2>3
<1>3. \E f : f = [n \in 0 .. N |-> Body(f, n)]
  <2> HIDE DEF Body
  <2>1. \A n \in 0 .. N - 1 : n \in T => n + 1 \in T
    BY <1>2
  <2>2. N \in T
    <3> HIDE DEF T, N
    <3>1. N \in Nat
      BY DEF N
    <3>2. \A n \in 0 .. N : n \in T
      BY <1>1, <2>1, <3>1, CountedTo
    <3> QED
      BY <3>1, <3>2
  <2> QED
    BY <2>2
<1> DEFINE those == CHOOSE f : f = [n \in 0 .. N |-> Body(f, n)]
<1>4. Those(q, S) = those[N]
  BY DEF Those, Kept
<1>5. those = [n \in 0 .. N |-> Body(those, n)]
  <2> HIDE DEF Body
  <2> QED
    BY <1>3
<1> HIDE DEF those
<1>6. those[0] = <<>>
  BY <1>5
<1>7. \A n \in 0 .. N - 1 : those[n + 1] = Kept(those[n], q[n + 1], S)
  BY <1>5
<1> QED
  BY <1>4, <1>6, <1>7

LEMMA InsertTimersUnfolds ==
  ASSUME NEW q, NEW r, Len(r) \in Nat
  PROVE  \E f : /\ f[0] = q
                /\ \A n \in 0 .. Len(r) - 1 : f[n + 1] = InsertTimer(f[n], r[n + 1])
                /\ InsertTimers(q, r) = f[Len(r)]
<1> DEFINE N == Len(r)
           Body(f, n) == IF n = 0 THEN q ELSE InsertTimer(f[n - 1], r[n])
           T == {k \in 0 .. N : \E f : f = [n \in 0 .. k |-> Body(f, n)]}
<1>1. 0 \in T
  <2> DEFINE f == [n \in 0 .. 0 |-> q]
  <2>1. f = [n \in 0 .. 0 |-> Body(f, n)]
    OBVIOUS
  <2> HIDE DEF f, Body
  <2> QED
    BY <2>1
<1>2. ASSUME NEW k \in 0 .. N - 1, k \in T PROVE k + 1 \in T
  <2>1. PICK f : f = [n \in 0 .. k |-> Body(f, n)]
    BY <1>2
  <2> DEFINE g == [n \in 0 .. k + 1 |-> IF n <= k THEN f[n] ELSE Body(f, k + 1)]
  <2>2. \A n \in 0 .. k + 1 : g[n] = Body(g, n)
    <3> TAKE n \in 0 .. k + 1
    <3>1. CASE n <= k
      <4>1. g[n] = f[n] /\ f[n] = Body(f, n)
        <5> HIDE DEF Body
        <5> QED
          BY <2>1, <3>1
      <4>2. n # 0 => f[n - 1] = g[n - 1]
        BY <3>1
      <4> QED
        BY <4>1, <4>2
    <3>2. CASE n = k + 1
      <4>1. g[n] = Body(f, k + 1) /\ f[n - 1] = g[n - 1]
        BY <3>2
      <4> QED
        BY <3>2, <4>1
    <3> QED
      BY <3>1, <3>2
  <2>3. g = [n \in 0 .. k + 1 |-> Body(g, n)]
    BY <2>2
  <2> HIDE DEF g, Body
  <2> QED
    BY <2>3
<1>3. \E f : f = [n \in 0 .. N |-> Body(f, n)]
  <2> HIDE DEF Body
  <2>1. \A n \in 0 .. N - 1 : n \in T => n + 1 \in T
    BY <1>2
  <2>2. N \in T
    <3> HIDE DEF T, N
    <3>1. N \in Nat
      BY DEF N
    <3>2. \A n \in 0 .. N : n \in T
      BY <1>1, <2>1, <3>1, CountedTo
    <3> QED
      BY <3>1, <3>2
  <2> QED
    BY <2>2
<1> DEFINE with == CHOOSE f : f = [n \in 0 .. N |-> Body(f, n)]
<1>4. InsertTimers(q, r) = with[N]
  BY DEF InsertTimers
<1>5. with = [n \in 0 .. N |-> Body(with, n)]
  <2> HIDE DEF Body
  <2> QED
    BY <1>3
<1> HIDE DEF with
<1>6. with[0] = q
  BY <1>5
<1>7. \A n \in 0 .. N - 1 : with[n + 1] = InsertTimer(with[n], r[n + 1])
  BY <1>5
<1> QED
  BY <1>4, <1>6, <1>7

LEMMA TimerAppended ==
  ASSUME NEW s, Proper(s), NEW t \in Timer, ~HasIn(s, t.o),
         \A u \in Entries(s) : u.at <= t.at
  PROVE  /\ Proper(Append(s, t))
         /\ Entries(Append(s, t)) = Entries(s) \cup {t}
<1> DEFINE r == Append(s, t)
<1>0. t.at \in Int
  BY DEF Timer
<1>1. /\ s \in Seq(Timer) /\ Len(s) \in Nat /\ DOMAIN s = 1 .. Len(s)
      /\ \A i \in 1 .. Len(s) : s[i] \in Timer /\ s[i].at \in Int
      /\ \A i, j \in 1 .. Len(s) : s[i].o = s[j].o => i = j
      /\ \A i, j \in 1 .. Len(s) : i <= j => s[i].at <= s[j].at
  BY ProperFacts
<1>2. /\ r \in Seq(Timer) /\ Len(r) = Len(s) + 1 /\ r[Len(s) + 1] = t
      /\ \A j \in 1 .. Len(s) : r[j] = s[j]
  BY <1>1, AppendProperties
<1>3. DOMAIN r = 1 .. Len(s) + 1
  BY <1>2, LenProperties
<1> HIDE DEF r
<1>4. \A i \in 1 .. Len(s) : s[i].o # t.o /\ s[i].at <= t.at
  BY <1>1 DEF HasIn, Entries
<1>5. \A i \in 1 .. Len(s) + 1 : i \in 1 .. Len(s) \/ i = Len(s) + 1
  BY <1>1
<1>6. \A i, j \in 1 .. Len(s) + 1 : r[i].o = r[j].o => i = j
  BY <1>1, <1>2, <1>4, <1>5
<1>7. \A i, j \in 1 .. Len(s) + 1 : i <= j => r[i].at <= r[j].at
  <2> TAKE i, j \in 1 .. Len(s) + 1
  <2>1. CASE j \in 1 .. Len(s)
    <3>1. i <= j => i \in 1 .. Len(s)
      BY <1>1, <2>1
    <3> QED
      BY <1>1, <1>2, <2>1, <3>1
  <2>2. CASE j = Len(s) + 1
    BY <1>0, <1>1, <1>2, <1>4, <1>5, <2>2
  <2> QED
    BY <1>5, <2>1, <2>2
<1>8. Entries(r) = Entries(s) \cup {t}
  BY <1>1, <1>2, <1>3, <1>5 DEF Entries
<1> QED
  BY <1>2, <1>3, <1>6, <1>7, <1>8 DEF Proper, r

LEMMA ThoseKept ==
  ASSUME NEW q, Proper(q), NEW S
  PROVE  /\ Proper(Those(q, S))
         /\ Entries(Those(q, S)) = {t \in Entries(q) : t.o \in S}
<1> DEFINE N == Len(q)
           First(n) == {t \in {q[i] : i \in 1 .. n} : t.o \in S}
<1>1. /\ q \in Seq(Timer) /\ N \in Nat /\ DOMAIN q = 1 .. N
      /\ \A i \in 1 .. N : q[i] \in Timer /\ q[i].at \in Int
      /\ \A i, j \in 1 .. N : q[i].o = q[j].o => i = j
      /\ \A i, j \in 1 .. N : i <= j => q[i].at <= q[j].at
  BY ProperFacts
<1>2. PICK f : /\ f[0] = <<>>
               /\ \A n \in 0 .. N - 1 : f[n + 1] = Kept(f[n], q[n + 1], S)
               /\ Those(q, S) = f[N]
  BY <1>1, ThoseUnfolds
<1> HIDE DEF N
<1> DEFINE T == {n \in 0 .. N : Proper(f[n]) /\ Entries(f[n]) = First(n)}
<1>3. 0 \in T
  <2>1. Proper(<<>>) /\ Entries(<<>>) = {}
    BY EmptySeq DEF Proper, Entries
  <2>2. First(0) = {}
    OBVIOUS
  <2> QED
    BY <1>1, <1>2, <2>1, <2>2
<1>4. ASSUME NEW n \in 0 .. N - 1, n \in T PROVE n + 1 \in T
  <2> DEFINE t == q[n + 1]
  <2>1. n + 1 \in 1 .. N /\ t \in Timer /\ n \in Nat
    BY <1>1
  <2>2. Proper(f[n]) /\ Entries(f[n]) = First(n) /\ f[n + 1] = Kept(f[n], t, S)
    BY <1>2, <1>4
  <2>3. First(n + 1) = IF t.o \in S THEN First(n) \cup {t} ELSE First(n)
    <3>1. \A i : i \in 1 .. n + 1 <=> i \in 1 .. n \/ i = n + 1
      BY <2>1
    <3> QED
      BY <3>1
  <2>4. \A u \in First(n) : u.o # t.o /\ u.at <= t.at
    <3> SUFFICES ASSUME NEW i \in 1 .. n PROVE q[i].o # t.o /\ q[i].at <= t.at
      OBVIOUS
    <3>1. i \in 1 .. N /\ i # n + 1 /\ i <= n + 1
      BY <1>1, <2>1
    <3> QED
      BY <1>1, <2>1, <3>1
  <2> HIDE DEF First, t
  <2>5. CASE t.o \in S
    <3>1. ~HasIn(f[n], t.o)
      BY <2>2, <2>4 DEF HasIn, Entries
    <3>2. /\ Proper(Append(f[n], t))
          /\ Entries(Append(f[n], t)) = Entries(f[n]) \cup {t}
      BY <2>1, <2>2, <2>4, <3>1, TimerAppended
    <3>3. f[n + 1] = Append(f[n], t) /\ First(n + 1) = First(n) \cup {t}
      BY <2>2, <2>3, <2>5 DEF Kept
    <3>4. n + 1 \in 0 .. N
      BY <1>1
    <3> QED
      BY <2>2, <3>2, <3>3, <3>4
  <2>6. CASE t.o \notin S
    BY <2>1, <2>2, <2>3, <2>6 DEF Kept
  <2> QED
    BY <2>5, <2>6
<1>5. N \in T
  <2> HIDE DEF T
  <2>1. \A n \in 0 .. N - 1 : n \in T => n + 1 \in T
    BY <1>4
  <2>2. \A n \in 0 .. N : n \in T
    BY <1>1, <1>3, <2>1, CountedTo
  <2> QED
    BY <1>1, <2>2
<1> QED
  BY <1>1, <1>2, <1>5, ZenonT(30) DEF Entries

LEMMA TimersMerged ==
  ASSUME NEW q, Proper(q), NEW r, Proper(r), \A o \in Slots : ~(HasIn(q, o) /\ HasIn(r, o))
  PROVE  /\ Proper(InsertTimers(q, r))
         /\ Entries(InsertTimers(q, r)) = Entries(q) \cup Entries(r)
<1> DEFINE N == Len(r)
           First(n) == {r[i] : i \in 1 .. n}
<1>1. /\ r \in Seq(Timer) /\ N \in Nat /\ DOMAIN r = 1 .. N
      /\ \A i \in 1 .. N : r[i] \in Timer /\ r[i].o \in Slots
      /\ \A i, j \in 1 .. N : r[i].o = r[j].o => i = j
  BY ProperFacts
<1>2. PICK f : /\ f[0] = q
               /\ \A n \in 0 .. N - 1 : f[n + 1] = InsertTimer(f[n], r[n + 1])
               /\ InsertTimers(q, r) = f[N]
  <2>1. Len(r) \in Nat
    BY <1>1
  <2> QED
    BY <2>1, InsertTimersUnfolds
<1> HIDE DEF N
<1> DEFINE T == {n \in 0 .. N : Proper(f[n]) /\ Entries(f[n]) = Entries(q) \cup First(n)}
<1>3. 0 \in T
  <2>1. First(0) = {}
    OBVIOUS
  <2> QED
    BY <1>1, <1>2, <2>1
<1>4. ASSUME NEW n \in 0 .. N - 1, n \in T PROVE n + 1 \in T
  <2> DEFINE t == r[n + 1]
  <2>1. n + 1 \in 1 .. N /\ t \in Timer /\ n \in Nat
    BY <1>1
  <2>2. Proper(f[n]) /\ Entries(f[n]) = Entries(q) \cup First(n) /\ f[n + 1] = InsertTimer(f[n], t)
    BY <1>2, <1>4
  <2>3. First(n + 1) = First(n) \cup {t}
    <3>1. \A i : i \in 1 .. n + 1 <=> i \in 1 .. n \/ i = n + 1
      BY <2>1
    <3> QED
      BY <3>1
  <2>4. \A u \in First(n) : u.o # t.o
    <3> SUFFICES ASSUME NEW i \in 1 .. n PROVE r[i].o # t.o
      OBVIOUS
    <3>1. i \in 1 .. N /\ i # n + 1
      BY <1>1, <2>1
    <3> QED
      BY <1>1, <2>1, <3>1
  <2>5. HasIn(r, t.o) /\ t.o \in Slots
    BY <1>1, <2>1 DEF HasIn
  <2> HIDE DEF First, t
  <2>6. ~HasIn(f[n], t.o)
    <3>1. \A u \in Entries(q) : u.o # t.o
      BY <2>5 DEF HasIn, Entries
    <3> QED
      BY <2>2, <2>4, <3>1 DEF HasIn, Entries
  <2>7. /\ Proper(InsertTimer(f[n], t))
        /\ Entries(InsertTimer(f[n], t)) = Entries(f[n]) \cup {t}
    BY <2>1, <2>2, <2>6, TimerInserted
  <2> QED
    BY <2>1, <2>2, <2>3, <2>7
<1>5. N \in T
  <2> HIDE DEF T
  <2>1. \A n \in 0 .. N - 1 : n \in T => n + 1 \in T
    BY <1>4
  <2>2. \A n \in 0 .. N : n \in T
    BY <1>1, <1>3, <2>1, CountedTo
  <2> QED
    BY <1>1, <2>2
<1>6. Entries(r) = First(N)
  BY <1>1 DEF Entries
<1> QED
  BY <1>2, <1>5, <1>6

----------------------------------------------------------------------------
(* The heap, and what the routines do to one object of it.                 *)

HeapType == [obj : [Slots -> Obj], timers : Seq(Timer), lights : [Slots -> Nat],
             impossible : SUBSET Complaints]
HeapOK(m) == m \in HeapType /\ Proper(m.timers)
TimersFor(m, o) == {t \in Entries(m.timers) : t.o = o}

LEMMA HeapFacts ==
  ASSUME NEW m, HeapOK(m)
  PROVE  /\ m \in HeapType /\ m.obj \in [Slots -> Obj] /\ m.timers \in Seq(Timer)
         /\ m.lights \in [Slots -> Nat] /\ m.impossible \in SUBSET Complaints
         /\ Proper(m.timers)
         /\ m = [obj |-> m.obj, timers |-> m.timers, lights |-> m.lights,
                 impossible |-> m.impossible]
BY DEF HeapOK, HeapType

LEMMA ObjFacts ==
  ASSUME NEW b \in Obj
  PROVE  /\ b.kind \in Kinds /\ b.where \in {"none", "inv", "floor", "minv", "migr"}
         /\ b.lev \in Levels /\ b.quan \in Nat /\ b.spe \in Nat /\ b.age \in Int
         /\ b.lit \in BOOLEAN /\ b.timed \in Nat
         /\ b = [kind |-> b.kind, where |-> b.where, lev |-> b.lev, quan |-> b.quan,
                 spe |-> b.spe, age |-> b.age, lit |-> b.lit, timed |-> b.timed]
BY DEF Obj

LEMMA NoObjIsObj ==
  /\ NoObj \in Obj /\ NoObj.kind = "candle" /\ NoObj.where = "none" /\ NoObj.quan = 0
  /\ NoObj.spe = 0 /\ NoObj.age = 0 /\ NoObj.lit = FALSE /\ NoObj.timed = 0
<1>1. (CHOOSE l \in Levels : TRUE) \in Levels
  BY BurningAssumption
<1> QED
  BY <1>1 DEF NoObj, Obj, Kinds

LEMMA Timed ==
  ASSUME NEW m, Proper(m.timers), NEW o \in Slots
  PROVE  /\ HasTimer(m, o) <=> TimersFor(m, o) # {}
         /\ HasTimer(m, o) => /\ TimerOf(m, o) \in 1 .. Len(m.timers)
                              /\ Expiry(m, o) \in Int
                              /\ m.timers[TimerOf(m, o)] = [o |-> o, at |-> Expiry(m, o)]
                              /\ TimersFor(m, o) = {[o |-> o, at |-> Expiry(m, o)]}
<1> DEFINE q == m.timers
<1>1. /\ DOMAIN q = 1 .. Len(q)
      /\ \A i \in 1 .. Len(q) : q[i] \in Timer /\ q[i].o \in Slots /\ q[i].at \in Int
      /\ \A i, j \in 1 .. Len(q) : q[i].o = q[j].o => i = j
  BY ProperFacts
<1>2. HasTimer(m, o) <=> TimersFor(m, o) # {}
  BY DEF HasTimer, TimersFor, Entries
<1>3. ASSUME HasTimer(m, o)
      PROVE  /\ TimerOf(m, o) \in 1 .. Len(q) /\ Expiry(m, o) \in Int
             /\ q[TimerOf(m, o)] = [o |-> o, at |-> Expiry(m, o)]
             /\ TimersFor(m, o) = {[o |-> o, at |-> Expiry(m, o)]}
  <2> DEFINE k == TimerOf(m, o)
  <2>1. k \in 1 .. Len(q) /\ q[k].o = o
    BY <1>1, <1>3 DEF TimerOf, HasTimer
  <2>2. Expiry(m, o) = q[k].at
    BY DEF Expiry
  <2> HIDE DEF k, q
  <2>3. q[k] = [o |-> o, at |-> q[k].at]
    BY <1>1, <2>1 DEF Timer
  <2>4. TimersFor(m, o) = {q[k]}
    <3>1. \A i \in DOMAIN q : q[i].o = o => i = k
      BY <1>1, <2>1
    <3> QED
      BY <1>1, <2>1, <3>1 DEF TimersFor, Entries, q
  <2> QED
    BY <1>1, <2>1, <2>2, <2>3, <2>4 DEF k
<1> QED
  BY <1>2, <1>3

LEMMA SameTimers ==
  ASSUME NEW m, Proper(m.timers), NEW n, Proper(n.timers), NEW o \in Slots,
         TimersFor(n, o) = TimersFor(m, o)
  PROVE  /\ HasTimer(n, o) <=> HasTimer(m, o)
         /\ HasTimer(m, o) => Expiry(n, o) = Expiry(m, o)
<1>1. HasTimer(n, o) <=> HasTimer(m, o)
  BY Timed
<1>2. ASSUME HasTimer(m, o) PROVE Expiry(n, o) = Expiry(m, o)
  <2>1. {[o |-> o, at |-> Expiry(n, o)]} = {[o |-> o, at |-> Expiry(m, o)]}
    BY <1>1, <1>2, Timed
  <2>2. [o |-> o, at |-> Expiry(n, o)] = [o |-> o, at |-> Expiry(m, o)]
    BY <2>1
  <2>3. [o |-> o, at |-> Expiry(n, o)].at = [o |-> o, at |-> Expiry(m, o)].at
    BY <2>2
  <2> QED
    BY <2>3
<1> QED
  BY <1>1, <1>2

LEMMA OneTimer ==
  ASSUME NEW n, Proper(n.timers), NEW o \in Slots, NEW at,
         TimersFor(n, o) = {[o |-> o, at |-> at]}
  PROVE  HasTimer(n, o) /\ Expiry(n, o) = at
<1>1. HasTimer(n, o)
  BY Timed
<1>2. {[o |-> o, at |-> Expiry(n, o)]} = {[o |-> o, at |-> at]}
  BY <1>1, Timed
<1>3. [o |-> o, at |-> Expiry(n, o)].at = [o |-> o, at |-> at].at
  BY <1>2
<1> QED
  BY <1>1, <1>3

LEMMA TimerStopped ==
  ASSUME NEW m, HeapOK(m), NEW o \in Slots, HasTimer(m, o), NEW n, n = WithoutTimer(m, o)
  PROVE  /\ HeapOK(n) /\ n.obj = m.obj /\ n.lights = m.lights /\ n.impossible = m.impossible
         /\ Entries(n.timers) = {t \in Entries(m.timers) : t.o # o}
<1> DEFINE q == m.timers  k == TimerOf(m, o)
<1>1. k \in 1 .. Len(q) /\ q[k] = [o |-> o, at |-> Expiry(m, o)] /\ Proper(q)
      /\ TimersFor(m, o) = {q[k]}
  BY Timed DEF HeapOK
<1>2. Proper(RemoveAt(q, k)) /\ Entries(RemoveAt(q, k)) = Entries(q) \ {q[k]}
  BY <1>1, TimerRemoved
<1>3. /\ n.obj = m.obj /\ n.lights = m.lights /\ n.impossible = m.impossible
      /\ n.timers = RemoveAt(q, k) /\ n \in [obj : [Slots -> Obj], timers : {RemoveAt(q, k)},
           lights : [Slots -> Nat], impossible : SUBSET Complaints]
  BY DEF WithoutTimer, HeapOK, HeapType
<1>4. RemoveAt(q, k) \in Seq(Timer)
  BY <1>2 DEF Proper
<1> HIDE DEF k
<1>5. HeapOK(n)
  BY <1>2, <1>3, <1>4 DEF HeapOK, HeapType
<1>6. Entries(q) \ {q[k]} = {t \in Entries(q) : t.o # o}
  BY <1>1 DEF TimersFor
<1> QED
  BY <1>2, <1>3, <1>5, <1>6

LEMMA TimerStarted ==
  ASSUME NEW m, HeapOK(m), NEW o \in Slots, ~HasTimer(m, o), NEW when \in Int, moves \in Nat,
         NEW n, n = StartTimer(m, o, when), NEW t, t = [o |-> o, at |-> moves + when]
  PROVE  /\ HeapOK(n) /\ n.lights = m.lights /\ n.impossible = m.impossible
         /\ \A p \in Slots :
              n.obj[p] = IF p = o THEN [m.obj[o] EXCEPT !.timed = @ + 1] ELSE m.obj[p]
         /\ Entries(n.timers) = Entries(m.timers) \cup {t}
<1> DEFINE q == m.timers
<1>1. t \in Timer /\ Proper(q) /\ ~HasIn(q, t.o)
  BY DEF Timer, HeapOK, HasIn, HasTimer
<1>2. /\ Proper(InsertTimer(q, t)) /\ InsertTimer(q, t) \in Seq(Timer)
      /\ Entries(InsertTimer(q, t)) = Entries(q) \cup {t}
  BY <1>1, TimerInserted DEF Proper
<1>a. m \in HeapType /\ m.obj \in [Slots -> Obj] /\ m.obj[o] \in Obj
  BY HeapFacts
<1>b. [m.obj[o] EXCEPT !.timed = @ + 1] \in Obj
  BY <1>a DEF Obj
<1> DEFINE objs == [m.obj EXCEPT ![o] = [m.obj[o] EXCEPT !.timed = m.obj[o].timed + 1]]
<1>c. n = [m EXCEPT !.timers = InsertTimer(q, t), !.obj = objs]
  BY <1>a DEF StartTimer, HeapType
<1>d. /\ objs \in [Slots -> Obj]
      /\ \A p \in Slots :
           objs[p] = IF p = o THEN [m.obj[o] EXCEPT !.timed = @ + 1] ELSE m.obj[p]
  BY <1>a, <1>b
<1> HIDE DEF objs
<1>3. /\ n.lights = m.lights /\ n.impossible = m.impossible
      /\ n.timers = InsertTimer(q, t) /\ n.obj = objs
  BY <1>a, <1>c DEF HeapType
<1>5. n \in HeapType
  BY <1>2, <1>a, <1>c, <1>d DEF HeapType
<1> QED
  BY <1>2, <1>3, <1>5, <1>d DEF HeapOK

Snuffed(b) == [b EXCEPT !.lit = FALSE]
SetObj(m, o, b) == [m EXCEPT !.obj[o] = b]
SetLight(m, o, k) == [m EXCEPT !.lights[o] = k]

LEMMA ObjSet ==
  ASSUME NEW m, HeapOK(m), NEW o \in Slots, NEW b \in Obj, NEW n, n = SetObj(m, o, b)
  PROVE  /\ HeapOK(n) /\ n.timers = m.timers /\ n.lights = m.lights
         /\ n.impossible = m.impossible
         /\ \A p \in Slots : n.obj[p] = IF p = o THEN b ELSE m.obj[p]
<1> DEFINE objs == [m.obj EXCEPT ![o] = b]
<1>1. m \in HeapType /\ m.obj \in [Slots -> Obj]
  BY HeapFacts
<1>2. objs \in [Slots -> Obj] /\ \A p \in Slots : objs[p] = IF p = o THEN b ELSE m.obj[p]
  BY <1>1
<1>3. n = [m EXCEPT !.obj = objs]
  BY <1>1 DEF SetObj
<1> HIDE DEF objs
<1>4. /\ n \in HeapType /\ n.obj = objs /\ n.timers = m.timers /\ n.lights = m.lights
      /\ n.impossible = m.impossible
  BY <1>1, <1>2, <1>3 DEF HeapType
<1> QED
  BY <1>2, <1>3, <1>4 DEF HeapOK

LEMMA LightSet ==
  ASSUME NEW m, HeapOK(m), NEW o \in Slots, NEW k \in Nat, NEW n, n = SetLight(m, o, k)
  PROVE  /\ HeapOK(n) /\ n.timers = m.timers /\ n.obj = m.obj
         /\ n.impossible = m.impossible
         /\ \A p \in Slots : n.lights[p] = IF p = o THEN k ELSE m.lights[p]
<1> DEFINE ls == [m.lights EXCEPT ![o] = k]
<1>1. m \in HeapType /\ m.lights \in [Slots -> Nat]
  BY HeapFacts
<1>2. ls \in [Slots -> Nat] /\ \A p \in Slots : ls[p] = IF p = o THEN k ELSE m.lights[p]
  BY <1>1
<1>3. n = [m EXCEPT !.lights = ls]
  BY <1>1 DEF SetLight
<1> HIDE DEF ls
<1>4. /\ n \in HeapType /\ n.lights = ls /\ n.timers = m.timers /\ n.obj = m.obj
      /\ n.impossible = m.impossible
  BY <1>1, <1>2, <1>3 DEF HeapType
<1> QED
  BY <1>2, <1>3, <1>4 DEF HeapOK

LEMMA Complained ==
  ASSUME NEW m, HeapOK(m), NEW what \in Complaints, NEW n, n = Complain(m, what)
  PROVE  /\ HeapOK(n) /\ n.timers = m.timers /\ n.obj = m.obj /\ n.lights = m.lights
BY HeapFacts DEF Complain, HeapOK, HeapType

LEMMA WentOut ==
  ASSUME NEW m, HeapOK(m), NEW o \in Slots, m.lights[o] = 1, NEW n, n = GoesOut(m, o)
  PROVE  /\ HeapOK(n) /\ n.timers = m.timers /\ n.impossible = m.impossible
         /\ \A p \in Slots : n.lights[p] = IF p = o THEN 0 ELSE m.lights[p]
         /\ \A p \in Slots : n.obj[p] = IF p = o THEN Snuffed(m.obj[o]) ELSE m.obj[p]
<1> DEFINE d == SetLight(m, o, 0)  b == Snuffed(m.obj[o])
<1>1. m \in HeapType /\ m.obj[o] \in Obj
  BY HeapFacts
<1>2. b \in Obj
  BY <1>1 DEF Obj, Snuffed
<1>3. DelLight(m, o) = d
  BY <1>1 DEF DelLight, HeapType, SetLight
<1>4. /\ HeapOK(d) /\ d.timers = m.timers /\ d.obj = m.obj /\ d.impossible = m.impossible
      /\ \A p \in Slots : d.lights[p] = IF p = o THEN 0 ELSE m.lights[p]
  BY LightSet
<1> HIDE DEF d, b
<1>5. n = SetObj(d, o, b)
  <2>1. d \in HeapType /\ d.obj \in [Slots -> Obj] /\ d.obj[o] \in Obj
    BY <1>4, HeapFacts
  <2>2. [d EXCEPT !.obj[o].lit = FALSE] = [d EXCEPT !.obj[o] = [d.obj[o] EXCEPT !.lit = FALSE]]
    OBVIOUS
  <2> QED
    BY <1>3, <1>4, <2>2 DEF GoesOut, b, SetObj, Snuffed
<1>6. /\ HeapOK(n) /\ n.timers = d.timers /\ n.lights = d.lights
      /\ n.impossible = d.impossible
      /\ \A p \in Slots : n.obj[p] = IF p = o THEN b ELSE d.obj[p]
  BY <1>2, <1>4, <1>5, ObjSet
<1> QED
  BY <1>4, <1>5, <1>6 DEF b

----------------------------------------------------------------------------
(* What is true of a thing, and of its timer and light in memory.          *)

Away(b) == b.where \in {"floor", "minv"} /\ b.lev # level
Lit(b) == b.lit
Burns(b) == b.lit /\ b.kind # "magic"
Sane(b) ==
  /\ b \in Obj /\ b.kind # "thinoil"
  /\ b.where = "none" => b = NoObj
  /\ b.where # "none" => b.quan > 0
  /\ b.kind = "oil" /\ b.lit => b.age = 0
  /\ b.timed = IF Burns(b) THEN 1 ELSE 0
Right(m, o) ==
  /\ Sane(m.obj[o])
  /\ m.lights[o] = IF m.obj[o].lit THEN 1 ELSE 0
  /\ HasTimer(m, o) <=> Burns(m.obj[o])
Dark(m, o) == m.lights[o] = 0 /\ ~HasTimer(m, o)

SameThing(b, c) == /\ b.kind = c.kind /\ b.where = c.where /\ b.lev = c.lev
                   /\ b.quan = c.quan /\ b.spe = c.spe
Only(m, n, S) ==
  \A p \in Slots \ S : /\ n.obj[p] = m.obj[p] /\ n.lights[p] = m.lights[p]
                       /\ TimersFor(n, p) = TimersFor(m, p)
Overdue(m) == \E t \in Entries(m.timers) : t.at <= moves
Hushed(m, n) == /\ n.impossible = m.impossible \/ Overdue(m)
                /\ Overdue(n) => Overdue(m)

(* The timer of a burning object, and what it says of its fuel.            *)
LEMMA Burned ==
  ASSUME NEW m, HeapOK(m), NEW o \in Slots, Right(m, o), moves \in Nat
  PROVE  /\ m.obj[o] \in Obj
         /\ ~Burns(m.obj[o]) => FuelLeft(m, o) = m.obj[o].age /\ TimersFor(m, o) = {}
         /\ Burns(m.obj[o]) =>
              /\ HasTimer(m, o) /\ m.obj[o].timed = 1 /\ m.lights[o] = 1
              /\ TimersFor(m, o) = {[o |-> o, at |-> Expiry(m, o)]} /\ Expiry(m, o) \in Int
              /\ FuelLeft(m, o) = m.obj[o].age + (Expiry(m, o) - moves)
              /\ (~Overdue(m) => Expiry(m, o) > moves)
<1>1. m.obj[o] \in Obj /\ Proper(m.timers)
  BY DEF Right, Sane, HeapOK
<1>2. ASSUME ~Burns(m.obj[o]) PROVE FuelLeft(m, o) = m.obj[o].age /\ TimersFor(m, o) = {}
  <2>1. ~HasTimer(m, o)
    BY <1>2 DEF Right
  <2>2. m.obj[o].age \in Int
    BY <1>1, ObjFacts
  <2>3. TimersFor(m, o) = {}
    BY <1>1, <2>1, Timed
  <2> QED
    BY <2>1, <2>2, <2>3 DEF FuelLeft
<1>3. ASSUME Burns(m.obj[o])
      PROVE  /\ HasTimer(m, o) /\ m.obj[o].timed = 1 /\ m.lights[o] = 1
             /\ TimersFor(m, o) = {[o |-> o, at |-> Expiry(m, o)]} /\ Expiry(m, o) \in Int
             /\ FuelLeft(m, o) = m.obj[o].age + (Expiry(m, o) - moves)
             /\ (~Overdue(m) => Expiry(m, o) > moves)
  <2>1. HasTimer(m, o) /\ m.obj[o].timed = 1
    BY <1>3 DEF Right, Sane
  <2>2. m.lights[o] = 1
    BY <1>3 DEF Right, Burns
  <2>3. TimersFor(m, o) = {[o |-> o, at |-> Expiry(m, o)]} /\ Expiry(m, o) \in Int
    BY <1>1, <2>1, Timed
  <2>4. [o |-> o, at |-> Expiry(m, o)] \in Entries(m.timers)
    BY <2>3 DEF TimersFor
  <2>5. [o |-> o, at |-> Expiry(m, o)].at = Expiry(m, o)
    OBVIOUS
  <2>6. ~Overdue(m) => ~(Expiry(m, o) <= moves)
    BY <2>4, <2>5 DEF Overdue
  <2> QED
    BY <2>1, <2>2, <2>3, <2>6 DEF FuelLeft
<1> QED
  BY <1>1, <1>2, <1>3

PutOut(m, o) == EndBurn(m, o, TRUE)

LEMMA BurnEnded ==
  ASSUME NEW m, HeapOK(m), NEW o \in Slots, Right(m, o), Lit(m.obj[o]), moves \in Nat,
         NEW n, n = PutOut(m, o)
  PROVE  /\ HeapOK(n) /\ Only(m, n, {o}) /\ Right(n, o) /\ Hushed(m, n)
         /\ SameThing(n.obj[o], m.obj[o]) /\ ~Lit(n.obj[o])
         /\ FuelLeft(n, o) = FuelLeft(m, o)
<1> DEFINE b == m.obj[o]
<1>1. b \in Obj /\ Sane(b)
  BY DEF Right, Sane
<1>0. b.lit = TRUE
  BY <1>1, ObjFacts DEF Lit
<1>2. CASE b.kind = "magic"
  <2>1. n = GoesOut(m, o) /\ ~Burns(b) /\ m.lights[o] = 1
    BY <1>1, <1>2 DEF PutOut, EndBurn, Burns, Right, Lit
  <2> DEFINE c == Snuffed(b)
  <2>2. /\ HeapOK(n) /\ n.timers = m.timers /\ n.impossible = m.impossible
        /\ \A p \in Slots : n.lights[p] = IF p = o THEN 0 ELSE m.lights[p]
        /\ \A p \in Slots : n.obj[p] = IF p = o THEN c ELSE m.obj[p]
    BY <2>1, WentOut
  <2>3. /\ c \in Obj /\ c.lit = FALSE /\ c.timed = b.timed /\ c.age = b.age /\ SameThing(c, b)
    BY <1>1 DEF Obj, SameThing, Snuffed
  <2> HIDE DEF c, b
  <2>4. n.obj[o] = c /\ n.lights[o] = 0
    BY <2>2
  <2>5. Only(m, n, {o}) /\ Hushed(m, n)
    BY <2>2 DEF Only, Hushed, Overdue, TimersFor
  <2>6. ~HasTimer(n, o) /\ ~HasTimer(m, o)
    BY <2>1, <2>2 DEF HasTimer, Right, b
  <2>7. c.where # "none"
    <3> QED
      BY <1>0, <1>1, <2>3, NoObjIsObj DEF Sane, SameThing
  <2>8. Right(n, o)
    BY <1>1, <1>2, <2>1, <2>3, <2>4, <2>6, <2>7 DEF Right, Sane, SameThing, Burns
  <2>9. FuelLeft(n, o) = FuelLeft(m, o)
    BY <2>3, <2>4, <2>6 DEF FuelLeft, b
  <2> QED
    BY <2>2, <2>3, <2>4, <2>5, <2>8, <2>9 DEF b, Lit
<1>3. CASE b.kind # "magic"
  <2> DEFINE at == Expiry(m, o)
             w == WithoutTimer(m, o)
             bw == [b EXCEPT !.timed = b.timed - 1]
             u == SetObj(w, o, bw)
             g == GoesOut(u, o)
             c == [Snuffed(bw) EXCEPT !.age = b.age + (at - moves)]
             s == SetObj(g, o, c)
             x == Complain(s, "not timed")
  <2>1. /\ HasTimer(m, o) /\ b.timed = 1 /\ m.lights[o] = 1
        /\ TimersFor(m, o) = {[o |-> o, at |-> at]} /\ at \in Int
        /\ FuelLeft(m, o) = b.age + (at - moves)
        /\ (~Overdue(m) => at > moves)
    BY <1>0, <1>3, Burned DEF Burns
  <2>3. /\ bw \in Obj /\ bw.timed = 0 /\ bw.lit = b.lit /\ bw.age = b.age /\ SameThing(bw, b)
    <3>1. b.timed - 1 = 0
      BY <2>1
    <3> QED
      BY <1>1, <3>1 DEF Obj, SameThing
  <2>a. /\ Snuffed(bw) \in Obj /\ Snuffed(bw).timed = 0 /\ Snuffed(bw).lit = FALSE
        /\ Snuffed(bw).age = b.age /\ SameThing(Snuffed(bw), b)
    <3> HIDE DEF bw
    <3> QED
      BY <2>3 DEF Obj, SameThing, Snuffed
  <2>b. /\ c \in Obj /\ c.timed = 0 /\ c.lit = FALSE /\ c.age = b.age + (at - moves)
        /\ SameThing(c, b)
    <3>1. b.age + (at - moves) \in Int
      BY <1>1, <2>1, ObjFacts
    <3> HIDE DEF bw, b, at
    <3> QED
      BY <2>a, <3>1 DEF Obj, SameThing
  <2>c1. w = WithoutTimer(m, o)
    OBVIOUS
  <2>c2. u = SetObj(w, o, bw)
    OBVIOUS
  <2>c3. g = GoesOut(u, o)
    OBVIOUS
  <2>c4. s = SetObj(g, o, c)
    OBVIOUS
  <2>c5. x = Complain(s, "not timed")
    OBVIOUS
  <2>d. [w EXCEPT !.obj[o].timed = @ - 1] = SetObj(w, o, [w.obj[o] EXCEPT !.timed = w.obj[o].timed - 1])
    BY DEF SetObj
  <2>e. [g EXCEPT !.obj[o].age = @ + (at - moves)]
          = SetObj(g, o, [g.obj[o] EXCEPT !.age = g.obj[o].age + (at - moves)])
    BY DEF SetObj
  <2>g. n = StopTimer(m, o)
    BY <1>0, <1>3 DEF PutOut, EndBurn
  <2>h. c = [Snuffed(bw) EXCEPT !.age = b.age + (at - moves)] /\ bw = [b EXCEPT !.timed = b.timed - 1]
    OBVIOUS
  <2>i. n = IF at = moves
            THEN Complain(CleanupBurn([w EXCEPT !.obj[o].timed = @ - 1], o, at), "not timed")
            ELSE CleanupBurn([w EXCEPT !.obj[o].timed = @ - 1], o, at)
    BY <2>1, <2>g DEF StopTimer
  <2> HIDE DEF w, u, g, s, x, bw, c, at
  <2>2. /\ HeapOK(w) /\ w.obj = m.obj /\ w.lights = m.lights /\ w.impossible = m.impossible
        /\ Entries(w.timers) = {t \in Entries(m.timers) : t.o # o}
    BY <2>1, <2>c1, TimerStopped
  <2>j. w.obj[o] = b
    BY <2>2
  <2> HIDE DEF b
  <2>4. /\ HeapOK(u) /\ u.timers = w.timers /\ u.lights = w.lights /\ u.impossible = w.impossible
        /\ \A p \in Slots : u.obj[p] = IF p = o THEN bw ELSE w.obj[p]
    BY <2>2, <2>3, <2>c2, ObjSet
  <2>5. u.lights[o] = 1 /\ u.obj[o] = bw
    BY <2>1, <2>2, <2>4
  <2>6. /\ HeapOK(g) /\ g.timers = u.timers /\ g.impossible = u.impossible
        /\ \A p \in Slots : g.lights[p] = IF p = o THEN 0 ELSE u.lights[p]
        /\ \A p \in Slots : g.obj[p] = IF p = o THEN Snuffed(u.obj[o]) ELSE u.obj[p]
    BY <2>4, <2>5, <2>c3, WentOut
  <2>7. g.obj[o] = Snuffed(bw) /\ g.obj[o].age = b.age
    BY <2>a, <2>5, <2>6
  <2>8. /\ HeapOK(s) /\ s.timers = g.timers /\ s.lights = g.lights /\ s.impossible = g.impossible
        /\ \A p \in Slots : s.obj[p] = IF p = o THEN c ELSE g.obj[p]
    BY <2>b, <2>6, <2>c4, ObjSet
  <2>9. [w EXCEPT !.obj[o].timed = @ - 1] = u
    BY <2>c2, <2>d, <2>h, <2>j
  <2>10. CleanupBurn(u, o, at) = s
    BY <2>3, <2>5, <2>7, <2>c3, <2>c4, <2>e, <1>0, <2>h DEF CleanupBurn
  <2>11. n = IF at = moves THEN x ELSE s
    BY <2>9, <2>10, <2>c5, <2>i
  <2>12. HeapOK(x) /\ x.timers = s.timers /\ x.obj = s.obj /\ x.lights = s.lights
    <3>1. PICK what \in Complaints : x = Complain(s, what)
      <4>1. "not timed" \in Complaints
        BY DEF Complaints
      <4> QED
        BY <2>c5, <4>1, Zenon
    <3> QED
      BY <2>8, <3>1, Complained
  <2>13. /\ HeapOK(n) /\ n.timers = s.timers /\ n.obj = s.obj /\ n.lights = s.lights
         /\ (n.impossible = s.impossible \/ at = moves)
    BY <2>8, <2>11, <2>12
  <2>14. /\ n.obj[o] = c /\ n.lights[o] = 0 /\ n.timers = w.timers
         /\ (\A p \in Slots \ {o} : n.obj[p] = m.obj[p] /\ n.lights[p] = m.lights[p])
         /\ (n.impossible = m.impossible \/ at = moves)
    BY <2>2, <2>4, <2>6, <2>8, <2>13
  <2>15. Only(m, n, {o})
    BY <2>2, <2>14 DEF Only, TimersFor
  <2>16. Hushed(m, n)
    <3>1. at = moves => Overdue(m)
      BY <2>1
    <3> QED
      BY <2>2, <2>14, <3>1 DEF Hushed, Overdue
  <2>17. TimersFor(n, o) = {} /\ ~HasTimer(n, o)
    <3>1. TimersFor(n, o) = {}
      BY <2>2, <2>14 DEF TimersFor
    <3> QED
      BY <2>13, <3>1, Timed DEF HeapOK
  <2>18. Right(n, o)
    <3>1. c.where # "none"
      BY <1>1, <2>b, <1>0, NoObjIsObj DEF Sane, SameThing
    <3> QED
      BY <1>1, <2>b, <2>14, <2>17, <3>1 DEF Right, Sane, SameThing, Burns
  <2>19. FuelLeft(n, o) = FuelLeft(m, o)
    <3>1. c.age \in Int
      BY <2>b, ObjFacts
    <3> QED
      BY <2>1, <2>b, <2>14, <2>17, <3>1 DEF FuelLeft
  <2> QED
    BY <2>b, <2>13, <2>14, <2>15, <2>16, <2>18, <2>19 DEF b, Lit
<1> QED
  BY <1>2, <1>3

LEMMA TurnsFacts ==
  ASSUME NEW b \in Obj, b.kind # "thinoil"
  PROVE  \E left \in Nat : /\ Turns(b) = b.age - left
                           /\ b.age > 0 => left < b.age
                           /\ b.kind = "oil" => left = 0
<1> DEFINE a == b.age
           S == {0} \cup {x \in Marks(b.kind) : x < a}
           U == {k \in Nat : \A x \in S : x <= k}
<1>1. a \in Int
  BY ObjFacts
<1>2. Marks(b.kind) \subseteq Nat
  BY BurningAssumption DEF Marks
<1> HIDE DEF a
<1>3. U \in SUBSET Nat /\ U # {}
  <2>1. CASE a >= 0
    <3>1. a \in U
      BY <1>1, <1>2, <2>1
    <3> QED
      BY <3>1
  <2>2. CASE a < 0
    <3>1. 0 \in U
      BY <1>1, <1>2, <2>2
    <3> QED
      BY <3>1
  <2> QED
    BY <1>1, <2>1, <2>2
<1>4. PICK u \in U : \A k \in U : u <= k
  BY <1>3, LeastNatural
<1>5. S \subseteq Nat /\ 0 \in S /\ u \in Nat /\ \A x \in S : x <= u
  BY <1>2, <1>4
<1>6. u \in S
  <2> SUFFICES ASSUME u \notin S PROVE FALSE
    OBVIOUS
  <2>1. \A x \in S : x <= u - 1
    BY <1>5
  <2>2. u - 1 \in Nat
    BY <1>5
  <2>3. u - 1 \in U
    BY <2>1, <2>2
  <2> QED
    BY <1>4, <1>5, <2>3
<1>7. Turns(b) = a - Max(S)
  BY DEF Turns, a
<1>8. b.kind = "oil" => S = {0}
  BY DEF Marks
<1>9. a > 0 => \A x \in S : x < a
  BY <1>1
<1> HIDE DEF S
<1>10. Max(S) \in S /\ \A x \in S : Max(S) >= x
  <2>1. \E x \in S : \A y \in S : x >= y
    BY <1>5, <1>6
  <2> QED
    BY <2>1 DEF Max
<1>11. Max(S) \in Nat /\ (a > 0 => Max(S) < a) /\ (b.kind = "oil" => Max(S) = 0)
  BY <1>5, <1>8, <1>9, <1>10
<1> QED
  BY <1>7, <1>11 DEF a

StartBurn(m, o) ==
  [StartTimer(m, o, Turns(m.obj[o])) EXCEPT !.obj[o].lit = TRUE,
                                            !.obj[o].age = @ - Turns(m.obj[o])]

LEMMA BurnStarted ==
  ASSUME NEW m, HeapOK(m), NEW o \in Slots, ~HasTimer(m, o), moves \in Nat,
         m.obj[o].kind # "thinoil", m.obj[o].timed = 0, NEW n, n = StartBurn(m, o)
  PROVE  /\ HeapOK(n) /\ n.lights = m.lights /\ n.impossible = m.impossible
         /\ Only(m, n, {o}) /\ SameThing(n.obj[o], m.obj[o])
         /\ n.obj[o] \in Obj /\ Lit(n.obj[o]) /\ n.obj[o].timed = 1 /\ n.obj[o].age \in Nat
         /\ n.obj[o].kind = "oil" => n.obj[o].age = 0
         /\ HasTimer(n, o) /\ FuelLeft(n, o) = m.obj[o].age
         /\ m.obj[o].age > 0 => (Overdue(n) => Overdue(m))
<1> DEFINE b == m.obj[o]
<1>1. b \in Obj /\ b.age \in Int
  BY HeapFacts, ObjFacts
<1>2. PICK left \in Nat : /\ Turns(b) = b.age - left
                          /\ b.age > 0 => left < b.age
                          /\ b.kind = "oil" => left = 0
  BY <1>1, TurnsFacts
<1> DEFINE w == Turns(b)
           s == StartTimer(m, o, w)
           t == [o |-> o, at |-> moves + w]
           bt == [b EXCEPT !.timed = @ + 1]
           bl == [bt EXCEPT !.lit = TRUE]
           c == [bl EXCEPT !.age = left]
<1>3. w \in Int
  BY <1>1, <1>2
<1>4. s = StartTimer(m, o, w)
  OBVIOUS
<1>5. t = [o |-> o, at |-> moves + w]
  OBVIOUS
<1>6. bt \in Obj /\ bt.timed = 1 /\ bt.age = b.age /\ bt.kind = b.kind /\ SameThing(bt, b)
  BY <1>1 DEF Obj, SameThing
<1>7. /\ bl \in Obj /\ bl.timed = 1 /\ bl.age = b.age /\ bl.kind = b.kind /\ SameThing(bl, b)
      /\ bl.lit = TRUE
  <2> HIDE DEF bt
  <2> QED
    BY <1>6 DEF Obj, SameThing
<1>8. /\ c \in Obj /\ c.timed = 1 /\ c.age = left /\ c.kind = b.kind /\ SameThing(c, b)
      /\ c.lit = TRUE
  <2> HIDE DEF bl
  <2> QED
    BY <1>7 DEF Obj, SameThing
<1>9. n = [[s EXCEPT !.obj[o].lit = TRUE] EXCEPT !.obj[o].age = @ - w]
  BY DEF StartBurn
<1>10. b.timed = 0 /\ b.kind # "thinoil"
  OBVIOUS
<1>11. bt = [m.obj[o] EXCEPT !.timed = @ + 1]
  OBVIOUS
<1>12. bl = [bt EXCEPT !.lit = TRUE] /\ c = [bl EXCEPT !.age = left]
  OBVIOUS
<1> HIDE DEF w, s, t
<1>13. /\ HeapOK(s) /\ s.lights = m.lights /\ s.impossible = m.impossible
       /\ \A p \in Slots : s.obj[p] = IF p = o THEN [m.obj[o] EXCEPT !.timed = @ + 1] ELSE m.obj[p]
       /\ Entries(s.timers) = Entries(m.timers) \cup {t}
  BY <1>3, <1>4, <1>5, TimerStarted
<1>14. s.obj[o] = bt /\ \A p \in Slots \ {o} : s.obj[p] = m.obj[p]
  BY <1>13, <1>11
<1> HIDE DEF bt, bl, c, b
<1>15. [s EXCEPT !.obj[o].lit = TRUE] = SetObj(s, o, bl)
  <2>1. [s EXCEPT !.obj[o].lit = TRUE] = SetObj(s, o, [s.obj[o] EXCEPT !.lit = TRUE])
    BY DEF SetObj
  <2> QED
    BY <1>12, <1>14, <2>1
<1> DEFINE k == SetObj(s, o, bl)
<1>16. k = SetObj(s, o, bl)
  OBVIOUS
<1>17. n = [k EXCEPT !.obj[o].age = @ - w]
  BY <1>9, <1>15
<1> HIDE DEF k
<1>18. /\ HeapOK(k) /\ k.timers = s.timers /\ k.lights = s.lights /\ k.impossible = s.impossible
       /\ \A p \in Slots : k.obj[p] = IF p = o THEN bl ELSE s.obj[p]
  BY <1>7, <1>13, <1>16, ObjSet
<1>19. n = SetObj(k, o, c)
  <2>1. [k EXCEPT !.obj[o].age = @ - w] = SetObj(k, o, [k.obj[o] EXCEPT !.age = k.obj[o].age - w])
    BY DEF SetObj
  <2>2. k.obj[o] = bl /\ bl.age - w = left
    BY <1>1, <1>2, <1>7, <1>18 DEF w
  <2> QED
    BY <1>12, <1>17, <2>1, <2>2
<1>20. /\ HeapOK(n) /\ n.timers = k.timers /\ n.lights = k.lights /\ n.impossible = k.impossible
       /\ \A p \in Slots : n.obj[p] = IF p = o THEN c ELSE k.obj[p]
  BY <1>8, <1>18, <1>19, ObjSet
<1>21. /\ n.timers = s.timers /\ n.lights = m.lights /\ n.impossible = m.impossible
       /\ n.obj[o] = c /\ \A p \in Slots \ {o} : n.obj[p] = m.obj[p]
  BY <1>13, <1>14, <1>18, <1>20
<1>22. t.o = o /\ t.at = moves + w
  BY <1>5
<1>23. Only(m, n, {o})
  BY <1>13, <1>21, <1>22 DEF Only, TimersFor
<1>24. HasTimer(n, o) /\ Expiry(n, o) = moves + w
  <2>1. \A u \in Entries(m.timers) : u.o # o
    BY DEF HasTimer, Entries
  <2>2. TimersFor(n, o) = {t}
    BY <1>13, <1>21, <1>22, <2>1 DEF TimersFor
  <2> QED
    BY <1>5, <1>20, <2>2, OneTimer DEF HeapOK
<1>25. FuelLeft(n, o) = b.age
  <2>0. n.obj[o].age = c.age
    BY <1>21
  <2>1. FuelLeft(n, o) = c.age + (Expiry(n, o) - moves)
    BY <1>24, <2>0 DEF FuelLeft
  <2> QED
    BY <1>1, <1>2, <1>8, <1>24, <2>1 DEF w
<1>26. b.age > 0 => (Overdue(n) => Overdue(m))
  <2>1. b.age > 0 => t.at > moves
    BY <1>1, <1>2, <1>22 DEF w
  <2>2. t.at \in Int
    BY <1>3, <1>22
  <2> QED
    BY <1>13, <1>21, <2>1, <2>2 DEF Overdue
<1>27. c.kind = "oil" => c.age = 0
  BY <1>2, <1>8
<1> QED
  BY <1>8, <1>20, <1>21, <1>23, <1>24, <1>25, <1>26, <1>27 DEF Lit, b

(* begin_burn() of something unlit, and of what burns already and has just *)
(* lost its timer.                                                         *)
Light(m, o) == BeginBurn(m, o, FALSE)
BurnOn(m, o) == BeginBurn(m, o, TRUE)

LEMMA Lighted ==
  ASSUME NEW m, HeapOK(m), NEW o \in Slots, Right(m, o), ~Lit(m.obj[o]),
         m.obj[o].where # "none", moves \in Nat, NEW n, n = Light(m, o)
  PROVE  /\ HeapOK(n) /\ Only(m, n, {o}) /\ Right(n, o)
         /\ SameThing(n.obj[o], m.obj[o])
         /\ FuelLeft(n, o) = FuelLeft(m, o)
         /\ n.impossible = m.impossible
         /\ m.obj[o].age >= 0 => n.obj[o].age >= 0 /\ (Overdue(n) => Overdue(m))
         /\ n = m \/ Lit(n.obj[o])
<1> DEFINE b == m.obj[o]
<1>1. b \in Obj /\ b.age \in Int /\ b.lit = FALSE /\ b.timed = 0 /\ b.kind # "thinoil"
  <2>1. b \in Obj /\ Sane(b)
    BY DEF Right, Sane
  <2>2. b.lit = FALSE
    BY <2>1, ObjFacts DEF Lit
  <2> QED
    BY <2>1, <2>2, ObjFacts DEF Sane, Burns
<1>2. ~Burns(b) /\ ~HasTimer(m, o) /\ m.lights[o] = 0 /\ FuelLeft(m, o) = b.age
  BY <1>1, Burned DEF Right, Burns
<1>3. CASE b.age = 0 /\ b.kind # "magic"
  <2>1. n = m
    BY <1>3 DEF Light, BeginBurn
  <2>2. Only(m, m, {o}) /\ SameThing(b, b)
    BY DEF Only, SameThing
  <2> QED
    BY <1>3, <2>1, <2>2
<1>4. CASE b.kind = "magic"
  <2> DEFINE c == [b EXCEPT !.lit = TRUE]
             k == SetObj(m, o, c)
  <2>1. /\ c \in Obj /\ c.lit = TRUE /\ c.timed = 0 /\ c.age = b.age /\ SameThing(c, b)
    BY <1>1 DEF Obj, SameThing
  <2>2. k = SetObj(m, o, c)
    OBVIOUS
  <2>3. [m EXCEPT !.obj[o].lit = TRUE] = k
    BY DEF SetObj
  <2>4. b.where # "none" /\ b = m.obj[o] /\ Sane(b)
    BY DEF Right
  <2> HIDE DEF c, k, b
  <2>5. /\ HeapOK(k) /\ k.timers = m.timers /\ k.lights = m.lights /\ k.impossible = m.impossible
        /\ \A p \in Slots : k.obj[p] = IF p = o THEN c ELSE m.obj[p]
    BY <2>1, <2>2, ObjSet
  <2>6. k.obj[o] = c
    BY <2>5
  <2>7. n = [k EXCEPT !.lights[o] = @ + 1]
    BY <1>4, <2>1, <2>3, <2>4, <2>6 DEF Light, BeginBurn
  <2>8. n = SetLight(k, o, 1)
    <3>1. [k EXCEPT !.lights[o] = @ + 1] = SetLight(k, o, k.lights[o] + 1)
      BY DEF SetLight
    <3>2. k.lights[o] + 1 = 1
      BY <1>2, <2>5
    <3> QED
      BY <2>7, <3>1, <3>2
  <2>9. /\ HeapOK(n) /\ n.timers = k.timers /\ n.obj = k.obj /\ n.impossible = k.impossible
        /\ \A p \in Slots : n.lights[p] = IF p = o THEN 1 ELSE k.lights[p]
    BY <2>5, <2>8, LightSet
  <2>10. /\ n.obj[o] = c /\ n.lights[o] = 1 /\ n.timers = m.timers /\ n.impossible = m.impossible
         /\ \A p \in Slots \ {o} : n.obj[p] = m.obj[p] /\ n.lights[p] = m.lights[p]
    BY <2>5, <2>6, <2>9
  <2>11. Only(m, n, {o}) /\ (Overdue(n) => Overdue(m))
    BY <2>10 DEF Only, TimersFor, Overdue
  <2>12. ~HasTimer(n, o)
    BY <1>2, <2>10 DEF HasTimer
  <2>13. Right(n, o)
    BY <1>4, <2>1, <2>4, <2>10, <2>12 DEF Right, Sane, SameThing, Burns
  <2>14. FuelLeft(n, o) = FuelLeft(m, o)
    BY <1>1, <1>2, <2>1, <2>10, <2>12 DEF FuelLeft
  <2> QED
    BY <2>1, <2>4, <2>9, <2>10, <2>11, <2>13, <2>14 DEF Lit
<1>5. CASE b.age # 0 /\ b.kind # "magic"
  <2> DEFINE k == StartBurn(m, o)
  <2>1. k = StartBurn(m, o)
    OBVIOUS
  <2>2. b.where # "none" /\ b = m.obj[o] /\ Sane(b)
    BY DEF Right
  <2> HIDE DEF k, b
  <2>3. /\ HeapOK(k) /\ k.lights = m.lights /\ k.impossible = m.impossible
        /\ Only(m, k, {o}) /\ SameThing(k.obj[o], b)
        /\ k.obj[o] \in Obj /\ Lit(k.obj[o]) /\ k.obj[o].timed = 1 /\ k.obj[o].age \in Nat
        /\ k.obj[o].kind = "oil" => k.obj[o].age = 0
        /\ HasTimer(k, o) /\ FuelLeft(k, o) = b.age
        /\ b.age > 0 => (Overdue(k) => Overdue(m))
    BY <1>1, <1>2, <2>1, <2>2, BurnStarted
  <2>4. k.obj[o].lit = TRUE
    BY <2>3, ObjFacts DEF Lit
  <2>5. n = [k EXCEPT !.lights[o] = @ + 1]
    BY <1>2, <1>5, <2>1, <2>2, <2>4 DEF Light, BeginBurn, StartBurn
  <2>6. n = SetLight(k, o, 1)
    <3>1. [k EXCEPT !.lights[o] = @ + 1] = SetLight(k, o, k.lights[o] + 1)
      BY DEF SetLight
    <3>2. k.lights[o] + 1 = 1
      BY <1>2, <2>3
    <3> QED
      BY <2>5, <3>1, <3>2
  <2>7. /\ HeapOK(n) /\ n.timers = k.timers /\ n.obj = k.obj /\ n.impossible = k.impossible
        /\ \A p \in Slots : n.lights[p] = IF p = o THEN 1 ELSE k.lights[p]
    <3>1. HeapOK(k)
      BY <2>3
    <3> QED
      BY <2>6, <3>1, LightSet
  <2>8. Only(m, n, {o}) /\ (Overdue(n) <=> Overdue(k))
    BY <2>3, <2>7 DEF Only, TimersFor, Overdue
  <2>9. HasTimer(n, o) /\ Expiry(n, o) = Expiry(k, o)
    BY <2>3, <2>7 DEF HasTimer, Expiry, TimerOf
  <2>10. FuelLeft(n, o) = FuelLeft(m, o)
    BY <1>2, <2>3, <2>7, <2>9 DEF FuelLeft
  <2>11. n.lights[o] = 1 /\ n.obj[o] = k.obj[o]
    BY <2>7
  <2>12. Right(n, o)
    BY <1>5, <2>2, <2>3, <2>4, <2>9, <2>11 DEF Right, Sane, SameThing, Burns
  <2> QED
    BY <1>1, <1>5, <2>2, <2>3, <2>7, <2>8, <2>10, <2>11, <2>12
<1> QED
  BY <1>1, <1>3, <1>4, <1>5

(* A burning object whose timer has just gone off.                         *)
Popped(m, o) ==
  /\ m.obj[o] \in Obj /\ Burns(m.obj[o]) /\ m.obj[o].kind # "thinoil" /\ m.obj[o].timed = 0
  /\ m.obj[o].kind = "oil" => m.obj[o].age = 0
  /\ m.obj[o].where # "none" /\ m.obj[o].quan > 0
  /\ m.lights[o] = 1 /\ ~HasTimer(m, o)

LEMMA BurntOn ==
  ASSUME NEW m, HeapOK(m), NEW o \in Slots, Popped(m, o), m.obj[o].age # 0, moves \in Nat,
         NEW n, n = BurnOn(m, o)
  PROVE  /\ HeapOK(n) /\ Only(m, n, {o}) /\ Right(n, o)
         /\ SameThing(n.obj[o], m.obj[o]) /\ Lit(n.obj[o])
         /\ FuelLeft(n, o) = m.obj[o].age /\ n.obj[o].age >= 0
         /\ n.impossible = m.impossible
<1> DEFINE b == m.obj[o]  k == StartBurn(m, o)
<1>1. b \in Obj /\ b.age \in Int /\ b.age # 0 /\ b.kind # "magic" /\ b.timed = 0
      /\ b.kind # "thinoil" /\ b.kind # "oil" /\ b.quan > 0 /\ b.where # "none"
      /\ b.lit = TRUE /\ ~HasTimer(m, o) /\ m.lights[o] = 1
  <2>1. b \in Obj
    BY DEF Popped
  <2> QED
    BY <2>1, ObjFacts DEF Burns, Popped
<1>5. k = StartBurn(m, o)
  OBVIOUS
<1>6. b = m.obj[o]
  OBVIOUS
<1> HIDE DEF b, k
<1>7. /\ HeapOK(k) /\ k.lights = m.lights /\ k.impossible = m.impossible
      /\ Only(m, k, {o}) /\ SameThing(k.obj[o], b)
      /\ k.obj[o] \in Obj /\ Lit(k.obj[o]) /\ k.obj[o].timed = 1 /\ k.obj[o].age \in Nat
      /\ HasTimer(k, o) /\ FuelLeft(k, o) = b.age
  BY <1>1, <1>5, <1>6, BurnStarted
<1>8. n = k
  BY <1>1, <1>5, <1>6 DEF BurnOn, BeginBurn, StartBurn
<1>9. k.obj[o].lit = TRUE
  BY <1>7, ObjFacts DEF Lit
<1>10. Right(n, o)
  BY <1>1, <1>7, <1>8, <1>9 DEF Right, Sane, SameThing, Burns
<1> QED
  BY <1>6, <1>7, <1>8, <1>10

LEMMA Deallocated ==
  ASSUME NEW m, HeapOK(m), NEW o \in Slots, Right(m, o), moves \in Nat, NEW n, n = Dealloc(m, o)
  PROVE  /\ HeapOK(n) /\ Only(m, n, {o}) /\ Right(n, o) /\ n.obj[o] = NoObj
         /\ n.impossible = m.impossible /\ (Overdue(n) => Overdue(m))
<1> DEFINE b == m.obj[o]
           untimed == IF m.obj[o].timed > 0 /\ HasTimer(m, o)
                      THEN CleanupBurn(WithoutTimer(m, o), o, Expiry(m, o)) ELSE m
           dark == IF untimed.obj[o].lit THEN GoesOut(untimed, o) ELSE untimed
           Darkened(d) == /\ HeapOK(d) /\ d.impossible = m.impossible /\ d.lights[o] = 0
                          /\ ~HasTimer(d, o) /\ Only(m, d, {o}) /\ (Overdue(d) => Overdue(m))
<1>1. b \in Obj /\ Sane(b)
  BY DEF Right, Sane
<1>2. n = [dark EXCEPT !.obj[o] = NoObj]
  BY DEF Dealloc
<1>3. ASSUME Burns(b) PROVE Darkened(dark)
  <2> DEFINE at == Expiry(m, o)
             w == WithoutTimer(m, o)
             g == GoesOut(w, o)
             c == [g.obj[o] EXCEPT !.age = g.obj[o].age + (at - moves)]
             u == SetObj(g, o, c)
  <2>1. HasTimer(m, o) /\ b.timed = 1 /\ m.lights[o] = 1 /\ at \in Int
    BY <1>3, Burned
  <2>2. w = WithoutTimer(m, o)
    OBVIOUS
  <2>3. g = GoesOut(w, o)
    OBVIOUS
  <2>4. u = SetObj(g, o, c)
    OBVIOUS
  <2>5. b.lit = TRUE
    BY <1>1, <1>3, ObjFacts DEF Burns
  <2>6. [g EXCEPT !.obj[o].age = @ + (at - moves)] = u
    BY DEF SetObj
  <2>7. c = [g.obj[o] EXCEPT !.age = g.obj[o].age + (at - moves)]
    OBVIOUS
  <2>8. untimed = CleanupBurn(w, o, at)
    BY <2>1
  <2> HIDE DEF w, g, c, u, at, untimed
  <2>9. /\ HeapOK(w) /\ w.obj = m.obj /\ w.lights = m.lights /\ w.impossible = m.impossible
        /\ Entries(w.timers) = {t \in Entries(m.timers) : t.o # o}
    BY <2>1, <2>2, TimerStopped
  <2>10. w.lights[o] = 1 /\ w.obj[o] = b
    BY <2>1, <2>9
  <2>11. /\ HeapOK(g) /\ g.timers = w.timers /\ g.impossible = w.impossible
         /\ \A p \in Slots : g.lights[p] = IF p = o THEN 0 ELSE w.lights[p]
         /\ \A p \in Slots : g.obj[p] = IF p = o THEN Snuffed(w.obj[o]) ELSE w.obj[p]
    BY <2>3, <2>9, <2>10, WentOut
  <2>12. g.obj[o] = Snuffed(b)
    BY <2>10, <2>11
  <2>13. Snuffed(b) \in Obj /\ Snuffed(b).lit = FALSE /\ Snuffed(b).age = b.age
    BY <1>1 DEF Obj, Snuffed
  <2>14. c \in Obj /\ c.lit = FALSE
    <3>1. g.obj[o] \in Obj /\ g.obj[o].lit = FALSE /\ g.obj[o].age + (at - moves) \in Int
      BY <1>1, <2>1, <2>12, <2>13, ObjFacts
    <3> HIDE DEF b
    <3> QED
      BY <2>7, <3>1 DEF Obj
  <2>15. /\ HeapOK(u) /\ u.timers = g.timers /\ u.lights = g.lights /\ u.impossible = g.impossible
         /\ \A p \in Slots : u.obj[p] = IF p = o THEN c ELSE g.obj[p]
    BY <2>4, <2>11, <2>14, ObjSet
  <2>16. untimed = u
    BY <2>3, <2>5, <2>6, <2>8, <2>10 DEF CleanupBurn
  <2>17. untimed.obj[o] = c
    BY <2>15, <2>16
  <2>18. dark = u
    BY <2>14, <2>16, <2>17
  <2>19. /\ u.lights[o] = 0 /\ u.timers = w.timers /\ u.impossible = m.impossible
         /\ \A p \in Slots \ {o} : u.obj[p] = m.obj[p] /\ u.lights[p] = m.lights[p]
    BY <2>9, <2>11, <2>15
  <2>20. Only(m, u, {o}) /\ (Overdue(u) => Overdue(m))
    BY <2>9, <2>19 DEF Only, TimersFor, Overdue
  <2>21. ~HasTimer(u, o)
    <3>1. TimersFor(u, o) = {}
      BY <2>9, <2>19 DEF TimersFor
    <3> QED
      BY <2>15, <3>1, Timed DEF HeapOK
  <2> QED
    BY <2>15, <2>18, <2>19, <2>20, <2>21
<1>4. ASSUME b.lit = TRUE /\ b.kind = "magic" PROVE Darkened(dark)
  <2>1. b.timed = 0 /\ m.lights[o] = 1 /\ ~HasTimer(m, o)
    BY <1>1, <1>4 DEF Right, Sane, Burns
  <2>2. untimed = m
    BY <2>1
  <2>3. dark = GoesOut(m, o)
    BY <1>4, <2>2
  <2> HIDE DEF dark
  <2>4. /\ HeapOK(dark) /\ dark.timers = m.timers /\ dark.impossible = m.impossible
        /\ \A p \in Slots : dark.lights[p] = IF p = o THEN 0 ELSE m.lights[p]
        /\ \A p \in Slots : dark.obj[p] = IF p = o THEN Snuffed(m.obj[o]) ELSE m.obj[p]
    BY <2>1, <2>3, WentOut
  <2>5. ~HasTimer(dark, o)
    BY <2>1, <2>4 DEF HasTimer
  <2>6. Only(m, dark, {o}) /\ (Overdue(dark) => Overdue(m))
    BY <2>4 DEF Only, TimersFor, Overdue
  <2> QED
    BY <2>4, <2>5, <2>6
<1>5. ASSUME b.lit = FALSE PROVE Darkened(dark)
  <2>1. b.timed = 0 /\ m.lights[o] = 0 /\ ~HasTimer(m, o)
    BY <1>1, <1>5 DEF Right, Sane, Burns
  <2>2. untimed = m
    BY <2>1
  <2>3. dark = m
    BY <1>5, <2>2
  <2>4. Only(m, m, {o})
    BY DEF Only
  <2> QED
    BY <2>1, <2>3, <2>4
<1>6. Darkened(dark)
  <2>1. b.lit \in BOOLEAN
    BY <1>1, ObjFacts
  <2> QED
    BY <2>1, <1>3, <1>4, <1>5 DEF Burns
<1> HIDE DEF dark
<1>7. n = SetObj(dark, o, NoObj)
  BY <1>2 DEF SetObj
<1>8. /\ HeapOK(dark) /\ dark.impossible = m.impossible /\ dark.lights[o] = 0
      /\ ~HasTimer(dark, o) /\ Only(m, dark, {o}) /\ (Overdue(dark) => Overdue(m))
  BY <1>6
<1>9. NoObj \in Obj
  BY NoObjIsObj
<1>10. /\ HeapOK(n) /\ n.timers = dark.timers /\ n.lights = dark.lights
       /\ n.impossible = dark.impossible
       /\ \A p \in Slots : n.obj[p] = IF p = o THEN NoObj ELSE dark.obj[p]
  BY <1>7, <1>8, <1>9, ObjSet
<1>11. n.obj[o] = NoObj /\ n.lights[o] = 0
  BY <1>8, <1>10
<1>12. ~HasTimer(n, o)
  BY <1>8, <1>10 DEF HasTimer
<1>13. Only(m, n, {o}) /\ (Overdue(n) => Overdue(m))
  BY <1>8, <1>10 DEF Only, TimersFor, Overdue
<1>14. Right(n, o)
  BY <1>11, <1>12, NoObjIsObj DEF Right, Sane, Burns
<1> QED
  BY <1>8, <1>10, <1>11, <1>13, <1>14

Ended(m, o) == UsedUp(EndBurn(m, o, FALSE), o)

LEMMA BurnedOut ==
  ASSUME NEW m, HeapOK(m), NEW o \in Slots, Popped(m, o), moves \in Nat,
         m.obj[o].age = 0, NEW n, n = Ended(m, o)
  PROVE  /\ HeapOK(n) /\ Only(m, n, {o}) /\ Right(n, o) /\ n.impossible = m.impossible
         /\ \/ n.obj[o] = NoObj
            \/ /\ n.obj[o].kind = m.obj[o].kind /\ n.obj[o].where = m.obj[o].where
               /\ n.obj[o].lev = m.obj[o].lev /\ n.obj[o].quan = m.obj[o].quan
               /\ ~Lit(n.obj[o]) /\ n.obj[o].age = 0
               /\ n.obj[o].kind = "lamp" \/ (n.obj[o].kind = "menorah" /\ n.obj[o].spe = 0)
<1> DEFINE b == m.obj[o]  g == GoesOut(m, o)  c == Snuffed(b)
<1>1. /\ b \in Obj /\ b.age = 0 /\ b.kind # "magic" /\ b.timed = 0 /\ b.kind # "thinoil"
      /\ b.quan > 0 /\ b.where # "none" /\ b.lit = TRUE
  <2>1. b \in Obj
    BY DEF Popped
  <2> QED
    BY <2>1, ObjFacts DEF Burns, Popped
<1>2. m.lights[o] = 1 /\ ~HasTimer(m, o)
  BY DEF Popped
<1>3. g = GoesOut(m, o)
  OBVIOUS
<1>4. n = UsedUp(g, o)
  BY <1>1 DEF Ended, EndBurn
<1>5. c \in Obj /\ c.lit = FALSE /\ c.timed = 0 /\ c.age = 0 /\ SameThing(c, b)
  BY <1>1 DEF Obj, Snuffed, SameThing
<1>6. c = Snuffed(m.obj[o]) /\ b = m.obj[o]
  OBVIOUS
<1> HIDE DEF b, c, g
<1>7. /\ HeapOK(g) /\ g.timers = m.timers /\ g.impossible = m.impossible
      /\ \A p \in Slots : g.lights[p] = IF p = o THEN 0 ELSE m.lights[p]
      /\ \A p \in Slots : g.obj[p] = IF p = o THEN Snuffed(m.obj[o]) ELSE m.obj[p]
  BY <1>2, <1>3, WentOut
<1>8. g.obj[o] = c /\ g.lights[o] = 0
  BY <1>6, <1>7
<1>9. ~HasTimer(g, o)
  BY <1>2, <1>7 DEF HasTimer
<1>10. Right(g, o)
  BY <1>1, <1>5, <1>8, <1>9 DEF Right, Sane, SameThing, Burns
<1>11. Only(m, g, {o})
  BY <1>7 DEF Only, TimersFor
<1>12. c.kind = b.kind /\ c.where = b.where /\ c.lev = b.lev /\ c.quan = b.quan
  BY <1>5 DEF SameThing
<1>13. CASE b.kind = "menorah"
  <2> DEFINE e == [c EXCEPT !.spe = 0]
  <2>1. /\ e \in Obj /\ e.kind = c.kind /\ e.where = c.where /\ e.lev = c.lev /\ e.quan = c.quan
        /\ e.lit = FALSE /\ e.timed = 0 /\ e.age = 0 /\ e.spe = 0
    BY <1>5 DEF Obj
  <2>2. [g EXCEPT !.obj[o].spe = 0] = SetObj(g, o, [g.obj[o] EXCEPT !.spe = 0])
    BY DEF SetObj
  <2>3. n = SetObj(g, o, e)
    BY <1>4, <1>8, <1>12, <1>13, <2>2 DEF UsedUp
  <2> HIDE DEF e
  <2>4. /\ HeapOK(n) /\ n.timers = g.timers /\ n.lights = g.lights /\ n.impossible = g.impossible
        /\ \A p \in Slots : n.obj[p] = IF p = o THEN e ELSE g.obj[p]
    BY <1>7, <2>1, <2>3, ObjSet
  <2>5. n.obj[o] = e /\ n.lights[o] = 0 /\ ~HasTimer(n, o)
    BY <1>8, <1>9, <2>4 DEF HasTimer
  <2>6. Right(n, o)
    BY <1>1, <1>12, <1>13, <2>1, <2>5 DEF Right, Sane, Burns
  <2>7. Only(m, n, {o})
    BY <1>7, <2>4 DEF Only, TimersFor
  <2> QED
    BY <1>6, <1>7, <1>12, <1>13, <2>1, <2>4, <2>5, <2>6, <2>7 DEF Lit
<1>14. CASE b.kind = "lamp"
  <2>1. n = g
    BY <1>4, <1>8, <1>12, <1>14 DEF UsedUp
  <2> QED
    BY <1>5, <1>6, <1>7, <1>8, <1>10, <1>11, <1>12, <1>14, <2>1 DEF Lit
<1>15. CASE b.kind # "menorah" /\ b.kind # "lamp"
  <2>1. n = Dealloc(g, o)
    BY <1>4, <1>8, <1>12, <1>15 DEF UsedUp
  <2>2. /\ HeapOK(n) /\ Only(g, n, {o}) /\ Right(n, o) /\ n.obj[o] = NoObj
        /\ n.impossible = g.impossible
    BY <1>7, <1>10, <2>1, Deallocated
  <2>3. Only(m, n, {o})
    BY <1>11, <2>2 DEF Only
  <2> QED
    BY <1>7, <2>2, <2>3
<1> QED
  BY <1>13, <1>14, <1>15

LEMMA ObjectBurned ==
  ASSUME NEW m, HeapOK(m), NEW o \in Slots, Popped(m, o), moves \in Nat,
         NEW at \in Int, at <= moves, NEW n, n = BurnObject(m, o, at)
  PROVE  /\ HeapOK(n) /\ Only(m, n, {o}) /\ Right(n, o) /\ n.impossible = m.impossible
         /\ \/ n.obj[o] = NoObj
            \/ /\ n.obj[o].kind = m.obj[o].kind /\ n.obj[o].where = m.obj[o].where
               /\ n.obj[o].lev = m.obj[o].lev /\ n.obj[o].quan = m.obj[o].quan
               /\ n.obj[o].age >= 0
               /\ \/ /\ Lit(n.obj[o])
                     /\ FuelLeft(n, o) = m.obj[o].age + (at - moves)
                  \/ /\ ~Lit(n.obj[o]) /\ n.obj[o].age = 0
                     /\ m.obj[o].age + (at - moves) <= 0
                     /\ n.obj[o].kind = "lamp" \/ (n.obj[o].kind = "menorah" /\ n.obj[o].spe = 0)
<1> DEFINE b == m.obj[o]
<1>1. /\ b \in Obj /\ b.age \in Int /\ b.kind # "magic" /\ b.timed = 0 /\ b.kind # "thinoil"
      /\ b.quan > 0 /\ b.where # "none" /\ b.lit = TRUE /\ (b.kind = "oil" => b.age = 0)
  <2>1. b \in Obj
    BY DEF Popped
  <2> QED
    BY <2>1, ObjFacts DEF Burns, Popped
<1>2. m.lights[o] = 1 /\ ~HasTimer(m, o)
  BY DEF Popped
<1>3. CASE at = moves /\ b.age = 0
  <2>1. n = Ended(m, o)
    BY <1>3 DEF BurnObject, Ended
  <2> QED
    BY <1>3, <2>1, BurnedOut
<1>4. CASE at = moves /\ b.age # 0
  <2>1. n = BurnOn(m, o)
    BY <1>1, <1>4 DEF BurnObject, BurnOn
  <2>2. /\ HeapOK(n) /\ Only(m, n, {o}) /\ Right(n, o)
        /\ SameThing(n.obj[o], m.obj[o]) /\ Lit(n.obj[o])
        /\ FuelLeft(n, o) = m.obj[o].age /\ n.obj[o].age >= 0
        /\ n.impossible = m.impossible
    BY <1>4, <2>1, BurntOn
  <2> QED
    BY <1>1, <1>4, <2>2 DEF SameThing
<1>5. CASE at # moves /\ moves - at >= b.age
  <2> DEFINE c == [b EXCEPT !.age = 0]  k == SetObj(m, o, c)
  <2>1. /\ c \in Obj /\ c.lit = b.lit /\ c.timed = 0 /\ c.age = 0 /\ SameThing(c, b)
    BY <1>1 DEF Obj, SameThing
  <2>2. k = SetObj(m, o, c) /\ b = m.obj[o]
    OBVIOUS
  <2>3. [m EXCEPT !.obj[o].age = 0] = k
    BY DEF SetObj
  <2>a. n = Ended([m EXCEPT !.obj[o].age = 0], o)
    <3>1. /\ at # moves /\ moves - at >= m.obj[o].age
          /\ ~(at # moves /\ moves - at < m.obj[o].age)
          /\ ~(at = moves /\ (m.obj[o].age = 0 \/ m.obj[o].kind \in {"oil", "thinoil"}))
      BY <1>1, <1>5
    <3> QED
      BY <3>1, Zenon DEF BurnObject, Ended
  <2>4. n = Ended(k, o)
    BY <2>3, <2>a
  <2> HIDE DEF c, k, b
  <2>5. /\ HeapOK(k) /\ k.timers = m.timers /\ k.lights = m.lights /\ k.impossible = m.impossible
        /\ \A p \in Slots : k.obj[p] = IF p = o THEN c ELSE m.obj[p]
    BY <2>1, <2>2, ObjSet
  <2>6. k.obj[o] = c
    BY <2>5
  <2>7. Popped(k, o) /\ k.obj[o].age = 0
    BY <1>1, <1>2, <2>1, <2>5, <2>6 DEF Popped, Burns, HasTimer, SameThing
  <2>8. Only(m, k, {o})
    BY <2>5 DEF Only, TimersFor
  <2>9. /\ HeapOK(n) /\ Only(k, n, {o}) /\ Right(n, o) /\ n.impossible = k.impossible
        /\ \/ n.obj[o] = NoObj
           \/ /\ n.obj[o].kind = k.obj[o].kind /\ n.obj[o].where = k.obj[o].where
              /\ n.obj[o].lev = k.obj[o].lev /\ n.obj[o].quan = k.obj[o].quan
              /\ ~Lit(n.obj[o]) /\ n.obj[o].age = 0
              /\ n.obj[o].kind = "lamp" \/ (n.obj[o].kind = "menorah" /\ n.obj[o].spe = 0)
    BY <2>4, <2>5, <2>7, BurnedOut
  <2>10. Only(m, n, {o})
    BY <2>8, <2>9 DEF Only
  <2>11. b.age + (at - moves) <= 0
    BY <1>1, <1>5
  <2> QED
    BY <2>1, <2>2, <2>5, <2>6, <2>9, <2>10, <2>11 DEF SameThing
<1>6. CASE at # moves /\ moves - at < b.age
  <2> DEFINE c == [b EXCEPT !.age = b.age - (moves - at)]  k == SetObj(m, o, c)
  <2>1. /\ c \in Obj /\ c.lit = b.lit /\ c.timed = 0 /\ c.age = b.age - (moves - at) /\ SameThing(c, b)
    BY <1>1 DEF Obj, SameThing
  <2>2. k = SetObj(m, o, c) /\ b = m.obj[o]
    OBVIOUS
  <2>3. [m EXCEPT !.obj[o].age = @ - (moves - at)] = k
    BY DEF SetObj
  <2>a. ~(moves - at >= b.age)
    BY <1>1, <1>6
  <2>b. n = BurnOn([m EXCEPT !.obj[o].age = @ - (moves - at)], o)
    BY <1>6, <2>a DEF BurnObject, BurnOn
  <2>4. n = BurnOn(k, o)
    BY <2>3, <2>b
  <2> HIDE DEF c, k, b
  <2>5. /\ HeapOK(k) /\ k.timers = m.timers /\ k.lights = m.lights /\ k.impossible = m.impossible
        /\ \A p \in Slots : k.obj[p] = IF p = o THEN c ELSE m.obj[p]
    BY <2>1, <2>2, ObjSet
  <2>6. k.obj[o] = c
    BY <2>5
  <2>7. b.kind # "oil" /\ b.age - (moves - at) # 0
    BY <1>1, <1>6
  <2>8. Popped(k, o) /\ k.obj[o].age # 0
    BY <1>1, <1>2, <2>1, <2>5, <2>6, <2>7 DEF Popped, Burns, HasTimer, SameThing
  <2>9. Only(m, k, {o})
    BY <2>5 DEF Only, TimersFor
  <2>10. /\ HeapOK(n) /\ Only(k, n, {o}) /\ Right(n, o)
         /\ SameThing(n.obj[o], k.obj[o]) /\ Lit(n.obj[o])
         /\ FuelLeft(n, o) = k.obj[o].age /\ n.obj[o].age >= 0
         /\ n.impossible = k.impossible
    BY <2>4, <2>5, <2>8, BurntOn
  <2>11. Only(m, n, {o})
    BY <2>9, <2>10 DEF Only
  <2>12. b.age - (moves - at) = b.age + (at - moves)
    BY <1>1
  <2> QED
    BY <2>1, <2>2, <2>5, <2>6, <2>10, <2>11, <2>12 DEF SameThing
<1> QED
  BY <1>1, <1>3, <1>4, <1>5, <1>6

----------------------------------------------------------------------------
(* Work on the objects of a set S leaves everything else alone; when no    *)
(* timer is overdue and everything has its fuel, it stays so and nothing   *)
(* is complained of.                                                       *)
Needs(b) == b.kind = "candle" \/ (b.kind = "menorah" /\ b.spe > 0)
Fueled(b) == b.age >= 0 /\ (b.where # "none" /\ ~Lit(b) /\ Needs(b) => b.age > 0)
Calm(m) == ~Overdue(m) /\ \A o \in Slots : Fueled(m.obj[o])
Calmly(m, n) == Calm(m) => Calm(n) /\ n.impossible = m.impossible
Sound(m, n, S) == /\ HeapOK(n) /\ Only(m, n, S) /\ Calmly(m, n)
                  /\ \A p \in S : Right(n, p) /\ ~Away(n.obj[p])

LEMMA Untouched ==
  ASSUME NEW m, HeapOK(m), NEW n, HeapOK(n), NEW S, Only(m, n, S), NEW p \in Slots, p \notin S
  PROVE  /\ n.obj[p] = m.obj[p] /\ n.lights[p] = m.lights[p]
         /\ HasTimer(n, p) <=> HasTimer(m, p)
         /\ FuelLeft(n, p) = FuelLeft(m, p)
         /\ Right(m, p) => Right(n, p)
<1>1. n.obj[p] = m.obj[p] /\ n.lights[p] = m.lights[p] /\ TimersFor(n, p) = TimersFor(m, p)
  BY DEF Only
<1>2. /\ HasTimer(n, p) <=> HasTimer(m, p)
      /\ HasTimer(m, p) => Expiry(n, p) = Expiry(m, p)
  BY <1>1, SameTimers DEF HeapOK
<1> QED
  BY <1>1, <1>2 DEF FuelLeft, Right

LEMMA StillCalm ==
  ASSUME NEW m, NEW n, NEW S, Calm(m), Only(m, n, S), Overdue(n) => Overdue(m),
         \A p \in S : Fueled(n.obj[p])
  PROVE  Calm(n)
BY DEF Calm, Only

LEMMA SoundAgain ==
  ASSUME NEW m, HeapOK(m), NEW k, NEW n, NEW S \in SUBSET Slots, NEW T \in SUBSET Slots,
         Sound(m, k, S), Sound(k, n, T)
  PROVE  Sound(m, n, S \cup T)
<1>1. HeapOK(k) /\ HeapOK(n) /\ Only(m, k, S) /\ Only(k, n, T)
  BY DEF Sound
<1>2. Only(m, n, S \cup T)
  BY <1>1 DEF Only
<1>3. Calmly(m, n)
  BY DEF Sound, Calmly
<1>4. ASSUME NEW p \in S \cup T PROVE Right(n, p) /\ ~Away(n.obj[p])
  <2>1. CASE p \in T
    BY <2>1 DEF Sound
  <2>2. CASE p \in S /\ p \notin T
    <3>1. Right(k, p) /\ ~Away(k.obj[p]) /\ p \in Slots
      BY <2>2 DEF Sound
    <3>2. n.obj[p] = k.obj[p] /\ (Right(k, p) => Right(n, p))
      BY <1>1, <2>2, <3>1, Untouched
    <3> QED
      BY <3>1, <3>2
  <2> QED
    BY <2>1, <2>2
<1> QED
  BY <1>1, <1>2, <1>3, <1>4 DEF Sound

LEMMA SoundPutOut ==
  ASSUME NEW m, HeapOK(m), NEW o \in Slots, Right(m, o), Lit(m.obj[o]), moves \in Nat,
         ~Away(m.obj[o]), NEW n, n = PutOut(m, o)
  PROVE  /\ Sound(m, n, {o}) /\ SameThing(n.obj[o], m.obj[o]) /\ ~Lit(n.obj[o])
         /\ FuelLeft(n, o) = FuelLeft(m, o)
<1>1. /\ HeapOK(n) /\ Only(m, n, {o}) /\ Right(n, o) /\ Hushed(m, n)
      /\ SameThing(n.obj[o], m.obj[o]) /\ ~Lit(n.obj[o])
      /\ FuelLeft(n, o) = FuelLeft(m, o)
  BY BurnEnded
<1>2. ~Away(n.obj[o])
  BY <1>1 DEF Away, SameThing
<1>3. ASSUME Calm(m) PROVE Calm(n) /\ n.impossible = m.impossible
  <2>1. ~Overdue(m) /\ Fueled(m.obj[o]) /\ m.obj[o] \in Obj
    BY <1>3, Burned DEF Calm
  <2>2. m.obj[o].age >= 0 /\ m.obj[o].age \in Int /\ n.obj[o].age \in Int
    BY <1>1, <2>1, ObjFacts DEF Fueled, Right, Sane
  <2>3. FuelLeft(n, o) = n.obj[o].age
    BY <1>1, Burned DEF Lit, Burns
  <2>4. CASE Burns(m.obj[o])
    <3>1. FuelLeft(m, o) > 0
      BY <2>1, <2>2, <2>4, Burned
    <3>2. n.obj[o].age > 0
      BY <1>1, <2>3, <3>1
    <3>3. Fueled(n.obj[o])
      BY <2>2, <3>2 DEF Fueled
    <3> QED
      BY <1>1, <1>3, <2>1, <3>3, StillCalm DEF Hushed
  <2>5. CASE ~Burns(m.obj[o])
    <3>1. FuelLeft(m, o) = m.obj[o].age
      BY <2>5, Burned
    <3>2. n.obj[o].age >= 0
      BY <1>1, <2>2, <2>3, <3>1
    <3>3. ~Needs(n.obj[o])
      BY <1>1, <2>5 DEF Needs, SameThing, Burns, Lit
    <3>4. Fueled(n.obj[o])
      BY <3>2, <3>3 DEF Fueled
    <3> QED
      BY <1>1, <1>3, <2>1, <3>4, StillCalm DEF Hushed
  <2> QED
    BY <2>4, <2>5
<1> QED
  BY <1>1, <1>2, <1>3 DEF Sound, Calmly

LEMMA SoundLight ==
  ASSUME NEW m, HeapOK(m), NEW o \in Slots, Right(m, o), ~Lit(m.obj[o]),
         m.obj[o].where # "none", moves \in Nat, ~Away(m.obj[o]), NEW n, n = Light(m, o)
  PROVE  /\ Sound(m, n, {o}) /\ SameThing(n.obj[o], m.obj[o])
         /\ FuelLeft(n, o) = FuelLeft(m, o)
<1>1. /\ HeapOK(n) /\ Only(m, n, {o}) /\ Right(n, o)
      /\ SameThing(n.obj[o], m.obj[o])
      /\ FuelLeft(n, o) = FuelLeft(m, o)
      /\ n.impossible = m.impossible
      /\ m.obj[o].age >= 0 => n.obj[o].age >= 0 /\ (Overdue(n) => Overdue(m))
      /\ n = m \/ Lit(n.obj[o])
  BY Lighted
<1>2. ~Away(n.obj[o])
  BY <1>1 DEF Away, SameThing
<1>3. ASSUME Calm(m) PROVE Calm(n)
  <2>1. Fueled(m.obj[o])
    BY <1>3 DEF Calm
  <2>2. CASE n = m
    BY <1>3, <2>2
  <2>3. CASE Lit(n.obj[o])
    <3>1. Fueled(n.obj[o]) /\ (Overdue(n) => Overdue(m))
      BY <1>1, <2>1, <2>3 DEF Fueled
    <3> QED
      BY <1>1, <1>3, <3>1, StillCalm
  <2> QED
    BY <1>1, <2>2, <2>3
<1> QED
  BY <1>1, <1>2, <1>3 DEF Sound, Calmly

LEMMA SoundDealloc ==
  ASSUME NEW m, HeapOK(m), NEW o \in Slots, Right(m, o), moves \in Nat, NEW n, n = Dealloc(m, o)
  PROVE  Sound(m, n, {o}) /\ n.obj[o] = NoObj
<1>1. /\ HeapOK(n) /\ Only(m, n, {o}) /\ Right(n, o) /\ n.obj[o] = NoObj
      /\ n.impossible = m.impossible /\ (Overdue(n) => Overdue(m))
  BY Deallocated
<1>2. ~Away(n.obj[o]) /\ Fueled(n.obj[o])
  BY <1>1, NoObjIsObj DEF Away, Fueled
<1>3. Calm(m) => Calm(n)
  BY <1>1, <1>2, StillCalm
<1> QED
  BY <1>1, <1>2, <1>3 DEF Sound, Calmly

(* A change of an object that leaves its timer and its light as they are.  *)
LEMMA SoundSet ==
  ASSUME NEW m, HeapOK(m), NEW o \in Slots, Right(m, o), moves \in Nat,
         NEW c, Sane(c), ~Away(c), c.lit = m.obj[o].lit,
         c.lit => c.kind = m.obj[o].kind, Calm(m) => Fueled(c),
         NEW n, n = SetObj(m, o, c)
  PROVE  /\ Sound(m, n, {o}) /\ n.obj[o] = c
         /\ FuelLeft(n, o) = FuelLeft(m, o) + (c.age - m.obj[o].age)
<1>1. c \in Obj /\ m.obj[o] \in Obj
  BY DEF Sane, Right
<1>2. /\ HeapOK(n) /\ n.timers = m.timers /\ n.lights = m.lights
      /\ n.impossible = m.impossible
      /\ \A p \in Slots : n.obj[p] = IF p = o THEN c ELSE m.obj[p]
  BY <1>1, ObjSet
<1>3. n.obj[o] = c
  BY <1>2
<1>4. /\ \A p : HasTimer(n, p) <=> HasTimer(m, p)
      /\ \A p : Expiry(n, p) = Expiry(m, p)
      /\ \A p : TimersFor(n, p) = TimersFor(m, p)
      /\ Overdue(n) <=> Overdue(m)
  BY <1>2 DEF HasTimer, Expiry, TimerOf, TimersFor, Overdue
<1>5. Only(m, n, {o})
  BY <1>2, <1>4 DEF Only
<1>6. Burns(c) <=> Burns(m.obj[o])
  BY <1>1, ObjFacts DEF Burns
<1>7. Right(n, o)
  BY <1>2, <1>3, <1>4, <1>6 DEF Right
<1>8. FuelLeft(n, o) = FuelLeft(m, o) + (c.age - m.obj[o].age)
  <2>1. c.age \in Int /\ m.obj[o].age \in Int
    BY <1>1, ObjFacts
  <2>2. HasTimer(m, o) => Expiry(m, o) \in Int
    BY Timed DEF HeapOK
  <2> QED
    BY <1>3, <1>4, <2>1, <2>2 DEF FuelLeft
<1>9. Calm(m) => Calm(n)
  <2>1. Calm(m) => Fueled(n.obj[o])
    BY <1>3
  <2> QED
    BY <1>4, <1>5, <2>1, StillCalm
<1> QED
  BY <1>2, <1>3, <1>5, <1>7, <1>8, <1>9 DEF Sound, Calmly

(* The same in fewer words.                                                *)
Alike(b, c) == c.lit = b.lit /\ (c.lit => c.kind = b.kind)
Altered(m, n, o, c) == /\ Sound(m, n, {o}) /\ n.obj[o] = c
                       /\ FuelLeft(n, o) = FuelLeft(m, o) + (c.age - m.obj[o].age)

LEMMA SoundAltered ==
  ASSUME NEW m, HeapOK(m), NEW o \in Slots, Right(m, o), moves \in Nat,
         NEW c, Sane(c), ~Away(c), Alike(m.obj[o], c), Calm(m) => Fueled(c),
         NEW n, n = SetObj(m, o, c)
  PROVE  Altered(m, n, o, c)
<1>1. c.lit = m.obj[o].lit /\ (c.lit => c.kind = m.obj[o].kind)
  BY DEF Alike
<1>2. /\ Sound(m, n, {o}) /\ n.obj[o] = c
      /\ FuelLeft(n, o) = FuelLeft(m, o) + (c.age - m.obj[o].age)
  BY <1>1, SoundSet
<1> QED
  BY <1>2 DEF Altered

LEMMA TimerSplit ==
  ASSUME NEW m, HeapOK(m), NEW o \in Slots, NEW n \in Slots, ~HasTimer(m, n),
         m.obj[n].timed = 0, moves \in Nat, NEW x, x = SplitTimers(m, o, n)
  PROVE  /\ HeapOK(x) /\ x.lights = m.lights /\ x.impossible = m.impossible
         /\ \A p \in Slots : p # n => x.obj[p] = m.obj[p] /\ TimersFor(x, p) = TimersFor(m, p)
         /\ x.obj[n] = [m.obj[n] EXCEPT !.timed = IF HasTimer(m, o) THEN 1 ELSE 0]
         /\ HasTimer(x, n) <=> HasTimer(m, o)
         /\ HasTimer(m, o) => Expiry(x, n) = Expiry(m, o)
         /\ Overdue(x) => Overdue(m)
<1>1. m.obj[n] \in Obj
  BY HeapFacts
<1>2. CASE ~HasTimer(m, o)
  <2>1. x = m
    BY <1>2 DEF SplitTimers
  <2>2. [m.obj[n] EXCEPT !.timed = 0] = m.obj[n]
    BY <1>1 DEF Obj
  <2> QED
    BY <1>2, <2>1, <2>2
<1>3. CASE HasTimer(m, o)
  <2> DEFINE at == Expiry(m, o)  t == [o |-> n, at |-> moves + (at - moves)]
  <2>1. at \in Int /\ [o |-> o, at |-> at] \in Entries(m.timers)
    BY <1>3, Timed DEF HeapOK, TimersFor
  <2>2. x = StartTimer(m, n, at - moves) /\ at - moves \in Int /\ moves + (at - moves) = at
    BY <1>3, <2>1 DEF SplitTimers
  <2>3. t = [o |-> n, at |-> moves + (at - moves)] /\ t.o = n /\ t.at = at
    BY <2>2
  <2>a. t = [o |-> n, at |-> at]
    BY <2>2
  <2> HIDE DEF t, at
  <2>4. /\ HeapOK(x) /\ x.lights = m.lights /\ x.impossible = m.impossible
        /\ \A p \in Slots :
              x.obj[p] = IF p = n THEN [m.obj[n] EXCEPT !.timed = @ + 1] ELSE m.obj[p]
        /\ Entries(x.timers) = Entries(m.timers) \cup {t}
    BY <2>2, <2>3, TimerStarted, SMTT(30)
  <2>5. [m.obj[n] EXCEPT !.timed = @ + 1] = [m.obj[n] EXCEPT !.timed = 1]
    OBVIOUS
  <2>6. x.obj[n] = [m.obj[n] EXCEPT !.timed = 1]
    BY <2>4, <2>5
  <2>7. TimersFor(m, n) = {}
    BY Timed DEF HeapOK
  <2>8. TimersFor(x, n) = {t}
    BY <2>3, <2>4, <2>7 DEF TimersFor
  <2>9. HasTimer(x, n) /\ Expiry(x, n) = at
    BY <2>4, <2>8, <2>a, OneTimer DEF HeapOK
  <2>10. \A p \in Slots : p # n => TimersFor(x, p) = TimersFor(m, p)
    BY <2>3, <2>4 DEF TimersFor
  <2>11. Overdue(x) => Overdue(m)
    <3>1. [o |-> o, at |-> at].at = t.at
      BY <2>3
    <3> QED
      BY <2>1, <2>4, <3>1 DEF Overdue
  <2>12. \A p \in Slots : p # n => x.obj[p] = m.obj[p]
    BY <2>4
  <2> QED
    BY <1>3, <2>4, <2>6, <2>9, <2>10, <2>11, <2>12 DEF at
<1> QED
  BY <1>2, <1>3

LEMMA LightSplit ==
  ASSUME NEW m, HeapOK(m), NEW o \in Slots, NEW n \in Slots, o # n, ~Lit(m.obj[n]),
         m.lights[n] = 0, NEW x, x = SplitLight(m, o, n)
  PROVE  /\ HeapOK(x) /\ x.timers = m.timers /\ x.impossible = m.impossible
         /\ \A p \in Slots : p # n => x.obj[p] = m.obj[p] /\ x.lights[p] = m.lights[p]
         /\ x.obj[n] = [m.obj[n] EXCEPT !.lit = m.obj[o].lit]
         /\ x.lights[n] = IF m.obj[o].lit THEN m.lights[o] ELSE 0
<1> DEFINE g == SetLight(m, n, m.lights[o])  c == [m.obj[n] EXCEPT !.lit = TRUE]
<1>1. /\ m.obj[n] \in Obj /\ m.obj[o] \in Obj /\ m.lights[o] \in Nat /\ m \in HeapType
      /\ m.lights \in [Slots -> Nat]
  BY HeapFacts
<1>2. c \in Obj
  BY <1>1 DEF Obj
<1>a. m.lights[o] \in Nat
  BY <1>1
<1>3. CASE m.obj[o].lit = TRUE
  <2>1. x = [m EXCEPT !.lights[n] = @ + m.lights[o], !.obj[n].lit = TRUE]
    BY <1>3 DEF SplitLight
  <2>2. m.lights[n] + m.lights[o] = m.lights[o]
    BY <1>1
  <2>3. x = [g EXCEPT !.obj[n] = [g.obj[n] EXCEPT !.lit = TRUE]] /\ g.obj = m.obj
    BY <1>1, <2>1, <2>2 DEF SetLight, HeapType
  <2>4. x = SetObj(g, n, c)
    BY <2>3 DEF SetObj
  <2>5. g = SetLight(m, n, m.lights[o])
    OBVIOUS
  <2>6. c = [m.obj[n] EXCEPT !.lit = m.obj[o].lit]
    BY <1>3
  <2> HIDE DEF g, c
  <2>7. /\ HeapOK(g) /\ g.timers = m.timers /\ g.obj = m.obj /\ g.impossible = m.impossible
        /\ g.lights[n] = m.lights[o] /\ \A p \in Slots : p # n => g.lights[p] = m.lights[p]
    <3>1. PICK v \in Nat : v = m.lights[o]
      BY <1>a
    <3>2. g = SetLight(m, n, v)
      BY <2>5, <3>1
    <3>3. /\ HeapOK(g) /\ g.timers = m.timers /\ g.obj = m.obj /\ g.impossible = m.impossible
          /\ \A p \in Slots : g.lights[p] = IF p = n THEN v ELSE m.lights[p]
      BY <3>2, LightSet, SMTT(60)
    <3>4. g.lights[n] = v
      BY <3>3
    <3> QED
      BY <3>1, <3>3, <3>4
  <2>8. /\ HeapOK(x) /\ x.timers = g.timers /\ x.lights = g.lights
        /\ x.impossible = g.impossible
        /\ \A p \in Slots : x.obj[p] = IF p = n THEN c ELSE g.obj[p]
    BY <1>2, <2>4, <2>7, ObjSet
  <2>9. x.obj[n] = [m.obj[n] EXCEPT !.lit = m.obj[o].lit]
    BY <2>6, <2>8
  <2>10. x.lights[n] = IF m.obj[o].lit THEN m.lights[o] ELSE 0
    BY <1>3, <2>7, <2>8
  <2> QED
    BY <2>7, <2>8, <2>9, <2>10
<1>4. CASE m.obj[o].lit = FALSE
  <2>1. x = m
    BY <1>4 DEF SplitLight
  <2>2. m.obj[n].lit = FALSE
    BY <1>1, ObjFacts DEF Lit
  <2>3. [m.obj[n] EXCEPT !.lit = FALSE] = m.obj[n]
    BY <1>1, <2>2 DEF Obj
  <2>4. x.obj[n] = [m.obj[n] EXCEPT !.lit = m.obj[o].lit]
    BY <1>4, <2>1, <2>3
  <2> QED
    BY <1>4, <2>1, <2>4
<1>5. m.obj[o].lit \in BOOLEAN
  BY <1>1, ObjFacts
<1> QED
  BY <1>3, <1>4, <1>5

(* splitobj(): the timer and the light source are doubled.                 *)
LEMMA SoundSplit ==
  ASSUME NEW m, HeapOK(m), NEW o \in Slots, Right(m, o), NEW n \in Slots, Right(m, n),
         m.obj[o].where # "none", ~Away(m.obj[o]), m.obj[n].where = "none", moves \in Nat,
         NEW k \in Nat, 0 < k, k < m.obj[o].quan, NEW x, x = SplitObj(m, o, n, k)
  PROVE  /\ Sound(m, x, {o, n}) /\ o # n
         /\ x.obj[o] = [m.obj[o] EXCEPT !.quan = m.obj[o].quan - k]
         /\ x.obj[n] = [m.obj[o] EXCEPT !.quan = k]
         /\ FuelLeft(x, o) = FuelLeft(m, o) /\ FuelLeft(x, n) = FuelLeft(m, o)
<1> DEFINE b == m.obj[o]
           c1 == [b EXCEPT !.quan = k, !.timed = 0, !.lit = FALSE]
           c2 == [b EXCEPT !.quan = b.quan - k]
           c3 == [b EXCEPT !.quan = k]
           one == SetObj(m, n, c1)
           two == SetObj(one, o, c2)
           ticking == SplitTimers(two, o, n)
<1>1. o # n /\ b \in Obj /\ Sane(b) /\ b.quan - k \in Nat /\ b.quan \in Nat
  <2>1. b \in Obj
    BY DEF Right, Sane
  <2> QED
    BY <2>1, ObjFacts DEF Right
<1>2. /\ c1 \in Obj /\ c2 \in Obj /\ c3 \in Obj /\ c1.lit = FALSE /\ c1.timed = 0 /\ c1.quan = k
      /\ c1.age = b.age /\ c1.kind = b.kind
  BY <1>1 DEF Obj
<1>a. c1 \in Obj
  BY <1>2
<1>b. c2 \in Obj
  BY <1>2
<1>3. /\ c2.lit = b.lit /\ c2.kind = b.kind /\ c2.age = b.age /\ c2.timed = b.timed
      /\ c2.where = b.where /\ c2.lev = b.lev /\ c2.quan > 0 /\ c2.spe = b.spe
  BY <1>1 DEF Obj
<1>4. /\ c3.lit = b.lit /\ c3.kind = b.kind /\ c3.age = b.age /\ c3.timed = b.timed
      /\ c3.where = b.where /\ c3.lev = b.lev /\ c3.quan > 0 /\ c3.spe = b.spe
  BY <1>1 DEF Obj
<1>5. Sane(c2) /\ Sane(c3) /\ ~Away(c2) /\ ~Away(c3)
  BY <1>1, <1>2, <1>3, <1>4 DEF Sane, Burns, Away
<1>6. /\ Fueled(b) => Fueled(c2) /\ Fueled(c3)
  BY <1>3, <1>4 DEF Fueled, Needs, Lit
<1>7. x = SplitLight(ticking, o, n)
  <2>1. one = SetObj(m, n, c1)
    OBVIOUS
  <2>2. m \in HeapType /\ m.obj \in [Slots -> Obj]
    BY HeapFacts
  <2>3. b = m.obj[o] /\ c2 = [b EXCEPT !.quan = b.quan - k]
    OBVIOUS
  <2>4. [m EXCEPT !.obj[n] = [m.obj[o] EXCEPT !.quan = k, !.timed = 0, !.lit = FALSE],
                  !.obj[o].quan = @ - k]
        = [one EXCEPT !.obj[o].quan = @ - k]
    BY DEF SetObj
  <2> HIDE DEF one, c1, c2, b
  <2>5. one.obj[o] = b
    <3>1. /\ HeapOK(one) /\ \A p \in Slots : one.obj[p] = IF p = n THEN c1 ELSE m.obj[p]
      BY <1>a, <2>1, ObjSet
    <3> QED
      BY <1>1, <2>3, <3>1
  <2>6. [one EXCEPT !.obj[o].quan = @ - k] = two
    <3>1. two = SetObj(one, o, c2)
      OBVIOUS
    <3> HIDE DEF two
    <3>2. [one EXCEPT !.obj[o].quan = @ - k]
          = [one EXCEPT !.obj[o] = [one.obj[o] EXCEPT !.quan = one.obj[o].quan - k]]
      OBVIOUS
    <3> QED
      BY <2>3, <2>5, <3>1, <3>2 DEF SetObj
  <2>7. x = SplitLight(SplitTimers(two, o, n), o, n)
    BY <2>4, <2>6 DEF SplitObj
  <2> QED
    BY <2>7
<1>8. one = SetObj(m, n, c1)
  OBVIOUS
<1>9. two = SetObj(one, o, c2)
  OBVIOUS
<1>10. ticking = SplitTimers(two, o, n)
  OBVIOUS
<1>11. b = m.obj[o]
  OBVIOUS
<1>12. c1 = [b EXCEPT !.quan = k, !.timed = 0, !.lit = FALSE]
  OBVIOUS
<1>13. c2 = [m.obj[o] EXCEPT !.quan = m.obj[o].quan - k]
  OBVIOUS
<1>14. c3 = [b EXCEPT !.quan = k]
  OBVIOUS
<1> HIDE DEF b, c1, c2, c3, one, two, ticking
<1>15. /\ HeapOK(one) /\ one.timers = m.timers /\ one.lights = m.lights
       /\ one.impossible = m.impossible
       /\ \A p \in Slots : one.obj[p] = IF p = n THEN c1 ELSE m.obj[p]
  BY <1>a, <1>8, ObjSet
<1>16. /\ HeapOK(two) /\ two.timers = one.timers /\ two.lights = one.lights
       /\ two.impossible = one.impossible
       /\ \A p \in Slots : two.obj[p] = IF p = o THEN c2 ELSE one.obj[p]
  BY <1>b, <1>9, <1>15, ObjSet
<1>17. two.obj[o] = c2 /\ two.obj[n] = c1
  BY <1>1, <1>15, <1>16
<1>18. /\ HasTimer(m, o) <=> Burns(b)
       /\ m.lights[o] = (IF b.lit THEN 1 ELSE 0)
       /\ m.lights[n] = 0 /\ ~HasTimer(m, n)
  BY <1>11, NoObjIsObj DEF Right, Sane, Burns
<1>19. HasTimer(two, o) <=> Burns(b)
  BY <1>15, <1>16, <1>18 DEF HasTimer
<1>20. ~HasTimer(two, n)
  BY <1>15, <1>16, <1>18 DEF HasTimer
<1>21. two.obj[n].timed = 0
  BY <1>2, <1>17
<1>22. /\ HeapOK(ticking) /\ ticking.lights = two.lights /\ ticking.impossible = two.impossible
       /\ \A p \in Slots :
            p # n => ticking.obj[p] = two.obj[p] /\ TimersFor(ticking, p) = TimersFor(two, p)
       /\ ticking.obj[n] = [two.obj[n] EXCEPT !.timed = IF HasTimer(two, o) THEN 1 ELSE 0]
       /\ HasTimer(ticking, n) <=> HasTimer(two, o)
       /\ HasTimer(two, o) => Expiry(ticking, n) = Expiry(two, o)
       /\ Overdue(ticking) => Overdue(two)
  BY <1>10, <1>16, <1>20, <1>21, TimerSplit
<1>23. ticking.obj[o] = c2 /\ ticking.obj[n] = [c1 EXCEPT !.timed = b.timed]
  BY <1>1, <1>17, <1>19, <1>22 DEF Sane
<1>24. ~Lit(ticking.obj[n]) /\ ticking.lights[n] = 0 /\ ticking.lights[o] = m.lights[o]
  <2>1. [c1 EXCEPT !.timed = b.timed].lit = c1.lit
    BY <1>a DEF Obj
  <2> QED
    BY <1>2, <1>15, <1>16, <1>18, <1>22, <1>23, <2>1 DEF Lit
<1>25. /\ HeapOK(x) /\ x.timers = ticking.timers /\ x.impossible = ticking.impossible
       /\ \A p \in Slots : p # n => /\ x.obj[p] = ticking.obj[p]
                                   /\ x.lights[p] = ticking.lights[p]
       /\ x.obj[n] = [ticking.obj[n] EXCEPT !.lit = ticking.obj[o].lit]
       /\ x.lights[n] = IF ticking.obj[o].lit THEN ticking.lights[o] ELSE 0
  <2>1. HeapOK(ticking) /\ o # n
    BY <1>1, <1>22
  <2>2. x = SplitLight(ticking, o, n)
    BY <1>7
  <2>3. ~Lit(ticking.obj[n]) /\ ticking.lights[n] = 0
    BY <1>24
  <2> QED
    BY <2>1, <2>2, <2>3, LightSplit
<1>26. x.obj[o] = c2
  BY <1>1, <1>23, <1>25
<1>27. x.obj[n] = c3
  <2>1. x.obj[n] = [[c1 EXCEPT !.timed = b.timed] EXCEPT !.lit = b.lit]
    BY <1>3, <1>23, <1>25
  <2>2. [[c1 EXCEPT !.timed = b.timed] EXCEPT !.lit = b.lit] = c3
    BY <1>1, <1>12, <1>14 DEF Obj
  <2> QED
    BY <2>1, <2>2
<1>28. /\ x.lights[o] = (IF b.lit THEN 1 ELSE 0) /\ x.lights[n] = (IF b.lit THEN 1 ELSE 0)
  BY <1>1, <1>3, <1>18, <1>23, <1>24, <1>25
<1>29. /\ \A p : HasTimer(x, p) <=> HasTimer(ticking, p)
       /\ \A p : Expiry(x, p) = Expiry(ticking, p)
       /\ \A p : TimersFor(x, p) = TimersFor(ticking, p)
       /\ Overdue(x) <=> Overdue(ticking)
  BY <1>25 DEF HasTimer, Expiry, TimerOf, TimersFor, Overdue
<1>30. /\ \A p : HasTimer(two, p) <=> HasTimer(m, p)
       /\ \A p : Expiry(two, p) = Expiry(m, p)
       /\ \A p : TimersFor(two, p) = TimersFor(m, p)
       /\ Overdue(two) <=> Overdue(m)
  BY <1>15, <1>16 DEF HasTimer, Expiry, TimerOf, TimersFor, Overdue
<1>31. TimersFor(x, o) = TimersFor(m, o)
  BY <1>1, <1>22, <1>29, <1>30
<1>32. (HasTimer(x, o) <=> HasTimer(m, o)) /\ (HasTimer(m, o) => Expiry(x, o) = Expiry(m, o))
  BY <1>25, <1>31, SameTimers DEF HeapOK
<1>33. (HasTimer(x, n) <=> HasTimer(m, o)) /\ (HasTimer(m, o) => Expiry(x, n) = Expiry(m, o))
  BY <1>22, <1>29, <1>30
<1>34. Right(x, o)
  BY <1>3, <1>5, <1>18, <1>26, <1>28, <1>32 DEF Right, Burns
<1>35. Right(x, n)
  BY <1>4, <1>5, <1>18, <1>27, <1>28, <1>33 DEF Right, Burns
<1>36. FuelLeft(x, o) = FuelLeft(m, o) /\ FuelLeft(x, n) = FuelLeft(m, o)
  BY <1>3, <1>4, <1>11, <1>26, <1>27, <1>32, <1>33 DEF FuelLeft
<1>37. Only(m, x, {o, n})
  BY <1>15, <1>16, <1>22, <1>25, <1>29, <1>30 DEF Only
<1>38. Calm(m) => Calm(x) /\ x.impossible = m.impossible
  <2>1. Calm(m) => Fueled(x.obj[o]) /\ Fueled(x.obj[n])
    BY <1>6, <1>11, <1>26, <1>27 DEF Calm
  <2>2. Overdue(x) => Overdue(m)
    BY <1>22, <1>29, <1>30
  <2>3. Calm(m) => Calm(x)
    BY <1>37, <2>1, <2>2, StillCalm
  <2> QED
    BY <1>15, <1>16, <1>22, <1>25, <2>3
<1>39. Sound(m, x, {o, n})
  BY <1>5, <1>25, <1>26, <1>27, <1>34, <1>35, <1>37, <1>38 DEF Sound, Calmly
<1> QED
  BY <1>1, <1>11, <1>13, <1>14, <1>26, <1>27, <1>36, <1>39

LEMMA Quotient ==
  ASSUME NEW x \in Int, NEW y \in Nat, y > 0
  PROVE  /\ CDiv(x, y) \in Int
         /\ x >= 0 => CDiv(x, y) >= 0
         /\ x >= y => CDiv(x, y) > 0
<1>1. CASE x >= 0
  <2>1. x \div y \in Int /\ y * (x \div y) <= x /\ x < y * (x \div y) + y
    BY <1>1
  <2> DEFINE d == x \div y
  <2> HIDE DEF d
  <2>2. d \in Int /\ y * d <= x /\ x < y * d + y
    BY <2>1 DEF d
  <2>3. d >= 0
    <3> SUFFICES ASSUME d <= -1 PROVE FALSE
      BY <2>2
    <3>1. y * d <= y * (-1)
      BY <2>2
    <3> QED
      BY <1>1, <2>2, <3>1
  <2>4. x >= y => d > 0
    <3> SUFFICES ASSUME x >= y, d = 0 PROVE FALSE
      BY <2>2, <2>3
    <3> QED
      BY <2>2
  <2> QED
    BY <1>1, <2>2, <2>3, <2>4 DEF CDiv, d
<1>2. CASE ~(x >= 0)
  <2>1. (-x) \div y \in Int
    OBVIOUS
  <2> QED
    BY <1>2, <2>1 DEF CDiv
<1> QED
  BY <1>1, <1>2

MeanOf(x, a, y, b) == CDiv(x * a + y * b, a + b)

LEMMA Mean ==
  ASSUME NEW x \in Int, NEW y \in Int, NEW a \in Nat, NEW b \in Nat, a > 0, b > 0,
         NEW z, z = MeanOf(x, a, y, b)
  PROVE  /\ z \in Int
         /\ x >= 0 /\ y >= 0 => z >= 0
         /\ x > 0 /\ y > 0 => z > 0
<1>1. x * a + y * b \in Int /\ a + b \in Nat /\ a + b > 0
  OBVIOUS
<1>2. x >= 0 /\ y >= 0 => x * a + y * b >= 0
  OBVIOUS
<1>3. x > 0 /\ y > 0 => x * a + y * b >= a + b
  <2> SUFFICES ASSUME x > 0, y > 0 PROVE x * a + y * b >= a + b
    OBVIOUS
  <2>1. x * a >= a
    OBVIOUS
  <2>2. y * b >= b
    OBVIOUS
  <2>3. x * a \in Int /\ y * b \in Int
    OBVIOUS
  <2> QED
    BY <2>1, <2>2, <2>3
<1> DEFINE s == x * a + y * b
<1>4. s \in Int /\ z = CDiv(s, a + b)
  BY <1>1 DEF MeanOf
<1>5. (x >= 0 /\ y >= 0 => s >= 0) /\ (x > 0 /\ y > 0 => s >= a + b)
  BY <1>2, <1>3
<1> HIDE DEF s
<1> QED
  BY <1>1, <1>4, <1>5, Quotient

(* merged(): p becomes a part of o.                                        *)
LEMMA SoundMerged ==
  ASSUME NEW m, HeapOK(m), NEW o \in Slots, Right(m, o), NEW p \in Slots, Right(m, p),
         ~Away(m.obj[o]), ~Away(m.obj[p]), m.obj[p].where # "none", Mergable(m, o, p),
         moves \in Nat, NEW n, n = Merged(m, o, p)
  PROVE  /\ Sound(m, n, {o, p}) /\ o # p /\ n.obj[p] = NoObj
         /\ n.obj[o].kind = m.obj[o].kind /\ n.obj[o].where = m.obj[o].where
         /\ n.obj[o].lev = m.obj[o].lev /\ n.obj[o].spe = m.obj[o].spe
         /\ n.obj[o].quan = m.obj[o].quan + m.obj[p].quan
         /\ Lit(n.obj[o]) <=> Lit(m.obj[o])
         /\ Lit(n.obj[o]) => FuelLeft(n, o) = FuelLeft(m, o)
<1> DEFINE a == m.obj[o]
           b == m.obj[p]
           mean == CDiv(a.age * a.quan + b.age * b.quan, a.quan + b.quan)
           age == IF Lit(b) THEN a.age ELSE mean
           c == [a EXCEPT !.quan = a.quan + b.quan, !.age = age]
           one == SetObj(m, o, c)
           dark == IF b.lit THEN PutOut(one, p) ELSE one
<1>1. /\ a \in Obj /\ b \in Obj /\ Sane(a) /\ Sane(b) /\ o # p
      /\ a.where # "none" /\ a.kind = b.kind /\ a.kind \in {"candle", "oil", "thinoil"}
  BY DEF Right, Sane, Mergable
<1>2. a.lit = b.lit
  BY DEF Mergable
<1>3. /\ a.quan \in Nat /\ b.quan \in Nat /\ a.quan > 0 /\ b.quan > 0
      /\ a.age \in Int /\ b.age \in Int
  BY <1>1, ObjFacts DEF Sane
<1>4. /\ mean \in Int
      /\ a.age >= 0 /\ b.age >= 0 => mean >= 0
      /\ a.age > 0 /\ b.age > 0 => mean > 0
  <2>1. mean = MeanOf(a.age, a.quan, b.age, b.quan)
    BY DEF MeanOf
  <2> HIDE DEF mean, a, b
  <2>2. PICK x \in Int : x = a.age
    BY <1>3
  <2>3. PICK y \in Int : y = b.age
    BY <1>3
  <2>4. PICK u \in Nat : u = a.quan /\ u > 0
    BY <1>3
  <2>5. PICK v \in Nat : v = b.quan /\ v > 0
    BY <1>3
  <2>6. mean = MeanOf(x, u, y, v)
    BY <2>1, <2>2, <2>3, <2>4, <2>5
  <2>7. /\ mean \in Int
        /\ x >= 0 /\ y >= 0 => mean >= 0
        /\ x > 0 /\ y > 0 => mean > 0
    BY <2>4, <2>5, <2>6, Mean
  <2> QED
    BY <2>2, <2>3, <2>7
<1>5. age \in Int /\ (~Lit(b) => age = mean) /\ (Lit(b) => age = a.age)
  <2> HIDE DEF mean, a, b
  <2>1. CASE Lit(b)
    BY <1>3, <2>1
  <2>2. CASE ~Lit(b)
    BY <1>4, <2>2
  <2> QED
    BY <2>1, <2>2
<1>6. n = Dealloc(dark, p)
  <2> DEFINE merged == [m EXCEPT !.obj[o].quan = @ + b.quan,
                                 !.obj[o].age = IF b.lit THEN @
                       ELSE CDiv(@ * a.quan + b.age * b.quan, a.quan + b.quan)]
  <2>1. n = Dealloc(IF b.lit THEN EndBurn(merged, p, TRUE) ELSE merged, p)
    BY DEF Merged
  <2>2. merged = one
    <3>1. m \in HeapType /\ m.obj \in [Slots -> Obj]
      BY HeapFacts
    <3>2. merged = [m EXCEPT !.obj = [m.obj EXCEPT ![o] = c]]
      BY <1>1, <3>1 DEF Obj, Lit
    <3> QED
      BY <3>1, <3>2 DEF SetObj
  <2> HIDE DEF merged
  <2> QED
    BY <2>1, <2>2 DEF PutOut
<1>7. one = SetObj(m, o, c)
  OBVIOUS
<1>8. dark = IF Lit(b) THEN PutOut(one, p) ELSE one
  BY DEF Lit
<1>9. a = m.obj[o]
  OBVIOUS
<1>10. b = m.obj[p]
  OBVIOUS
<1>11. c = [a EXCEPT !.quan = a.quan + b.quan, !.age = age]
  OBVIOUS
<1> HIDE DEF a, b, c, one, dark, age, mean
<1>12. /\ c \in Obj /\ c.kind = a.kind /\ c.where = a.where /\ c.lev = a.lev /\ c.spe = a.spe
       /\ c.quan = a.quan + b.quan /\ c.age = age /\ c.timed = a.timed
  <2>1. a.quan + b.quan \in Nat
    BY <1>3
  <2> QED
    BY <1>1, <1>5, <1>11, <2>1 DEF Obj
<1>13. c.lit = a.lit
  BY <1>1, <1>11 DEF Obj
<1>14. Lit(c) <=> Lit(a)
  BY <1>13 DEF Lit
<1>15. Lit(a) <=> Lit(b)
  BY <1>2 DEF Lit
<1>16. Sane(c) /\ ~Away(c)
  <2>1. (a.kind = "oil" /\ Lit(a)) => age = 0
    BY <1>1, <1>5, <1>15 DEF Sane, Lit
  <2>2. Burns(c) <=> Burns(a)
    BY <1>12, <1>13 DEF Burns
  <2>3. Sane(c)
    <3>1. c.timed = IF Burns(c) THEN 1 ELSE 0
      BY <1>1, <1>12, <2>2 DEF Sane
    <3>2. (c.kind = "oil" /\ c.lit) => c.age = 0
      BY <1>12, <1>14, <2>1 DEF Lit
    <3>3. c.quan > 0
      BY <1>3, <1>12
    <3> QED
      BY <1>1, <1>12, <3>1, <3>2, <3>3 DEF Sane
  <2> QED
    BY <1>9, <1>12, <2>3 DEF Away
<1>17. Calm(m) => Fueled(c)
  <2>1. Calm(m) => Fueled(a) /\ Fueled(b)
    BY <1>9, <1>10 DEF Calm
  <2>2. Needs(c) => Needs(a) /\ Needs(b)
    BY <1>1, <1>12 DEF Needs
  <2>3. b.where # "none"
    BY <1>10
  <2>4. ASSUME Fueled(a), Fueled(b) PROVE Fueled(c)
    <3>1. a.age >= 0 /\ b.age >= 0 /\ age >= 0
      BY <1>3, <1>4, <1>5, <2>4 DEF Fueled
    <3>2. ASSUME ~Lit(c), Needs(c) PROVE age > 0
      <4>1. a.age > 0 /\ b.age > 0 /\ ~Lit(b)
        BY <1>1, <1>14, <1>15, <2>2, <2>3, <2>4, <3>2 DEF Fueled
      <4> QED
        BY <1>4, <1>5, <4>1
    <3> QED
      BY <1>12, <3>1, <3>2 DEF Fueled
  <2> QED
    BY <2>1, <2>4
<1>18. c.lit = m.obj[o].lit /\ (c.lit => c.kind = m.obj[o].kind)
  BY <1>9, <1>12, <1>13
<1>19. /\ Sound(m, one, {o}) /\ one.obj[o] = c
       /\ FuelLeft(one, o) = FuelLeft(m, o) + (c.age - m.obj[o].age)
  BY <1>7, <1>16, <1>17, <1>18, SoundSet
<1>20. HeapOK(one) /\ Only(m, one, {o}) /\ one.obj[p] = b /\ Right(one, p)
  BY <1>1, <1>10, <1>19, Untouched DEF Sound
<1>21. /\ Sound(m, dark, {o, p}) /\ dark.obj[o] = c /\ Right(dark, p)
       /\ FuelLeft(dark, o) = FuelLeft(one, o)
  <2>1. CASE Lit(b)
    <3>1. dark = PutOut(one, p)
      BY <1>8, <2>1
    <3>2. Sound(one, dark, {p})
      BY <1>10, <1>20, <2>1, <3>1, SoundPutOut
    <3>3. Sound(m, dark, {o} \cup {p})
      BY <1>19, <3>2, SoundAgain
    <3>4. dark.obj[o] = one.obj[o] /\ FuelLeft(dark, o) = FuelLeft(one, o)
      BY <1>1, <1>20, <3>2, Untouched DEF Sound
    <3>5. {o} \cup {p} = {o, p} /\ Right(dark, p)
      BY <3>2 DEF Sound
    <3> QED
      BY <1>19, <3>3, <3>4, <3>5
  <2>2. CASE ~Lit(b)
    <3>1. dark = one
      BY <1>8, <2>2
    <3>2. Only(m, one, {o, p}) /\ ~Away(one.obj[p])
      BY <1>10, <1>20 DEF Only
    <3>3. Sound(m, one, {o, p})
      BY <1>19, <1>20, <3>2 DEF Sound
    <3> QED
      BY <1>19, <1>20, <3>1, <3>3
  <2> QED
    BY <2>1, <2>2
<1>22. HeapOK(dark)
  BY <1>21 DEF Sound
<1>23. Sound(dark, n, {p}) /\ n.obj[p] = NoObj
  BY <1>6, <1>21, <1>22, SoundDealloc
<1>24. Sound(m, n, {o, p})
  <2>1. Sound(m, n, {o, p} \cup {p})
    BY <1>21, <1>23, SoundAgain
  <2>2. {o, p} \cup {p} = {o, p}
    OBVIOUS
  <2> QED
    BY <2>1, <2>2
<1>25. n.obj[o] = c /\ FuelLeft(n, o) = FuelLeft(one, o)
  <2>1. n.obj[o] = dark.obj[o] /\ FuelLeft(n, o) = FuelLeft(dark, o)
    BY <1>1, <1>22, <1>23, Untouched DEF Sound
  <2> QED
    BY <1>21, <2>1
<1>26. Lit(c) => FuelLeft(n, o) = FuelLeft(m, o)
  <2>1. FuelLeft(m, o) \in Int
    <3>1. m.obj[o].age \in Int /\ (HasTimer(m, o) => Expiry(m, o) \in Int)
      BY <1>3, <1>9, Timed DEF HeapOK
    <3> QED
      BY <3>1 DEF FuelLeft
  <2>2. Lit(c) => c.age = m.obj[o].age
    BY <1>5, <1>9, <1>12, <1>14, <1>15
  <2>3. m.obj[o].age \in Int
    BY <1>3, <1>9
  <2> QED
    BY <1>19, <1>25, <2>1, <2>2, <2>3
<1> QED
  BY <1>1, <1>9, <1>10, <1>12, <1>14, <1>23, <1>24, <1>25, <1>26

----------------------------------------------------------------------------
(* The inductive invariant.  An object is at home on one level: its own if *)
(* it was left behind there, otherwise the hero's.  What has been said of  *)
(* the heap in memory holds as well of the one saved with a level.         *)
HeapAt(l) == [obj |-> obj, timers |-> QueueAt(l), lights |-> LightsAt(l),
              impossible |-> impossible]
Home(b) == IF Away(b) THEN b.lev ELSE level
Settled(l) ==
  /\ HeapOK(HeapAt(l))
  /\ \A o \in Slots : IF l = Home(obj[o]) THEN Right(HeapAt(l), o) ELSE Dark(HeapAt(l), o)
Typed ==
  /\ elsewhere \in [Levels -> Saved] /\ elsewhere[level] = NothingSaved
  /\ level \in Levels /\ moves \in Nat /\ praying \in 0 .. 3
  /\ phase \in {"play", "arrive", "timers"}
  /\ fuel \in [Slots -> Int] /\ late \in BOOLEAN
Metered ==
  \A o \in Slots : obj[o].where # "none" /\ obj[o].kind # "magic" =>
    FuelLeft(HeapAt(Home(obj[o])), o) = fuel[o]
Quiet ==
  ~late => /\ impossible = {} /\ \A o \in Slots : Fueled(obj[o])
           /\ phase = "play" => ~Overdue(Heap)
Inv == Typed /\ (\A l \in Levels : Settled(l)) /\ Metered /\ Quiet

LEMMA InvFacts ==
  ASSUME Inv
  PROVE  /\ Heap = HeapAt(level) /\ HeapOK(Heap) /\ level \in Levels /\ moves \in Nat
         /\ obj \in [Slots -> Obj] /\ timers \in Seq(Timer) /\ lights \in [Slots -> Nat]
         /\ impossible \in SUBSET Complaints
         /\ \A o \in Slots : Sane(obj[o]) /\ Home(obj[o]) \in Levels
         /\ \A o \in Slots : ~Away(obj[o]) => Right(Heap, o)
         /\ Heap.obj = obj /\ Heap.timers = timers /\ Heap.lights = lights
         /\ Heap.impossible = impossible
<1>1. level \in Levels /\ moves \in Nat
  BY DEF Inv, Typed
<1>2. Heap = HeapAt(level)
  BY DEF Heap, HeapAt, QueueAt, LightsAt
<1>3. Settled(level)
  BY <1>1 DEF Inv
<1>4. HeapOK(Heap)
  BY <1>2, <1>3 DEF Settled
<1>5. Heap.obj = obj /\ Heap.timers = timers /\ Heap.lights = lights
      /\ Heap.impossible = impossible
  BY DEF Heap
<1>6. obj \in [Slots -> Obj] /\ timers \in Seq(Timer) /\ lights \in [Slots -> Nat]
      /\ impossible \in SUBSET Complaints
  BY <1>4, <1>5, HeapFacts
<1>7. \A o \in Slots : Home(obj[o]) \in Levels
  BY <1>1, <1>6, ObjFacts DEF Home
<1>8. \A o \in Slots : Sane(obj[o])
  <2> TAKE o \in Slots
  <2>1. Right(HeapAt(Home(obj[o])), o)
    BY <1>7 DEF Inv, Settled
  <2>2. HeapAt(Home(obj[o])).obj = obj
    BY DEF HeapAt
  <2> QED
    BY <2>1, <2>2 DEF Right
<1>9. \A o \in Slots : ~Away(obj[o]) => Right(Heap, o)
  BY <1>2, <1>3 DEF Settled, Home
<1> QED
  BY <1>1, <1>2, <1>4, <1>5, <1>6, <1>7, <1>8, <1>9

(* What Track() records of p is its fuel in m.                             *)
Accounts(m, p, o, anew) ==
  /\ m.obj[p].where # "none" /\ m.obj[p].kind # "magic" /\ p \notin anew
  /\ Lit(m.obj[p]) \/ ~(m.obj[p].quan > obj[p].quan)
  => IF obj[p].where = "none"
     THEN /\ obj[o].where # "none" /\ obj[o].kind # "magic" /\ ~Away(obj[o])
          /\ FuelLeft(m, p) = FuelLeft(Heap, o)
     ELSE obj[p].kind # "magic" /\ FuelLeft(m, p) = FuelLeft(Heap, p)

LEMMA SameHome ==
  ASSUME Inv, NEW S \in SUBSET Slots, NEW m, Sound(Heap, m, S), \A p \in S : ~Away(obj[p])
  PROVE  \A p \in Slots : /\ Away(m.obj[p]) <=> Away(obj[p])
                          /\ Home(m.obj[p]) = Home(obj[p])
                          /\ Away(obj[p]) => m.obj[p] = obj[p] /\ p \notin S
<1> TAKE p \in Slots
<1>1. CASE p \in S
  <2>1. ~Away(m.obj[p]) /\ ~Away(obj[p])
    BY <1>1 DEF Sound
  <2> QED
    BY <2>1 DEF Home
<1>2. CASE p \notin S
  <2>1. m.obj[p] = obj[p]
    BY <1>2, InvFacts DEF Sound, Only
  <2> QED
    BY <1>2, <2>1
<1> QED
  BY <1>1, <1>2

LEMMA BecomesSettled ==
  ASSUME Inv, NEW S \in SUBSET Slots, NEW m, Sound(Heap, m, S), \A p \in S : ~Away(obj[p]),
         SetHeap(m), level' = level, elsewhere' = elsewhere
  PROVE  \A l \in Levels :
           /\ Settled(l)' /\ Heap' = m /\ (l = level => HeapAt(l)' = m)
           /\ (l # level => \A o \in Slots : HasTimer(HeapAt(l)', o) <=> HasTimer(HeapAt(l), o))
           /\ (l # level => \A o : Expiry(HeapAt(l)', o) = Expiry(HeapAt(l), o))
<1> TAKE l \in Levels
<1> DEFINE h == [obj |-> m.obj, timers |-> QueueAt(l), lights |-> LightsAt(l),
                 impossible |-> m.impossible]
<1>1. HeapOK(m)
  BY DEF Sound
<1>2. /\ obj' = m.obj /\ timers' = m.timers /\ lights' = m.lights /\ impossible' = m.impossible
  BY DEF SetHeap
<1>3. m = [obj |-> m.obj, timers |-> m.timers, lights |-> m.lights, impossible |-> m.impossible]
  BY <1>1, HeapFacts
<1>4. Heap' = m
  BY <1>2, <1>3 DEF Heap
<1>5. \A b : (Away(b)' <=> Away(b)) /\ Home(b)' = Home(b)
  BY DEF Away, Home
<1>6. CASE l = level
  <2>1. HeapAt(l)' = m
    BY <1>2, <1>3, <1>6 DEF HeapAt, QueueAt, LightsAt
  <2>2. \A o \in Slots : IF l = Home(m.obj[o]) THEN Right(m, o) ELSE Dark(m, o)
    <3> TAKE o \in Slots
    <3>1. Home(m.obj[o]) = Home(obj[o])
      BY SameHome
    <3>2. CASE o \in S
      BY <1>6, <3>2 DEF Sound, Home
    <3>3. CASE o \notin S
      <4>1. /\ m.obj[o] = obj[o] /\ m.lights[o] = Heap.lights[o]
            /\ (HasTimer(m, o) <=> HasTimer(Heap, o))
            /\ (Right(Heap, o) => Right(m, o))
        <5>1. HeapOK(Heap) /\ Only(Heap, m, S) /\ Heap.obj = obj
          BY InvFacts DEF Sound
        <5> QED
          BY <1>1, <3>3, <5>1, Untouched
      <4>2. IF l = Home(obj[o]) THEN Right(Heap, o) ELSE Dark(Heap, o)
        BY <1>6, InvFacts DEF Inv, Settled
      <4> QED
        BY <3>1, <4>1, <4>2 DEF Dark
    <3> QED
      BY <3>2, <3>3
  <2>3. Settled(l)'
    BY <1>1, <1>2, <1>5, <2>1, <2>2 DEF Settled, Home
  <2> QED
    BY <1>4, <1>6, <2>1, <2>3
<1>7. CASE l # level
  <2>1. HeapAt(l)' = h
    BY <1>2, <1>7 DEF HeapAt, QueueAt, LightsAt
  <2>2. Settled(l) /\ HeapAt(l).timers = QueueAt(l) /\ HeapAt(l).lights = LightsAt(l)
        /\ HeapAt(l).obj = obj
    BY DEF Inv, HeapAt
  <2>3. h.timers = QueueAt(l) /\ h.lights = LightsAt(l) /\ h.obj = m.obj
    OBVIOUS
  <2>4. HeapOK(h)
    <3>1. HeapOK(HeapAt(l))
      BY <2>2 DEF Settled
    <3> QED
      BY <1>1, <2>2, <3>1, HeapFacts DEF HeapOK, HeapType
  <2> HIDE DEF h
  <2>5. /\ \A o : HasTimer(h, o) <=> HasTimer(HeapAt(l), o)
        /\ \A o : Expiry(h, o) = Expiry(HeapAt(l), o)
    BY <2>2, <2>3 DEF HasTimer, Expiry, TimerOf
  <2>6. \A o \in Slots : IF l = Home(m.obj[o]) THEN Right(h, o) ELSE Dark(h, o)
    <3> TAKE o \in Slots
    <3>1. Home(m.obj[o]) = Home(obj[o]) /\ (Away(obj[o]) => m.obj[o] = obj[o])
      BY SameHome
    <3>2. CASE l = Home(obj[o])
      <4>1. m.obj[o] = obj[o]
        BY <1>7, <3>1, <3>2 DEF Home
      <4>2. Right(HeapAt(l), o)
        BY <2>2, <3>2 DEF Settled
      <4>3. Right(h, o)
        BY <2>2, <2>3, <2>5, <4>1, <4>2 DEF Right
      <4> QED
        BY <3>1, <3>2, <4>3
    <3>3. CASE l # Home(obj[o])
      <4>1. Dark(HeapAt(l), o)
        BY <2>2, <3>3 DEF Settled
      <4>2. Dark(h, o)
        BY <2>2, <2>3, <2>5, <4>1 DEF Dark
      <4> QED
        BY <3>1, <3>3, <4>2
    <3> QED
      BY <3>2, <3>3
  <2>7. Settled(l)'
    BY <1>2, <1>5, <2>1, <2>4, <2>6 DEF Settled, Home
  <2> QED
    BY <1>4, <1>7, <2>1, <2>5, <2>7
<1> QED
  BY <1>6, <1>7

LEMMA FuelIsInt ==
  ASSUME NEW m, HeapOK(m), NEW o \in Slots, moves \in Nat
  PROVE  FuelLeft(m, o) \in Int
<1>1. m.obj[o] \in Obj /\ m.obj[o].age \in Int
  BY HeapFacts, ObjFacts
<1>2. HasTimer(m, o) => Expiry(m, o) \in Int
  BY Timed DEF HeapOK
<1> QED
  BY <1>1, <1>2 DEF FuelLeft

(* What a step on the objects of S must do to keep the invariant.          *)
LEMMA SoundKeeps ==
  ASSUME Inv, NEW S \in SUBSET Slots, NEW m, Sound(Heap, m, S), \A p \in S : ~Away(obj[p]),
         SetHeap(m), UNCHANGED Elapsed, fuel' \in [Slots -> Int], late' \in BOOLEAN,
         \A p \in Slots : m.obj[p].where # "none" /\ m.obj[p].kind # "magic" =>
           fuel'[p] = IF p \in S THEN FuelLeft(m, p) ELSE fuel[p],
         ~late' => /\ ~late /\ m.impossible = impossible /\ \A p \in S : Fueled(m.obj[p])
                   /\ phase = "play" => ~Overdue(m)
  PROVE  Inv'
<1>2. level' = level /\ elsewhere' = elsewhere /\ moves' = moves /\ phase' = phase
      /\ praying' = praying
  BY DEF Elapsed
<1>3. \A l \in Levels :
        /\ Settled(l)' /\ Heap' = m /\ (l = level => HeapAt(l)' = m)
        /\ (l # level => \A p \in Slots : HasTimer(HeapAt(l)', p) <=> HasTimer(HeapAt(l), p))
        /\ (l # level => \A p : Expiry(HeapAt(l)', p) = Expiry(HeapAt(l), p))
  BY <1>2, BecomesSettled
<1>4. /\ Heap = HeapAt(level) /\ HeapOK(Heap) /\ level \in Levels /\ moves \in Nat
      /\ Heap.obj = obj /\ Heap.timers = timers /\ Heap.impossible = impossible
      /\ \A p \in Slots : Home(obj[p]) \in Levels
  BY InvFacts
<1>5. HeapOK(m) /\ Only(Heap, m, S)
  BY DEF Sound
<1>6. obj' = m.obj /\ impossible' = m.impossible
  BY DEF SetHeap
<1>7. \A b : (Away(b)' <=> Away(b)) /\ Home(b)' = Home(b)
  BY <1>2 DEF Away, Home
<1>8. \A h, p : FuelLeft(h, p)' = FuelLeft(h, p)
  BY <1>2 DEF FuelLeft
<1>9. \A h : Overdue(h)' <=> Overdue(h)
  BY <1>2 DEF Overdue
<1>10. ASSUME NEW p \in Slots, NEW l \in Levels, l = Home(obj[p]),
              m.obj[p].where # "none", m.obj[p].kind # "magic"
       PROVE  FuelLeft(HeapAt(l)', p) = fuel'[p]
  <2>1. Away(obj[p]) => m.obj[p] = obj[p] /\ p \notin S
    BY SameHome
  <2>2. obj[p].where # "none" /\ obj[p].kind # "magic" => fuel[p] = FuelLeft(HeapAt(l), p)
    BY <1>10 DEF Inv, Metered
  <2>3. CASE p \in S
    <3>1. l = level /\ HeapAt(l)' = m
      BY <1>3, <1>4, <1>10, <2>1, <2>3 DEF Home
    <3> QED
      BY <1>10, <2>3, <3>1
  <2>4. CASE p \notin S
    <3>1. m.obj[p] = obj[p] /\ FuelLeft(m, p) = FuelLeft(Heap, p)
      BY <1>4, <1>5, <2>4, Untouched
    <3>2. fuel'[p] = FuelLeft(HeapAt(l), p)
      BY <1>10, <2>2, <2>4, <3>1
    <3>3. CASE l = level
      BY <1>3, <1>4, <3>1, <3>2, <3>3
    <3>4. CASE l # level
      <4>1. /\ HasTimer(HeapAt(l)', p) <=> HasTimer(HeapAt(l), p)
            /\ Expiry(HeapAt(l)', p) = Expiry(HeapAt(l), p)
        BY <1>3, <3>4
      <4>2. HeapAt(l)'.obj = m.obj /\ HeapAt(l).obj = obj
        BY <1>6 DEF HeapAt
      <4> QED
        BY <3>1, <3>2, <4>1, <4>2 DEF FuelLeft
    <3> QED
      BY <3>3, <3>4
  <2> QED
    BY <2>3, <2>4
<1>11. Metered'
  <2> SUFFICES ASSUME NEW p \in Slots, m.obj[p].where # "none", m.obj[p].kind # "magic"
               PROVE  FuelLeft(HeapAt(Home(obj[p])), p)' = fuel'[p]
    BY <1>6 DEF Metered
  <2>1. PICK l \in Levels : l = Home(obj[p])
    BY <1>4
  <2>2. Home(obj[p])' = l
    <3>1. Home(m.obj[p]) = l
      BY <2>1, SameHome
    <3> QED
      BY <1>6, <1>7, <3>1
  <2>3. FuelLeft(HeapAt(l)', p) = fuel'[p]
    BY <1>10, <2>1
  <2> QED
    BY <1>8, <2>2, <2>3
<1>12. Typed'
  BY <1>2 DEF Inv, Typed, NothingSaved
<1>13. Quiet'
  <2> SUFFICES ASSUME ~late'
               PROVE  /\ m.impossible = {} /\ \A p \in Slots : Fueled(m.obj[p])
                      /\ phase = "play" => ~Overdue(Heap)'
    BY <1>2, <1>6 DEF Quiet
  <2>1. impossible = {} /\ \A p \in Slots : Fueled(obj[p])
    BY DEF Inv, Quiet
  <2>2. \A p \in Slots : Fueled(m.obj[p])
    BY <1>4, <1>5, <2>1 DEF Only
  <2>3. phase = "play" => ~Overdue(Heap)'
    BY <1>3, <1>4, <1>9
  <2> QED
    BY <2>1, <2>2, <2>3
<1> QED
  BY <1>3, <1>11, <1>12, <1>13 DEF Inv

LEMMA BecomesKeeps ==
  ASSUME Inv, NEW S \in SUBSET Slots, NEW m, Sound(Heap, m, S), \A p \in S : ~Away(obj[p]),
         NEW o \in Slots, NEW anew \in SUBSET S, Becomes(m, o, anew),
         \A p \in S : Accounts(m, p, o, anew)
  PROVE  Inv'
<1>1. SetHeap(m) /\ Track(m, o, anew) /\ UNCHANGED Elapsed
      /\ late' = (late \/ \E i \in DOMAIN timers : timers[i].at <= moves)
  BY DEF Becomes
<1>2. /\ Heap = HeapAt(level) /\ HeapOK(Heap) /\ level \in Levels /\ moves \in Nat
      /\ Heap.obj = obj /\ Heap.timers = timers /\ Heap.impossible = impossible
  BY InvFacts
<1>3. HeapOK(m) /\ Only(Heap, m, S)
  BY DEF Sound
<1>4. ASSUME NEW p \in Slots
      PROVE  /\ fuel'[p] \in Int
             /\ m.obj[p].where # "none" /\ m.obj[p].kind # "magic" =>
                  fuel'[p] = IF p \in S THEN FuelLeft(m, p) ELSE fuel[p]
  <2> DEFINE Measured == p \in anew \/ (~m.obj[p].lit /\ m.obj[p].quan > obj[p].quan)
  <2>1. FuelLeft(m, p) \in Int
    BY <1>2, <1>3, FuelIsInt
  <2>2. fuel'[p] = IF m.obj[p].where = "none" THEN 0
                   ELSE IF Measured THEN FuelLeft(m, p)
                   ELSE IF obj[p].where = "none" THEN fuel[o] ELSE fuel[p]
    BY <1>1 DEF Track
  <2>3. Measured <=> p \in anew \/ (~Lit(m.obj[p]) /\ m.obj[p].quan > obj[p].quan)
    BY DEF Lit
  <2> HIDE DEF Measured
  <2>4. fuel[o] \in Int /\ fuel[p] \in Int
    BY DEF Inv, Typed
  <2>5. fuel'[p] \in Int
    BY <2>1, <2>2, <2>4
  <2>6. ASSUME m.obj[p].where # "none", m.obj[p].kind # "magic", p \in S, ~Measured
        PROVE  fuel'[p] = FuelLeft(m, p)
    <3>1. CASE obj[p].where = "none"
      <4>1. /\ obj[o].where # "none" /\ obj[o].kind # "magic" /\ ~Away(obj[o])
            /\ FuelLeft(m, p) = FuelLeft(Heap, o)
        BY <2>3, <2>6, <3>1 DEF Accounts
      <4>2. fuel[o] = FuelLeft(Heap, o)
        BY <1>2, <4>1 DEF Inv, Metered, Home
      <4> QED
        BY <2>2, <2>6, <3>1, <4>1, <4>2
    <3>2. CASE obj[p].where # "none"
      <4>1. obj[p].kind # "magic" /\ FuelLeft(m, p) = FuelLeft(Heap, p)
        BY <2>3, <2>6, <3>2 DEF Accounts
      <4>2. fuel[p] = FuelLeft(Heap, p)
        BY <1>2, <2>6, <3>2, <4>1 DEF Inv, Metered, Home
      <4> QED
        BY <2>2, <2>6, <3>2, <4>1, <4>2
    <3> QED
      BY <3>1, <3>2
  <2>7. ASSUME m.obj[p].where # "none", p \notin S
        PROVE  fuel'[p] = fuel[p]
    <3>1. m.obj[p] = obj[p]
      BY <1>2, <1>3, <2>7 DEF Only
    <3>2. obj[p].quan \in Nat
      BY InvFacts, ObjFacts DEF Sane
    <3>3. ~Measured
      BY <2>3, <2>7, <3>1, <3>2
    <3> QED
      BY <2>2, <2>7, <3>1, <3>3
  <2> QED
    BY <2>2, <2>5, <2>6, <2>7
<1>5. fuel' \in [Slots -> Int]
  <2>1. fuel' = [p \in Slots |-> fuel'[p]]
    BY <1>1 DEF Track
  <2> QED
    BY <1>4, <2>1
<1>6. late' \in BOOLEAN
  BY <1>1 DEF Inv, Typed
<1>7. ASSUME ~late'
      PROVE  /\ ~late /\ m.impossible = impossible /\ \A p \in S : Fueled(m.obj[p])
             /\ ~Overdue(m)
  <2>1. ~late /\ ~Overdue(Heap)
    BY <1>1, <1>2, <1>7 DEF Overdue, Entries
  <2>2. Calm(Heap)
    BY <1>2, <2>1 DEF Inv, Quiet, Calm
  <2>3. Calm(m) /\ m.impossible = Heap.impossible
    BY <2>2 DEF Sound, Calmly
  <2> QED
    BY <1>2, <2>1, <2>3 DEF Calm
<1>8. SetHeap(m) /\ UNCHANGED Elapsed
  BY <1>1
<1> QED
  BY <1>4, <1>5, <1>6, <1>7, <1>8, SoundKeeps, SMTT(90)

----------------------------------------------------------------------------
(* The actions.                                                            *)

LEMMA AtHand ==
  ASSUME Inv, NEW o \in Slots,
         obj[o].where \in {"none", "inv", "migr"} \/ obj[o].lev = level
  PROVE  /\ ~Away(obj[o]) /\ Right(Heap, o) /\ Heap.obj[o] = obj[o] /\ HeapOK(Heap)
         /\ moves \in Nat /\ Sane(obj[o]) /\ obj[o] \in Obj
<1>1. ~Away(obj[o])
  BY DEF Away
<1>2. Sane(obj[o])
  BY InvFacts
<1> QED
  BY <1>1, <1>2, InvFacts DEF Sane

LEMMA NearBy ==
  ASSUME Inv, NEW o \in Slots, Here(o)
  PROVE  /\ ~Away(obj[o]) /\ Right(Heap, o) /\ Heap.obj[o] = obj[o] /\ HeapOK(Heap)
         /\ moves \in Nat /\ Sane(obj[o]) /\ obj[o] \in Obj /\ obj[o].where # "none"
BY AtHand DEF Here

(* Something is done to one object: it is freed, or its fuel is kept.      *)
LEMMA OneKeeps ==
  ASSUME Inv, NEW o \in Slots, ~Away(obj[o]), NEW m, Sound(Heap, m, {o}), Becomes(m, o, {}),
         \/ m.obj[o] = NoObj
         \/ SameThing(m.obj[o], obj[o]) /\ FuelLeft(m, o) = FuelLeft(Heap, o)
  PROVE  Inv'
<1>1. Accounts(m, o, o, {})
  BY NoObjIsObj DEF Accounts, SameThing
<1> QED
  BY <1>1, BecomesKeeps

LEMMA UseLampKeeps ==
  ASSUME Inv, NEW o \in Slots, UseLamp(o)
  PROVE  Inv'
<1>1. Here(o) /\ ~Lit(obj[o])
  BY DEF UseLamp, Carried, Here, Unlit, Lit
<1>2. Becomes(Light(Heap, o), o, {})
  BY DEF UseLamp, Light
<1>3. /\ Sound(Heap, Light(Heap, o), {o}) /\ SameThing(Light(Heap, o).obj[o], obj[o])
      /\ FuelLeft(Light(Heap, o), o) = FuelLeft(Heap, o)
  BY <1>1, NearBy, SoundLight
<1> QED
  BY <1>1, <1>2, <1>3, NearBy, OneKeeps

LEMMA CatchLitKeeps ==
  ASSUME Inv, NEW o \in Slots, CatchLit(o)
  PROVE  Inv'
<1>1. Here(o) /\ ~Lit(obj[o])
  BY DEF CatchLit, Exposed, Unlit, Lit
<1>2. Becomes(Light(Heap, o), o, {})
  BY DEF CatchLit, Light
<1>3. /\ Sound(Heap, Light(Heap, o), {o}) /\ SameThing(Light(Heap, o).obj[o], obj[o])
      /\ FuelLeft(Light(Heap, o), o) = FuelLeft(Heap, o)
  BY <1>1, NearBy, SoundLight
<1> QED
  BY <1>1, <1>2, <1>3, NearBy, OneKeeps

LEMMA SnuffKeeps ==
  ASSUME Inv, NEW o \in Slots, Snuff(o)
  PROVE  Inv'
<1>1. Here(o) /\ Lit(obj[o])
  BY DEF Snuff, Exposed, Lit
<1>2. Becomes(PutOut(Heap, o), o, {})
  BY DEF Snuff, PutOut
<1>3. /\ Sound(Heap, PutOut(Heap, o), {o}) /\ SameThing(PutOut(Heap, o).obj[o], obj[o])
      /\ FuelLeft(PutOut(Heap, o), o) = FuelLeft(Heap, o)
  BY <1>1, NearBy, SoundPutOut
<1> QED
  BY <1>1, <1>2, <1>3, NearBy, OneKeeps

LEMMA DestroyKeeps ==
  ASSUME Inv, NEW o \in Slots, Destroy(o)
  PROVE  Inv'
<1>1. Here(o) /\ Becomes(Dealloc(Heap, o), o, {})
  BY DEF Destroy, Exposed
<1>2. Sound(Heap, Dealloc(Heap, o), {o}) /\ Dealloc(Heap, o).obj[o] = NoObj
  BY <1>1, NearBy, SoundDealloc
<1> QED
  BY <1>1, <1>2, NearBy, OneKeeps

NoFuel(m) == Complain(m, "no fuel")

LEMMA UseCandelabrumKeeps ==
  ASSUME Inv, NEW o \in Slots, UseCandelabrum(o)
  PROVE  Inv'
<1> DEFINE b == obj[o]  half == CDiv(b.age + 1, 2)
<1>1. Here(o) /\ ~Lit(b) /\ b.kind = "menorah" /\ b.spe > 0
  BY DEF UseCandelabrum, Carried, Here, Unlit, Lit
<1>2. /\ ~Away(b) /\ Right(Heap, o) /\ Heap.obj[o] = b /\ HeapOK(Heap)
      /\ moves \in Nat /\ Sane(b) /\ b \in Obj /\ b.where # "none" /\ b.age \in Int
  BY <1>1, NearBy, ObjFacts
<1>3. \E k : /\ Becomes(Light(k, o), o, {o})
             /\ \/ k = Heap
                \/ half = 0 /\ k = SetObj(NoFuel(Heap), o, [NoFuel(Heap).obj[o] EXCEPT !.age = 1])
                \/ half # 0 /\ k = SetObj(Heap, o, [Heap.obj[o] EXCEPT !.age = half])
  BY DEF UseCandelabrum, NoFuel, SetObj, Light
<1>4. PICK k : /\ Becomes(Light(k, o), o, {o})
               /\ \/ k = Heap
                  \/ half = 0 /\ k = SetObj(NoFuel(Heap), o, [NoFuel(Heap).obj[o] EXCEPT !.age = 1])
                  \/ half # 0 /\ k = SetObj(Heap, o, [Heap.obj[o] EXCEPT !.age = half])
  BY <1>3
<1>5. half \in Int /\ (b.age > 0 => half > 0)
  <2>1. PICK x \in Int : x = b.age + 1
    BY <1>2
  <2>2. CDiv(x, 2) \in Int /\ (x >= 2 => CDiv(x, 2) > 0)
    BY Quotient
  <2> QED
    BY <1>2, <2>1, <2>2
<1>6. b = obj[o]
  OBVIOUS
<1> HIDE DEF half, b
<1>7. ASSUME NEW age \in Int, NEW c, c = [b EXCEPT !.age = age]
      PROVE  /\ Sane(c) /\ ~Away(c) /\ c.lit = b.lit /\ c.kind = b.kind /\ c.where = b.where
             /\ c.age = age /\ ~Lit(c)
  <2>1. /\ c \in Obj /\ c.kind = b.kind /\ c.where = b.where /\ c.lev = b.lev /\ c.quan = b.quan
        /\ c.spe = b.spe /\ c.age = age /\ c.timed = b.timed
    BY <1>2, <1>7 DEF Obj
  <2>2. c.lit = b.lit
    BY <1>2, <1>7 DEF Obj
  <2> QED
    BY <1>1, <1>2, <2>1, <2>2 DEF Sane, Burns, Away, Lit
<1>8. /\ Sound(Heap, k, {o}) /\ Right(k, o) /\ ~Lit(k.obj[o]) /\ k.obj[o].where # "none"
      /\ ~Away(k.obj[o])
  <2>1. CASE k = Heap
    <3>1. Only(Heap, Heap, {o})
      BY DEF Only
    <3> QED
      BY <1>1, <1>2, <2>1, <3>1 DEF Sound, Calmly
  <2>2. CASE half # 0 /\ k = SetObj(Heap, o, [Heap.obj[o] EXCEPT !.age = half])
    <3> DEFINE c == [b EXCEPT !.age = half]
    <3>1. /\ Sane(c) /\ ~Away(c) /\ c.lit = b.lit /\ c.kind = b.kind /\ c.where = b.where
          /\ c.age = half /\ ~Lit(c)
      BY <1>5, <1>7
    <3>2. k = SetObj(Heap, o, c)
      BY <1>2, <2>2
    <3> HIDE DEF c
    <3>3. Calm(Heap) => Fueled(c)
      <4>1. Calm(Heap) => b.age > 0
        BY <1>1, <1>2 DEF Calm, Fueled, Needs
      <4> QED
        BY <1>5, <3>1, <4>1 DEF Fueled
    <3>a. c.lit = Heap.obj[o].lit /\ (c.lit => c.kind = Heap.obj[o].kind)
      BY <1>2, <3>1
    <3>b. HeapOK(Heap) /\ Right(Heap, o) /\ moves \in Nat /\ Sane(c) /\ ~Away(c)
      BY <1>2, <3>1
    <3>4. Sound(Heap, k, {o}) /\ k.obj[o] = c
      BY <3>2, <3>3, <3>a, <3>b, SoundSet
    <3> QED
      BY <1>2, <3>1, <3>4 DEF Sound
  <2>3. CASE half = 0 /\ k = SetObj(NoFuel(Heap), o, [NoFuel(Heap).obj[o] EXCEPT !.age = 1])
    <3> DEFINE h == NoFuel(Heap)  c == [b EXCEPT !.age = 1]
    <3>1. /\ Sane(c) /\ ~Away(c) /\ c.lit = b.lit /\ c.kind = b.kind /\ c.where = b.where
          /\ c.age = 1 /\ ~Lit(c)
      BY <1>7
    <3>2. /\ HeapOK(h) /\ h.timers = Heap.timers /\ h.obj = Heap.obj /\ h.lights = Heap.lights
      <4>1. "no fuel" \in Complaints
        BY DEF Complaints
      <4> QED
        BY <1>2, <4>1, Complained DEF NoFuel
    <3>3. k = SetObj(h, o, c)
      BY <1>2, <2>3, <3>2
    <3>4. h = NoFuel(Heap)
      OBVIOUS
    <3> HIDE DEF c, h
    <3>5. Right(h, o) /\ h.obj[o] = b
      BY <1>2, <3>2 DEF Right, HasTimer
    <3>6. Fueled(c)
      BY <3>1 DEF Fueled
    <3>7. Sound(h, k, {o}) /\ k.obj[o] = c
      BY <1>2, <3>1, <3>2, <3>3, <3>5, <3>6, SoundSet
    <3>8. Only(Heap, k, {o})
      BY <3>2, <3>7 DEF Sound, Only, TimersFor
    <3>9. ~Calm(Heap)
      BY <1>1, <1>2, <1>5, <2>3 DEF Calm, Fueled, Needs
    <3> QED
      BY <1>2, <3>1, <3>7, <3>8, <3>9 DEF Sound, Calmly
  <2> QED
    BY <1>4, <2>1, <2>2, <2>3
<1>9. Sound(k, Light(k, o), {o})
  BY <1>2, <1>8, SoundLight DEF Sound
<1>10. Sound(Heap, Light(k, o), {o})
  <2>1. Sound(Heap, Light(k, o), {o} \cup {o})
    BY <1>2, <1>8, <1>9, SoundAgain
  <2> QED
    BY <2>1
<1>11. Accounts(Light(k, o), o, o, {o})
  BY DEF Accounts
<1> QED
  BY <1>2, <1>4, <1>6, <1>10, <1>11, BecomesKeeps

(* The object x that has been taken: o itself or what was split off it.    *)
Took(o, x, h) ==
  \/ x = o /\ h = Heap
  \/ obj[x].where = "none" /\ \E k \in Nat : 0 < k /\ k < obj[o].quan /\ h = SplitObj(Heap, o, x, k)

LEMMA Taken ==
  ASSUME Inv, NEW o \in Slots, ~Away(obj[o]), obj[o].where # "none", NEW x \in Slots,
         NEW h, Took(o, x, h)
  PROVE  /\ Sound(Heap, h, {o, x}) /\ HeapOK(h) /\ Right(h, x) /\ ~Away(h.obj[x])
         /\ ~Away(obj[x]) /\ moves \in Nat
         /\ h.obj[x] \in Obj /\ h.obj[x].kind = obj[o].kind /\ h.obj[x].where = obj[o].where
         /\ h.obj[x].lev = obj[o].lev /\ h.obj[x].spe = obj[o].spe
         /\ Lit(h.obj[x]) <=> Lit(obj[o])
         /\ h.obj[x].quan > 0 /\ h.obj[x].quan <= obj[o].quan
         /\ FuelLeft(h, x) = FuelLeft(Heap, o)
         /\ x = o => h = Heap
         /\ x # o => /\ obj[x].where = "none" /\ obj[x].quan = 0
                     /\ h.obj[o].kind = obj[o].kind /\ h.obj[o].where = obj[o].where
                     /\ h.obj[o].lev = obj[o].lev /\ h.obj[o].quan < obj[o].quan
                     /\ FuelLeft(h, o) = FuelLeft(Heap, o)
<1> DEFINE b == obj[o]
<1>1. /\ HeapOK(Heap) /\ Heap.obj = obj /\ moves \in Nat /\ Right(Heap, o)
  BY InvFacts
<1>2. Sane(b) /\ b \in Obj /\ b.quan \in Nat /\ b.quan > 0
  <2>1. Sane(b)
    BY InvFacts
  <2> QED
    BY <2>1, ObjFacts DEF Sane
<1>3. CASE x = o /\ h = Heap
  <2>1. Only(Heap, Heap, {o})
    BY DEF Only
  <2>2. Sound(Heap, Heap, {o, x})
    BY <1>1, <1>3, <2>1 DEF Sound, Calmly
  <2> QED
    BY <1>1, <1>2, <1>3, <2>2
<1>4. CASE obj[x].where = "none" /\ \E k \in Nat : 0 < k /\ k < b.quan /\ h = SplitObj(Heap, o, x, k)
  <2>1. PICK k \in Nat : 0 < k /\ k < b.quan /\ h = SplitObj(Heap, o, x, k)
    BY <1>4
  <2>2. ~Away(obj[x]) /\ Right(Heap, x) /\ obj[x] = NoObj
    BY <1>4, AtHand DEF Sane
  <2>3. /\ Sound(Heap, h, {o, x}) /\ o # x
        /\ h.obj[o] = [Heap.obj[o] EXCEPT !.quan = Heap.obj[o].quan - k]
        /\ h.obj[x] = [Heap.obj[o] EXCEPT !.quan = k]
        /\ FuelLeft(h, o) = FuelLeft(Heap, o) /\ FuelLeft(h, x) = FuelLeft(Heap, o)
    BY <1>1, <1>4, <2>1, <2>2, SoundSplit
  <2>4. h.obj[o] = [b EXCEPT !.quan = b.quan - k] /\ h.obj[x] = [b EXCEPT !.quan = k]
    BY <1>1, <2>3
  <2> HIDE DEF b
  <2>5. /\ h.obj[x].kind = b.kind /\ h.obj[x].where = b.where /\ h.obj[x].lev = b.lev
        /\ h.obj[x].spe = b.spe /\ h.obj[x].quan = k
        /\ h.obj[o].kind = b.kind /\ h.obj[o].where = b.where /\ h.obj[o].lev = b.lev
        /\ h.obj[o].quan = b.quan - k
    BY <1>2, <2>4 DEF Obj
  <2>6. h.obj[x].lit = b.lit
    BY <1>2, <2>4 DEF Obj
  <2>7. Right(h, x) /\ ~Away(h.obj[x]) /\ HeapOK(h)
    BY <2>3 DEF Sound
  <2>8. h.obj[x] \in Obj
    BY <2>7 DEF Right, Sane
  <2>9. Lit(h.obj[x]) <=> Lit(b)
    BY <2>6 DEF Lit
  <2>10. obj[x].quan = 0
    BY <2>2, NoObjIsObj
  <2>11. k <= b.quan /\ b.quan - k < b.quan
    BY <1>2, <2>1
  <2> QED
    BY <1>1, <1>4, <2>1, <2>2, <2>3, <2>5, <2>7, <2>8, <2>9, <2>10, <2>11 DEF b
<1> QED
  BY <1>3, <1>4 DEF Took

OfTheSame(o, x, h) ==
  /\ h.obj[x].kind = obj[o].kind /\ FuelLeft(h, x) = FuelLeft(Heap, o) /\ ~Away(obj[x])
  /\ x = o => h = Heap
  /\ x # o => /\ obj[x].where = "none" /\ obj[x].quan = 0
              /\ h.obj[o].kind = obj[o].kind /\ FuelLeft(h, o) = FuelLeft(Heap, o)
LEMMA TakenOf ==
  ASSUME Inv, NEW o \in Slots, ~Away(obj[o]), obj[o].where # "none", NEW x \in Slots,
         NEW h, Took(o, x, h)
  PROVE  OfTheSame(o, x, h)
<1>1. FuelLeft(h, x) = FuelLeft(Heap, o) /\ (x # o => FuelLeft(h, o) = FuelLeft(Heap, o))
  BY Taken
<1>2. h.obj[x].kind = obj[o].kind /\ ~Away(obj[x])
  BY Taken
<1>3. /\ x = o => h = Heap
      /\ x # o => /\ obj[x].where = "none" /\ obj[x].quan = 0
                  /\ h.obj[o].kind = obj[o].kind
  BY Taken, ZenonT(30)
<1> QED
  BY <1>1, <1>2, <1>3 DEF OfTheSame

(* x keeps its fuel, unless it is gone or the unlit stack has grown.       *)
Follows(n, h, x) ==
  \/ n.obj[x].where = "none"
  \/ /\ n.obj[x].kind = h.obj[x].kind
     /\ Lit(n.obj[x]) \/ ~(n.obj[x].quan > h.obj[x].quan) => FuelLeft(n, x) = FuelLeft(h, x)

(* ... and then something is done to it and to other things.               *)
LEMMA TakenKeeps ==
  ASSUME Inv, NEW o \in Slots, ~Away(obj[o]), obj[o].where # "none", NEW x \in Slots,
         NEW h, Took(o, x, h), NEW T \in SUBSET Slots, x \in T, x # o => o \notin T,
         \A p \in T : ~Away(obj[p]), NEW n, Sound(h, n, T),
         NEW anew \in SUBSET T, Becomes(n, o, anew),
         \A p \in T : p # x => Accounts(n, p, o, anew), Follows(n, h, x)
  PROVE  Inv'
<1>1. /\ Sound(Heap, h, {o, x}) /\ HeapOK(h) /\ HeapOK(Heap)
  BY Taken, InvFacts
<1>2. /\ h.obj[x].kind = obj[o].kind
      /\ FuelLeft(h, x) = FuelLeft(Heap, o)
      /\ x = o => h = Heap
      /\ x # o => /\ obj[x].where = "none" /\ obj[x].quan = 0
                  /\ h.obj[o].kind = obj[o].kind /\ FuelLeft(h, o) = FuelLeft(Heap, o)
      /\ ~Away(obj[x])
  <2>1. OfTheSame(o, x, h)
    BY TakenOf
  <2> QED
    BY <2>1 DEF OfTheSame
<1>3. Sound(Heap, n, {o, x} \cup T)
  BY <1>1, SoundAgain
<1>4. Right(n, x) /\ HeapOK(n) /\ Only(h, n, T)
  BY DEF Sound
<1>5. Accounts(n, x, o, anew)
  <2> SUFFICES ASSUME n.obj[x].where # "none", n.obj[x].kind # "magic",
                      Lit(n.obj[x]) \/ ~(n.obj[x].quan > obj[x].quan)
               PROVE  IF obj[x].where = "none"
                      THEN /\ obj[o].where # "none" /\ obj[o].kind # "magic" /\ ~Away(obj[o])
                           /\ FuelLeft(n, x) = FuelLeft(Heap, o)
                      ELSE obj[x].kind # "magic" /\ FuelLeft(n, x) = FuelLeft(Heap, x)
    BY DEF Accounts
  <2>1. obj[o].kind # "magic"
    BY <1>2 DEF Follows
  <2>2. CASE x = o
    BY <1>2, <2>1, <2>2, InvFacts DEF Follows
  <2>3. CASE x # o
    <3>1. n.obj[x].quan > 0
      BY <1>4 DEF Right, Sane
    <3>2. Lit(n.obj[x])
      BY <1>2, <2>3, <3>1
    <3> QED
      BY <1>2, <2>1, <2>3, <3>2 DEF Follows
  <2> QED
    BY <2>2, <2>3
<1>6. ASSUME x # o PROVE Accounts(n, o, o, anew)
  <2>1. n.obj[o] = h.obj[o] /\ FuelLeft(n, o) = FuelLeft(h, o)
    BY <1>1, <1>4, <1>6, Untouched
  <2> QED
    BY <1>2, <1>6, <2>1 DEF Accounts
<1>7. \A p \in {o, x} \cup T : Accounts(n, p, o, anew)
  BY <1>5, <1>6
<1>8. \A p \in {o, x} \cup T : ~Away(obj[p])
  OBVIOUS
<1>9. {o, x} \cup T \in SUBSET Slots /\ anew \in SUBSET ({o, x} \cup T)
  OBVIOUS
<1> QED
  BY <1>3, <1>7, <1>8, <1>9, BecomesKeeps

(* An object comes to another place of this level, or leaves it.           *)
Places == {"inv", "floor", "minv", "migr"}
At(b, to, l) == [b EXCEPT !.where = to, !.lev = l]

LEMMA AtFacts ==
  ASSUME NEW b, Sane(b), b.where # "none", NEW to \in Places, NEW l \in Levels,
         to = "migr" \/ l = level, NEW c, c = At(b, to, l)
  PROVE  /\ Sane(c) /\ ~Away(c) /\ c \in Obj
         /\ c.where = to /\ c.where # "none" /\ c.lev = l
         /\ c.kind = b.kind /\ c.quan = b.quan /\ c.spe = b.spe /\ c.age = b.age
         /\ c.lit = b.lit
         /\ Lit(c) <=> Lit(b)
         /\ Burns(c) <=> Burns(b)
         /\ Fueled(b) => Fueled(c)
<1>1. b \in Obj /\ b.age \in Int
  BY ObjFacts DEF Sane
<1>2. /\ c \in Obj /\ c.kind = b.kind /\ c.where = to /\ c.lev = l /\ c.quan = b.quan
      /\ c.spe = b.spe /\ c.age = b.age /\ c.timed = b.timed
  BY <1>1 DEF Obj, At, Places
<1>3. c.lit = b.lit
  BY <1>1 DEF Obj, At, Places
<1>4. (Lit(c) <=> Lit(b)) /\ (Burns(c) <=> Burns(b))
  BY <1>2, <1>3 DEF Lit, Burns
<1>5. c.timed = IF Burns(c) THEN 1 ELSE 0
  BY <1>2, <1>4 DEF Sane
<1>6. (c.kind = "oil" /\ c.lit) => c.age = 0
  BY <1>2, <1>3 DEF Sane
<1>7. c.where # "none"
  BY <1>2 DEF Places
<1>8. Sane(c)
  BY <1>1, <1>2, <1>5, <1>6, <1>7 DEF Sane
<1>9. ~Away(c)
  BY <1>2 DEF Away
<1>10. Fueled(b) => Fueled(c)
  BY <1>2, <1>4, <1>7 DEF Fueled, Needs
<1> QED
  BY <1>2, <1>3, <1>4, <1>7, <1>8, <1>9, <1>10

There(b) == b.where # "none"
Brings(m, n, o, to) ==
  /\ Sound(m, n, {o}) /\ FuelLeft(n, o) = FuelLeft(m, o)
  /\ n.obj[o].where = to /\ n.obj[o].lev = level
  /\ n.obj[o].kind = m.obj[o].kind /\ n.obj[o].quan = m.obj[o].quan

LEMMA Brought ==
  ASSUME NEW m, HeapOK(m), NEW o \in Slots, Right(m, o), There(m.obj[o]),
         moves \in Nat, level \in Levels, NEW to \in Places,
         NEW n, n = SetObj(m, o, At(m.obj[o], to, level))
  PROVE  Brings(m, n, o, to)
<1> DEFINE b == m.obj[o]  c == At(b, to, level)
<1>1. Sane(b) /\ b.age \in Int /\ b.where # "none"
  BY ObjFacts DEF Right, Sane, There
<1>2. n = SetObj(m, o, c) /\ b = m.obj[o] /\ c = At(b, to, level)
  OBVIOUS
<1> HIDE DEF b, c
<1>3. /\ Sane(c) /\ ~Away(c) /\ c.where = to /\ c.lev = level
      /\ c.kind = b.kind /\ c.quan = b.quan /\ c.spe = b.spe /\ c.age = b.age
      /\ (Lit(c) <=> Lit(b)) /\ (Fueled(b) => Fueled(c))
  BY <1>1, <1>2, AtFacts
<1>4. c.lit = b.lit
  BY <1>1, <1>2, AtFacts
<1>5. Calm(m) => Fueled(c)
  BY <1>2, <1>3 DEF Calm
<1>6. c.lit = m.obj[o].lit /\ (c.lit => c.kind = m.obj[o].kind)
  BY <1>2, <1>3, <1>4
<1>7. Sane(c) /\ ~Away(c)
  BY <1>3
<1>8. /\ Sound(m, n, {o}) /\ n.obj[o] = c
      /\ FuelLeft(n, o) = FuelLeft(m, o) + (c.age - m.obj[o].age)
  BY <1>2, <1>5, <1>6, <1>7, SoundSet
<1>9. FuelLeft(m, o) \in Int
  BY FuelIsInt
<1> QED
  BY <1>1, <1>2, <1>3, <1>8, <1>9 DEF Brings

LEMMA AllRight ==
  ASSUME Inv, NEW S \in SUBSET Slots, NEW k, Sound(Heap, k, S)
  PROVE  \A p \in Slots : ~Away(k.obj[p]) => Right(k, p)
<1> TAKE p \in Slots
<1>1. CASE p \in S
  BY <1>1 DEF Sound
<1>2. CASE p \notin S
  <2>1. k.obj[p] = obj[p] /\ (Right(Heap, p) => Right(k, p))
    BY <1>2, InvFacts, Untouched DEF Sound
  <2> QED
    BY <2>1, InvFacts
<1> QED
  BY <1>1, <1>2

(* What has been taken arrives somewhere else; T are the objects concerned.*)
Arrives(n, o, h, x, T) ==
  /\ x \in T /\ (x # o => o \notin T) /\ \A p \in T : ~Away(obj[p])
  /\ Sound(h, n, T)
  /\ \A p \in T : p # x => Accounts(n, p, o, {})
  /\ Follows(n, h, x)

LEMMA Moved ==
  ASSUME Inv, NEW o \in Slots, ~Away(obj[o]), obj[o].where # "none", NEW x \in Slots,
         NEW h, Took(o, x, h), NEW k, Sound(h, k, {x}), SameThing(k.obj[x], h.obj[x]),
         FuelLeft(k, x) = FuelLeft(h, x), NEW to \in {"inv", "floor"},
         x # o => obj[o].where # to, NEW n \in Arrive(k, x, to)
  PROVE  \E T \in SUBSET Slots : Arrives(n, o, h, x, T)
<1> DEFINE put == SetObj(k, x, At(k.obj[x], to, level))
<1>1. /\ HeapOK(Heap) /\ Heap.obj = obj /\ moves \in Nat /\ level \in Levels
      /\ \A p \in Slots : Sane(obj[p])
  BY InvFacts
<1>2. /\ Sound(Heap, h, {o, x}) /\ HeapOK(h) /\ h.obj[x].where = obj[o].where
      /\ x # o => obj[x].where = "none" /\ h.obj[o].where = obj[o].where
      /\ h.obj[x].quan > 0 /\ ~Away(obj[x])
  BY Taken
<1>3. HeapOK(k) /\ Right(k, x) /\ Only(h, k, {x})
  BY DEF Sound
<1>4. Sound(Heap, k, {o, x})
  <2>1. Sound(Heap, k, {o, x} \cup {x})
    BY <1>1, <1>2, SoundAgain
  <2>2. {o, x} \cup {x} = {o, x}
    OBVIOUS
  <2> QED
    BY <2>1, <2>2
<1>5. /\ k.obj[x].where = obj[o].where /\ k.obj[x].where # "none" /\ k.obj[x].quan > 0
      /\ k.obj[x].kind = h.obj[x].kind /\ k.obj[x].quan = h.obj[x].quan
  BY <1>2 DEF SameThing
<1>6. put = [k EXCEPT !.obj[x].where = to, !.obj[x].lev = level]
  <2>1. k \in HeapType /\ k.obj \in [Slots -> Obj] /\ k.obj[x] \in Obj
    BY <1>3, HeapFacts
  <2>2. [k EXCEPT !.obj[x].where = to, !.obj[x].lev = level]
          = [k EXCEPT !.obj = [k.obj EXCEPT ![x] = [k.obj[x] EXCEPT !.where = to, !.lev = level]]]
    BY <2>1 DEF HeapType, Obj
  <2> QED
    BY <2>2 DEF SetObj, At
<1>7. \/ n = put
      \/ \E p \in Slots : /\ Mergable(put, p, x) /\ put.obj[p].where = to
                          /\ to = "floor" => put.obj[p].lev = level
                          /\ \/ to = "inv" /\ n = Merged(put, p, x)
                             \/ to = "floor" /\ n = Merged(put, x, p)
  BY <1>6 DEF Arrive
<1>8. put = SetObj(k, x, At(k.obj[x], to, level))
  OBVIOUS
<1> HIDE DEF put
<1>9. /\ Sound(k, put, {x}) /\ FuelLeft(put, x) = FuelLeft(k, x)
      /\ put.obj[x].where = to /\ put.obj[x].lev = level
      /\ put.obj[x].kind = k.obj[x].kind /\ put.obj[x].quan = k.obj[x].quan
  <2>1. to \in Places
    BY DEF Places
  <2>2. There(k.obj[x])
    BY <1>5 DEF There
  <2>3. Brings(k, put, x, to)
    BY <1>1, <1>3, <1>8, <2>1, <2>2, Brought
  <2> QED
    BY <2>3 DEF Brings
<1>10. Sound(h, put, {x}) /\ HeapOK(put)
  <2>1. Sound(h, put, {x} \cup {x})
    BY <1>2, <1>9, SoundAgain
  <2> QED
    BY <2>1 DEF Sound
<1>11. CASE n = put
  <2>1. Follows(n, h, x)
    BY <1>5, <1>9, <1>11 DEF Follows
  <2>2. Arrives(n, o, h, x, {x})
    BY <1>2, <1>10, <1>11, <2>1 DEF Arrives
  <2> QED
    BY <2>2
<1>12. ASSUME NEW p \in Slots, Mergable(put, p, x), put.obj[p].where = to,
              to = "floor" => put.obj[p].lev = level,
              \/ to = "inv" /\ n = Merged(put, p, x)
              \/ to = "floor" /\ n = Merged(put, x, p)
       PROVE  \E T \in SUBSET Slots : Arrives(n, o, h, x, T)
  <2>1. p # x /\ ~Away(put.obj[p]) /\ ~Away(put.obj[x])
    BY <1>9, <1>12 DEF Mergable, Away
  <2>2. Sound(Heap, put, {o, x})
    <3>1. Sound(Heap, put, {o, x} \cup {x})
      BY <1>1, <1>4, <1>9, SoundAgain
    <3>2. {o, x} \cup {x} = {o, x}
      OBVIOUS
    <3> QED
      BY <3>1, <3>2
  <2>3. Right(put, p) /\ Right(put, x)
    BY <2>1, <2>2, AllRight
  <2>4. put.obj[p] = h.obj[p] /\ Only(h, put, {x})
    BY <1>2, <1>10, <2>1, Untouched DEF Sound
  <2>5. p # o
    BY <1>2, <1>12, <2>1, <2>4
  <2>6. put.obj[p] = obj[p] /\ FuelLeft(put, p) = FuelLeft(Heap, p)
    <3>1. Only(Heap, put, {o, x})
      BY <2>2 DEF Sound
    <3> QED
      BY <1>1, <1>10, <2>1, <2>5, <3>1, Untouched
  <2>7. obj[p].where # "none" /\ ~Away(obj[p]) /\ obj[p].quan \in Nat /\ obj[p].quan > 0
    <3>1. obj[p].where # "none"
      BY <1>12, <2>6
    <3> QED
      BY <1>1, <2>1, <2>6, <3>1, ObjFacts DEF Sane
  <2>8. put.obj[x].quan \in Nat /\ put.obj[x].quan > 0 /\ put.obj[x].where # "none"
    BY <1>5, <1>9, <2>3, ObjFacts DEF Right, Sane
  <2>9. CASE to = "inv" /\ n = Merged(put, p, x)
    <3>1. /\ Sound(put, n, {p, x}) /\ n.obj[x] = NoObj
          /\ n.obj[p].kind = put.obj[p].kind
          /\ n.obj[p].quan = put.obj[p].quan + put.obj[x].quan
          /\ Lit(n.obj[p]) => FuelLeft(n, p) = FuelLeft(put, p)
      BY <1>1, <1>10, <1>12, <2>1, <2>3, <2>8, <2>9, SoundMerged
    <3>2. Sound(h, n, {p, x})
      <4>1. Sound(h, n, {x} \cup {p, x})
        BY <1>2, <1>10, <3>1, SoundAgain
      <4>2. {x} \cup {p, x} = {p, x}
        OBVIOUS
      <4> QED
        BY <4>1, <4>2
    <3>3. n.obj[p].quan > obj[p].quan
      BY <2>6, <2>7, <2>8, <3>1
    <3>4. Accounts(n, p, o, {})
      BY <2>6, <2>7, <3>1, <3>3 DEF Accounts
    <3>5. Follows(n, h, x)
      BY <3>1, NoObjIsObj DEF Follows
    <3>6. Arrives(n, o, h, x, {p, x})
      BY <1>2, <2>5, <2>7, <3>2, <3>4, <3>5 DEF Arrives
    <3> QED
      BY <3>6
  <2>10. CASE to = "floor" /\ n = Merged(put, x, p)
    <3>1. Mergable(put, x, p)
      <4>1. put.obj[x].kind = put.obj[p].kind /\ put.obj[x].lit = put.obj[p].lit
        BY <1>12 DEF Mergable
      <4> QED
        BY <1>12, <2>8, <4>1 DEF Mergable
    <3>2. /\ Sound(put, n, {x, p}) /\ n.obj[p] = NoObj
          /\ n.obj[x].kind = put.obj[x].kind
          /\ n.obj[x].quan = put.obj[x].quan + put.obj[p].quan
          /\ Lit(n.obj[x]) => FuelLeft(n, x) = FuelLeft(put, x)
      <4>1. put.obj[p].where # "none"
        BY <2>6, <2>7
      <4> QED
        BY <1>1, <1>10, <2>1, <2>3, <2>10, <3>1, <4>1, SoundMerged
    <3>3. Sound(h, n, {x, p})
      <4>1. Sound(h, n, {x} \cup {x, p})
        BY <1>2, <1>10, <3>2, SoundAgain
      <4>2. {x} \cup {x, p} = {x, p}
        OBVIOUS
      <4> QED
        BY <4>1, <4>2
    <3>4. n.obj[x].quan > h.obj[x].quan
      BY <1>5, <1>9, <2>6, <2>7, <2>8, <3>2
    <3>5. Follows(n, h, x)
      BY <1>5, <1>9, <3>2, <3>4 DEF Follows
    <3>6. Accounts(n, p, o, {})
      BY <3>2, NoObjIsObj DEF Accounts
    <3>7. Arrives(n, o, h, x, {x, p})
      BY <1>2, <2>5, <2>7, <3>3, <3>5, <3>6 DEF Arrives
    <3> QED
      BY <3>7
  <2> QED
    BY <1>12, <2>9, <2>10
<1> QED
  BY <1>7, <1>11, <1>12

LEMMA ArriveKeeps ==
  ASSUME Inv, NEW o \in Slots, ~Away(obj[o]), obj[o].where # "none", NEW x \in Slots,
         NEW h, Took(o, x, h), NEW T \in SUBSET Slots, NEW n, Arrives(n, o, h, x, T),
         Becomes(n, o, {})
  PROVE  Inv'
<1>1. /\ x \in T /\ (x # o => o \notin T) /\ \A p \in T : ~Away(obj[p])
      /\ Sound(h, n, T)
      /\ \A p \in T : p # x => Accounts(n, p, o, {})
      /\ Follows(n, h, x)
  BY DEF Arrives
<1>2. {} \in SUBSET T
  OBVIOUS
<1> QED
  BY <1>1, <1>2, TakenKeeps

LEMMA TakeTook ==
  ASSUME Inv, NEW o \in Slots, ~Away(obj[o]), obj[o].where # "none", NEW t \in Take(o)
  PROVE  t[1] \in Slots /\ Took(o, t[1], t[2])
<1>1. obj[o].quan \in Nat
  BY InvFacts, ObjFacts
<1>2. CASE t = <<o, Heap>>
  BY <1>2 DEF Took
<1>3. ASSUME NEW x \in Slots, obj[x].where = "none", NEW k \in 1 .. obj[o].quan - 1,
             t = <<x, SplitObj(Heap, o, x, k)>>
      PROVE  t[1] \in Slots /\ Took(o, t[1], t[2])
  <2>1. k \in Nat /\ 0 < k /\ k < obj[o].quan
    BY <1>1
  <2>2. t[1] = x /\ t[2] = SplitObj(Heap, o, x, k)
    BY <1>3
  <2> QED
    BY <1>3, <2>1, <2>2 DEF Took
<1> QED
  BY <1>2, <1>3 DEF Take

(* What is done to it before it arrives: nothing, or it is snuffed.        *)
LEMMA Prepared ==
  ASSUME Inv, NEW o \in Slots, ~Away(obj[o]), obj[o].where # "none", NEW x \in Slots,
         NEW h, Took(o, x, h), NEW k, k = h \/ (Lit(h.obj[x]) /\ k = PutOut(h, x))
  PROVE  Sound(h, k, {x}) /\ SameThing(k.obj[x], h.obj[x]) /\ FuelLeft(k, x) = FuelLeft(h, x)
<1>1. HeapOK(h) /\ Right(h, x) /\ ~Away(h.obj[x]) /\ moves \in Nat
  BY Taken
<1>2. CASE k = h
  <2>1. Only(h, h, {x})
    BY DEF Only
  <2> QED
    BY <1>1, <1>2, <2>1 DEF Sound, Calmly, SameThing
<1>3. CASE Lit(h.obj[x]) /\ k = PutOut(h, x)
  BY <1>1, <1>3, SoundPutOut
<1> QED
  BY <1>2, <1>3

LEMMA MovedKeeps ==
  ASSUME Inv, NEW o \in Slots, ~Away(obj[o]), obj[o].where # "none", NEW x \in Slots,
         NEW h, Took(o, x, h), NEW k, k = h \/ (Lit(h.obj[x]) /\ k = PutOut(h, x)),
         NEW to \in {"inv", "floor"}, x # o => obj[o].where # to,
         NEW n \in Arrive(k, x, to), Becomes(n, o, {})
  PROVE  Inv'
<1>1. Sound(h, k, {x}) /\ SameThing(k.obj[x], h.obj[x]) /\ FuelLeft(k, x) = FuelLeft(h, x)
  BY Prepared
<1>2. \E T \in SUBSET Slots : Arrives(n, o, h, x, T)
  BY <1>1, Moved
<1> QED
  BY <1>2, ArriveKeeps

LEMMA DropKeeps ==
  ASSUME Inv, NEW o \in Slots, Drop(o)
  PROVE  Inv'
<1>1. Carried(o) /\ Move(o, "floor", AsIs)
  BY DEF Drop
<1>2. ~Away(obj[o]) /\ obj[o].where # "none" /\ obj[o].where # "floor"
  BY <1>1 DEF Carried, Away
<1>3. PICK t \in Take(o) : \E n \in Arrive(t[2], t[1], "floor") : Becomes(n, o, {})
  BY <1>1 DEF Move, AsIs
<1>4. PICK n \in Arrive(t[2], t[1], "floor") : Becomes(n, o, {})
  BY <1>3
<1>5. t[1] \in Slots /\ Took(o, t[1], t[2])
  BY <1>2, TakeTook
<1> QED
  BY <1>2, <1>4, <1>5, MovedKeeps

LEMMA ThrowKeeps ==
  ASSUME Inv, NEW o \in Slots, Throw(o)
  PROVE  Inv'
<1>1. Carried(o) /\ Move(o, "floor", SnuffCandle)
  BY DEF Throw
<1>2. ~Away(obj[o]) /\ obj[o].where # "none" /\ obj[o].where # "floor"
  BY <1>1 DEF Carried, Away
<1>3. PICK t \in Take(o) :
        \E n \in Arrive(SnuffCandle(t[2], t[1]), t[1], "floor") : Becomes(n, o, {})
  BY <1>1 DEF Move
<1>4. PICK n \in Arrive(SnuffCandle(t[2], t[1]), t[1], "floor") : Becomes(n, o, {})
  BY <1>3
<1>5. t[1] \in Slots /\ Took(o, t[1], t[2])
  BY <1>2, TakeTook
<1>6. \/ SnuffCandle(t[2], t[1]) = t[2]
      \/ Lit(t[2].obj[t[1]]) /\ SnuffCandle(t[2], t[1]) = PutOut(t[2], t[1])
  BY DEF SnuffCandle, PutOut, Lit
<1> QED
  BY <1>2, <1>4, <1>5, <1>6, MovedKeeps

LEMMA PickUpKeeps ==
  ASSUME Inv, NEW o \in Slots, PickUp(o)
  PROVE  Inv'
<1>1. obj[o].where = "floor" /\ obj[o].lev = level /\ Move(o, "inv", AsIs)
  BY DEF PickUp
<1>2. ~Away(obj[o]) /\ obj[o].where # "none" /\ obj[o].where # "inv"
  BY <1>1 DEF Away
<1>3. PICK t \in Take(o) : \E n \in Arrive(t[2], t[1], "inv") : Becomes(n, o, {})
  BY <1>1 DEF Move, AsIs
<1>4. PICK n \in Arrive(t[2], t[1], "inv") : Becomes(n, o, {})
  BY <1>3
<1>5. t[1] \in Slots /\ Took(o, t[1], t[2])
  BY <1>2, TakeTook
<1> QED
  BY <1>2, <1>4, <1>5, MovedKeeps

LEMMA SnuffCocktailKeeps ==
  ASSUME Inv, NEW o \in Slots, SnuffCocktail(o)
  PROVE  Inv'
<1>1. Carried(o) /\ Lit(obj[o])
  BY DEF SnuffCocktail, Lit
<1>2. PICK n \in Arrive(PutOut(Heap, o), o, "inv") : Becomes(n, o, {})
  BY DEF SnuffCocktail, PutOut
<1>3. ~Away(obj[o]) /\ obj[o].where # "none"
  BY <1>1 DEF Carried, Away
<1>4. Took(o, o, Heap)
  BY DEF Took
<1>5. Lit(Heap.obj[o])
  BY <1>1, InvFacts
<1> QED
  BY <1>2, <1>3, <1>4, <1>5, MovedKeeps

LEMMA DeliverKeeps ==
  ASSUME Inv, NEW o \in Slots, Deliver(o)
  PROVE  Inv'
<1>1. obj[o].where = "migr" /\ obj[o].lev = level
  BY DEF Deliver
<1>2. ~Away(obj[o]) /\ obj[o].where # "none" /\ Right(Heap, o) /\ HeapOK(Heap) /\ moves \in Nat
  BY <1>1, AtHand
<1>3. CASE Becomes(Dealloc(Heap, o), o, {})
  <2>1. Sound(Heap, Dealloc(Heap, o), {o}) /\ Dealloc(Heap, o).obj[o] = NoObj
    BY <1>2, SoundDealloc
  <2> QED
    BY <1>2, <1>3, <2>1, OneKeeps
<1>4. CASE \E n \in Arrive(Heap, o, "floor") : Becomes(n, o, {})
  <2>1. PICK n \in Arrive(Heap, o, "floor") : Becomes(n, o, {})
    BY <1>4
  <2>2. Took(o, o, Heap)
    BY DEF Took
  <2> QED
    BY <1>2, <2>1, <2>2, MovedKeeps
<1> QED
  BY <1>3, <1>4 DEF Deliver

LEMMA LightCocktailKeeps ==
  ASSUME Inv, NEW o \in Slots, LightCocktail(o)
  PROVE  Inv'
<1>1. Carried(o) /\ ~Lit(obj[o]) /\ obj[o].where # "none" /\ ~Away(obj[o])
  BY DEF LightCocktail, Carried, Unlit, Lit, Away
<1>2. \E x \in Slots, to \in Places :
        /\ IF obj[o].quan > 1 THEN obj[x].where = "none" ELSE x = o
        /\ LET one == IF x = o THEN Heap ELSE SplitObj(Heap, o, x, 1)
           IN Becomes([Light(one, x) EXCEPT !.obj[x].where = to, !.obj[x].lev = level], o, {})
  BY ZenonT(30) DEF LightCocktail, Places, Light
<1>3. PICK x \in Slots, to \in Places :
        /\ IF obj[o].quan > 1 THEN obj[x].where = "none" ELSE x = o
        /\ LET one == IF x = o THEN Heap ELSE SplitObj(Heap, o, x, 1)
           IN Becomes([Light(one, x) EXCEPT !.obj[x].where = to, !.obj[x].lev = level], o, {})
  BY <1>2
<1> DEFINE h == IF x = o THEN Heap ELSE SplitObj(Heap, o, x, 1)
           lit == Light(h, x)
           n == [lit EXCEPT !.obj[x].where = to, !.obj[x].lev = level]
<1>4. Becomes(n, o, {})
  BY <1>3
<1>5. Took(o, x, h)
  <2>1. 1 \in Nat /\ 0 < 1
    OBVIOUS
  <2> QED
    BY <1>1, <1>3, <2>1 DEF Took
<1>6. lit = Light(h, x)
  OBVIOUS
<1>7. n = [lit EXCEPT !.obj[x].where = to, !.obj[x].lev = level]
  OBVIOUS
<1> HIDE DEF h, lit, n
<1>8. /\ HeapOK(h) /\ Right(h, x) /\ ~Away(h.obj[x]) /\ ~Away(obj[x])
      /\ h.obj[x].where # "none" /\ ~Lit(h.obj[x]) /\ moves \in Nat /\ level \in Levels
  <2>1. /\ HeapOK(h) /\ Right(h, x) /\ ~Away(h.obj[x]) /\ ~Away(obj[x])
        /\ h.obj[x].where = obj[o].where /\ (Lit(h.obj[x]) <=> Lit(obj[o]))
    BY <1>1, <1>5, Taken
  <2>2. moves \in Nat /\ level \in Levels
    BY InvFacts
  <2> QED
    BY <1>1, <2>1, <2>2
<1>9. /\ Sound(h, lit, {x}) /\ SameThing(lit.obj[x], h.obj[x])
      /\ FuelLeft(lit, x) = FuelLeft(h, x)
  BY <1>6, <1>8, SoundLight
<1>10. HeapOK(lit) /\ Right(lit, x) /\ lit.obj[x].where # "none"
  BY <1>8, <1>9 DEF Sound, SameThing
<1>11. n = SetObj(lit, x, At(lit.obj[x], to, level))
  <2>1. lit \in HeapType /\ lit.obj \in [Slots -> Obj] /\ lit.obj[x] \in Obj
    BY <1>10, HeapFacts
  <2>2. n = [lit EXCEPT !.obj = [lit.obj EXCEPT ![x] = [lit.obj[x] EXCEPT !.where = to, !.lev = level]]]
    BY <1>7, <2>1 DEF HeapType, Obj
  <2> QED
    BY <2>2 DEF SetObj, At
<1>12. /\ Sound(lit, n, {x}) /\ FuelLeft(n, x) = FuelLeft(lit, x)
       /\ n.obj[x].kind = lit.obj[x].kind
  <2>1. HeapOK(lit) /\ Right(lit, x) /\ There(lit.obj[x]) /\ moves \in Nat /\ level \in Levels
    BY <1>8, <1>10 DEF There
  <2>2. to \in Places /\ x \in Slots
    BY <1>3
  <2>3. Brings(lit, n, x, to)
    BY <2>1, <2>2, <1>11, Brought
  <2> QED
    BY <2>3 DEF Brings
<1>13. Sound(h, n, {x})
  <2>1. Sound(h, n, {x} \cup {x})
    BY <1>8, <1>9, <1>12, SoundAgain
  <2> QED
    BY <2>1
<1>14. Follows(n, h, x)
  BY <1>9, <1>12 DEF Follows, SameThing
<1>15. \A p \in {x} : p # x => Accounts(n, p, o, {})
  OBVIOUS
<1> QED
  <2> DEFINE T == {x}
  <2>1. /\ ~Away(obj[o]) /\ obj[o].where # "none" /\ Took(o, x, h) /\ T \in SUBSET Slots
        /\ x \in T /\ (x # o => o \notin T) /\ \A p \in T : ~Away(obj[p])
        /\ Sound(h, n, T) /\ \A p \in T : p # x => Accounts(n, p, o, {})
        /\ Follows(n, h, x) /\ {} \in SUBSET T
    BY <1>1, <1>5, <1>8, <1>13, <1>14, <1>15
  <2> HIDE DEF T
  <2> QED
    BY <1>4, <2>1, TakenKeeps

(* Burning oil that is lit again: begin_burn() returns at once.            *)
LEMMA DrunkLit ==
  ASSUME NEW h, NEW x \in Slots, Right(h, x), h.obj[x].kind \in {"oil", "thinoil"},
         NEW lit \in BOOLEAN, lit <=> Lit(h.obj[x])
  PROVE  \/ Lit(h.obj[x]) /\ BeginBurn(h, x, lit) = h
         \/ ~Lit(h.obj[x]) /\ BeginBurn(h, x, lit) = Light(h, x)
<1>1. CASE lit
  <2>1. h.obj[x].age = 0 /\ h.obj[x].kind # "magic"
    BY <1>1 DEF Right, Sane, Lit
  <2>2. BeginBurn(h, x, lit) = h
    BY <2>1 DEF BeginBurn
  <2> QED
    BY <1>1, <2>2
<1>2. CASE ~lit
  <2>1. lit = FALSE
    BY <1>2
  <2>2. BeginBurn(h, x, lit) = Light(h, x)
    BY <2>1, Zenon DEF Light
  <2>3. ~Lit(h.obj[x])
    BY <1>2
  <2> QED
    BY <2>2, <2>3
<1> QED
  BY <1>1, <1>2

LEMMA MonsterDrinksKeeps ==
  ASSUME Inv, NEW o \in Slots, MonsterDrinks(o)
  PROVE  Inv'
<1>1. Here(o) /\ obj[o].kind \in {"oil", "thinoil"}
  BY DEF MonsterDrinks, Exposed
<1>2. ~Away(obj[o]) /\ obj[o].where # "none" /\ obj[o] \in Obj
  BY <1>1, NearBy
<1>3. PICK x \in Slots :
        /\ IF obj[o].quan > 1 THEN obj[x].where = "none" ELSE x = o
        /\ LET one == IF x = o THEN Heap ELSE SplitObj(Heap, o, x, 1)
           IN Becomes(Dealloc(BeginBurn(one, x, obj[o].lit), x), o, {})
  BY DEF MonsterDrinks
<1> DEFINE h == IF x = o THEN Heap ELSE SplitObj(Heap, o, x, 1)
           k == BeginBurn(h, x, obj[o].lit)
           n == Dealloc(k, x)
<1>4. Becomes(n, o, {})
  BY <1>3
<1>5. Took(o, x, h)
  <2>1. 1 \in Nat /\ 0 < 1
    OBVIOUS
  <2> QED
    BY <1>2, <1>3, <2>1 DEF Took
<1>6. k = BeginBurn(h, x, obj[o].lit)
  OBVIOUS
<1>7. n = Dealloc(k, x)
  OBVIOUS
<1> HIDE DEF h, k, n
<1>8. /\ HeapOK(h) /\ Right(h, x) /\ ~Away(h.obj[x]) /\ ~Away(obj[x])
      /\ h.obj[x].where # "none" /\ (Lit(h.obj[x]) <=> Lit(obj[o]))
      /\ h.obj[x].kind = obj[o].kind
  <2>1. /\ HeapOK(h) /\ Right(h, x) /\ ~Away(h.obj[x]) /\ ~Away(obj[x])
        /\ h.obj[x].where = obj[o].where /\ (Lit(h.obj[x]) <=> Lit(obj[o]))
        /\ h.obj[x].kind = obj[o].kind
    BY <1>2, <1>5, Taken
  <2> QED
    BY <1>2, <2>1
<1>a. moves \in Nat
  BY InvFacts
<1>9. \/ Lit(h.obj[x]) /\ k = h
      \/ ~Lit(h.obj[x]) /\ k = Light(h, x)
  <2>1. PICK lit \in BOOLEAN : lit = obj[o].lit
    BY <1>2, ObjFacts
  <2>2. lit <=> Lit(h.obj[x])
    BY <1>8, <2>1 DEF Lit
  <2>3. h.obj[x].kind \in {"oil", "thinoil"}
    BY <1>1, <1>8
  <2>4. \/ Lit(h.obj[x]) /\ BeginBurn(h, x, lit) = h
        \/ ~Lit(h.obj[x]) /\ BeginBurn(h, x, lit) = Light(h, x)
    BY <1>8, <2>2, <2>3, DrunkLit
  <2> QED
    BY <1>6, <2>1, <2>4, Zenon
<1>10. Sound(h, k, {x})
  <2>1. CASE k = h
    <3>1. Only(h, h, {x})
      BY DEF Only
    <3> QED
      BY <1>8, <2>1, <3>1 DEF Sound, Calmly
  <2>2. CASE ~Lit(h.obj[x]) /\ k = Light(h, x)
    BY <1>8, <1>a, <2>2, SoundLight
  <2> QED
    BY <1>9, <2>1, <2>2
<1>11. Sound(k, n, {x}) /\ n.obj[x] = NoObj
  BY <1>7, <1>10, <1>a, SoundDealloc DEF Sound
<1>12. Sound(h, n, {x})
  <2>1. Sound(h, n, {x} \cup {x})
    BY <1>8, <1>10, <1>11, SoundAgain
  <2> QED
    BY <2>1
<1>13. Follows(n, h, x)
  BY <1>11, NoObjIsObj DEF Follows
<1> DEFINE T == {x}
<1>14. /\ ~Away(obj[o]) /\ obj[o].where # "none" /\ Took(o, x, h) /\ T \in SUBSET Slots
       /\ x \in T /\ (x # o => o \notin T) /\ \A p \in T : ~Away(obj[p])
       /\ Sound(h, n, T) /\ \A p \in T : p # x => Accounts(n, p, o, {})
       /\ Follows(n, h, x) /\ {} \in SUBSET T
  BY <1>2, <1>5, <1>8, <1>12, <1>13
<1> HIDE DEF T
<1> QED
  BY <1>4, <1>14, TakenKeeps

(* The candelabrum b with another candle, or more of them, on it.          *)
OnIt(b, candle) ==
  [b EXCEPT !.age = IF b.spe = 0 \/ b.age > candle.age THEN candle.age ELSE b.age,
            !.spe = b.spe + candle.quan]

LEMMA CandlePut ==
  ASSUME NEW m, HeapOK(m), NEW o \in Slots, Right(m, o), ~Away(m.obj[o]),
         m.obj[o].where # "none", m.obj[o].kind = "menorah",
         NEW x \in Slots, Right(m, x), m.obj[x].kind = "candle", m.obj[x].where # "none",
         ~Lit(m.obj[x]), moves \in Nat, NEW n, n = SetObj(m, o, OnIt(m.obj[o], m.obj[x]))
  PROVE  Sound(m, n, {o})
<1> DEFINE b == m.obj[o]  d == m.obj[x]  c == OnIt(b, d)
<1>1. /\ Sane(b) /\ Sane(d) /\ b \in Obj /\ d \in Obj /\ b.age \in Int /\ d.age \in Int
      /\ b.spe \in Nat /\ d.quan \in Nat /\ b.where # "none" /\ d.where # "none"
      /\ b.kind = "menorah" /\ d.kind = "candle" /\ ~Lit(d)
  BY ObjFacts DEF Right, Sane
<1>2. n = SetObj(m, o, c) /\ b = m.obj[o] /\ d = m.obj[x] /\ c = OnIt(b, d)
  OBVIOUS
<1> HIDE DEF b, c, d
<1>3. PICK age \in Int : /\ age = IF b.spe = 0 \/ b.age > d.age THEN d.age ELSE b.age
  BY <1>1
<1>4. c = [b EXCEPT !.age = age, !.spe = b.spe + d.quan]
  BY <1>2, <1>3 DEF OnIt
<1>5. b.spe + d.quan \in Nat
  BY <1>1
<1>6. /\ c \in Obj /\ c.kind = b.kind /\ c.where = b.where /\ c.lev = b.lev /\ c.quan = b.quan
      /\ c.age = age /\ c.timed = b.timed
  BY <1>1, <1>4, <1>5 DEF Obj
<1>7. c.lit = b.lit
  BY <1>1, <1>4 DEF Obj
<1>8. Sane(c) /\ ~Away(c)
  <2>1. (Burns(c) <=> Burns(b))
    BY <1>6, <1>7 DEF Burns
  <2>2. c.timed = IF Burns(c) THEN 1 ELSE 0
    BY <1>1, <1>6, <2>1 DEF Sane
  <2>3. Sane(c)
    BY <1>1, <1>6, <2>2 DEF Sane
  <2> QED
    BY <1>2, <1>6, <2>3 DEF Away
<1>9. Calm(m) => Fueled(c)
  <2>1. Calm(m) => Fueled(b) /\ Fueled(d)
    BY <1>2 DEF Calm
  <2>2. Fueled(d) => d.age > 0
    BY <1>1 DEF Fueled, Needs
  <2>3. ASSUME Fueled(b), ~Lit(b), b.spe # 0 PROVE b.age > 0
    BY <1>1, <2>3 DEF Fueled, Needs
  <2>4. Fueled(b) => b.age >= 0
    BY DEF Fueled
  <2>5. Lit(c) <=> Lit(b)
    BY <1>7 DEF Lit
  <2> QED
    BY <1>1, <1>3, <1>6, <2>1, <2>2, <2>3, <2>4, <2>5 DEF Fueled
<1>10. c.lit = m.obj[o].lit /\ (c.lit => c.kind = m.obj[o].kind)
  BY <1>2, <1>6, <1>7
<1> QED
  BY <1>2, <1>8, <1>9, <1>10, SoundSet

LEMMA UseCandleKeeps ==
  ASSUME Inv, NEW c \in Slots, NEW o \in Slots, UseCandle(c, o)
  PROVE  Inv'
<1>1. Carried(c) /\ Carried(o) /\ obj[c].kind = "candle" /\ obj[o].kind = "menorah"
  BY DEF UseCandle
<1>2. /\ ~Away(obj[c]) /\ ~Away(obj[o]) /\ obj[c].where = "inv" /\ obj[o].where = "inv" /\ c # o
      /\ obj[c].quan \in Nat /\ obj[o].spe \in Nat /\ Right(Heap, o) /\ moves \in Nat
      /\ HeapOK(Heap) /\ Heap.obj = obj
  BY <1>1, InvFacts, ObjFacts DEF Carried, Away
<1> DEFINE room == FullMenorah - obj[o].spe
<1>3. PICK x \in Slots :
       /\ IF obj[c].quan > room THEN obj[x].where = "none" ELSE x = c
       /\ LET taken == Doused(IF x = c THEN Heap ELSE SplitObj(Heap, c, x, room), x)
              candle == taken.obj[x]
              on == [taken EXCEPT !.obj[o].age = IF obj[o].spe = 0 \/ @ > candle.age
                                                 THEN candle.age ELSE @,
                                  !.obj[o].spe = @ + candle.quan]
          IN Becomes(Dealloc(on, x), c, {o})
  BY DEF UseCandle
<1> DEFINE h == IF x = c THEN Heap ELSE SplitObj(Heap, c, x, room)
           taken == Doused(h, x)
           on == [taken EXCEPT !.obj[o].age = IF obj[o].spe = 0 \/ @ > taken.obj[x].age
                                              THEN taken.obj[x].age ELSE @,
                               !.obj[o].spe = @ + taken.obj[x].quan]
           n == Dealloc(on, x)
<1>4. Becomes(n, c, {o})
  BY <1>3
<1>5. Took(c, x, h)
  <2>1. FullMenorah \in Nat /\ obj[o].spe < FullMenorah
    BY BurningAssumption DEF UseCandle
  <2>2. room \in Nat /\ 0 < room
    BY <1>2, <2>1
  <2> HIDE DEF room
  <2> QED
    BY <1>2, <1>3, <2>2 DEF Took
<1>6. x # o
  BY <1>2, <1>3
<1>7. taken = h \/ (Lit(h.obj[x]) /\ taken = PutOut(h, x))
  BY DEF Doused, PutOut, Lit
<1>8. ~Lit(h.obj[x]) => taken = h
  BY DEF Doused, Lit
<1>a. Lit(h.obj[x]) => taken = PutOut(h, x)
  BY DEF Doused, PutOut, Lit
<1>9. n = Dealloc(on, x)
  OBVIOUS
<1>10. on = [taken EXCEPT !.obj[o].age = IF obj[o].spe = 0 \/ @ > taken.obj[x].age
                                         THEN taken.obj[x].age ELSE @,
                          !.obj[o].spe = @ + taken.obj[x].quan]
  OBVIOUS
<1> HIDE DEF room, h, taken, on, n
<1>11. /\ Sound(Heap, h, {c, x}) /\ HeapOK(h) /\ Right(h, x) /\ ~Away(h.obj[x]) /\ ~Away(obj[x])
       /\ h.obj[x].where = "inv" /\ h.obj[x].kind = "candle"
  <2>1. ~Away(obj[c]) /\ obj[c].where # "none"
    BY <1>2
  <2>2. /\ Sound(Heap, h, {c, x}) /\ HeapOK(h) /\ Right(h, x) /\ ~Away(h.obj[x])
        /\ ~Away(obj[x])
    BY <1>5, <2>1, Taken
  <2>3. h.obj[x].where = obj[c].where /\ h.obj[x].kind = obj[c].kind
    BY <1>5, <2>1, Taken, ZenonT(30)
  <2> QED
    BY <1>1, <1>2, <2>2, <2>3
<1>12. Sound(h, taken, {x}) /\ SameThing(taken.obj[x], h.obj[x])
  BY <1>2, <1>5, <1>7, Prepared
<1>13. HeapOK(taken) /\ Right(taken, x)
  BY <1>12 DEF Sound
<1>14. ~Lit(taken.obj[x])
  <2>1. CASE ~Lit(h.obj[x])
    BY <1>8, <2>1
  <2>2. CASE Lit(h.obj[x])
    BY <1>2, <1>11, <1>a, <2>2, SoundPutOut
  <2> QED
    BY <2>1, <2>2
<1>15. taken.obj[x].where = "inv" /\ taken.obj[x].kind = "candle"
  BY <1>11, <1>12 DEF SameThing
<1>16. taken.obj[o] = obj[o] /\ Right(taken, o)
  <2>1. h.obj[o] = obj[o] /\ Right(h, o)
    BY <1>2, <1>6, <1>11, Untouched DEF Sound
  <2>2. taken.obj[o] = h.obj[o] /\ Right(taken, o)
    BY <1>6, <1>11, <1>12, <1>13, <2>1, Untouched DEF Sound
  <2> QED
    BY <2>1, <2>2
<1>17. on = SetObj(taken, o, OnIt(taken.obj[o], taken.obj[x]))
  <2>1. taken \in HeapType /\ taken.obj \in [Slots -> Obj] /\ taken.obj[o] \in Obj
    BY <1>13, HeapFacts
  <2> DEFINE b == taken.obj[o]  d == taken.obj[x]
             e == [[b EXCEPT !.age = IF obj[o].spe = 0 \/ b.age > d.age THEN d.age ELSE b.age]
                     EXCEPT !.spe = b.spe + d.quan]
  <2>2. on = [taken EXCEPT !.obj = [taken.obj EXCEPT ![o] = e]]
    BY <1>6, <1>10, <2>1 DEF HeapType, Obj
  <2>3. e = OnIt(b, d)
    BY <1>16, <2>1 DEF OnIt, Obj
  <2> QED
    BY <2>2, <2>3 DEF SetObj
<1>18. Sound(taken, on, {o})
  <2>1. /\ ~Away(taken.obj[o]) /\ taken.obj[o].where # "none" /\ taken.obj[o].kind = "menorah"
    BY <1>1, <1>2, <1>16
  <2>2. taken.obj[x].where # "none" /\ taken.obj[x].kind = "candle"
    BY <1>15
  <2> QED
    BY <1>2, <1>13, <1>14, <1>16, <1>17, <2>1, <2>2, CandlePut
<1>19. HeapOK(on) /\ Right(on, x)
  BY <1>6, <1>13, <1>18, Untouched DEF Sound
<1>20. Sound(on, n, {x}) /\ n.obj[x] = NoObj
  BY <1>2, <1>9, <1>19, SoundDealloc
<1> DEFINE T == {x, o}
<1>21. Sound(h, n, T)
  <2>1. Sound(h, on, {x} \cup {o})
    BY <1>11, <1>12, <1>18, SoundAgain
  <2>2. Sound(h, n, ({x} \cup {o}) \cup {x})
    BY <1>11, <1>20, <2>1, SoundAgain
  <2>3. ({x} \cup {o}) \cup {x} = {x, o}
    OBVIOUS
  <2> QED
    BY <2>2, <2>3
<1>22. Follows(n, h, x)
  BY <1>20, NoObjIsObj DEF Follows
<1>23. Accounts(n, o, c, {o})
  BY DEF Accounts
<1>24. /\ ~Away(obj[c]) /\ obj[c].where # "none" /\ Took(c, x, h) /\ T \in SUBSET Slots
       /\ x \in T /\ (x # c => c \notin T) /\ \A p \in T : ~Away(obj[p])
       /\ Sound(h, n, T) /\ \A p \in T : p # x => Accounts(n, p, c, {o})
       /\ Follows(n, h, x) /\ {o} \in SUBSET T
  BY <1>2, <1>5, <1>11, <1>21, <1>22, <1>23
<1> HIDE DEF T
<1> QED
  BY <1>4, <1>24, TakenKeeps

LEMMA UsedUpOne ==
  ASSUME NEW m, HeapOK(m), NEW p \in Slots, Right(m, p), ~Away(m.obj[p]),
         m.obj[p].where # "none", moves \in Nat, NEW n, n = UseUp(m, p)
  PROVE  /\ Sound(m, n, {p})
         /\ \/ n.obj[p] = NoObj
            \/ n.obj[p].kind = m.obj[p].kind /\ FuelLeft(n, p) = FuelLeft(m, p)
<1> DEFINE b == m.obj[p]
<1>1. Sane(b) /\ b \in Obj /\ b.quan \in Nat /\ b.age \in Int
  BY ObjFacts DEF Right, Sane
<1>2. CASE b.quan > 1
  <2> DEFINE c == [b EXCEPT !.quan = b.quan - 1]
  <2>1. n = SetObj(m, p, c)
    BY <1>2 DEF UseUp, SetObj
  <2>2. b = m.obj[p]
    OBVIOUS
  <2>3. b.quan - 1 \in Nat /\ b.quan - 1 > 0
    BY <1>1, <1>2
  <2>4. /\ c \in Obj /\ c.kind = b.kind /\ c.where = b.where /\ c.lev = b.lev /\ c.age = b.age
        /\ c.spe = b.spe /\ c.timed = b.timed /\ c.quan = b.quan - 1
    BY <1>1, <2>3 DEF Obj
  <2>5. c.lit = b.lit
    BY <1>1 DEF Obj
  <2> HIDE DEF b, c
  <2>6. (Burns(c) <=> Burns(b)) /\ (Lit(c) <=> Lit(b))
    BY <2>4, <2>5 DEF Burns, Lit
  <2>7. Sane(c) /\ ~Away(c)
    <3>1. c.timed = IF Burns(c) THEN 1 ELSE 0
      BY <1>1, <2>4, <2>6 DEF Sane
    <3>2. (c.kind = "oil" /\ c.lit) => c.age = 0
      BY <1>1, <2>4, <2>5 DEF Sane
    <3>3. b.where # "none"
      BY <2>2
    <3>4. Sane(c)
      BY <1>1, <2>3, <2>4, <3>1, <3>2, <3>3 DEF Sane
    <3> QED
      BY <2>2, <2>4, <3>4 DEF Away
  <2>8. Calm(m) => Fueled(c)
    <3>1. Calm(m) => Fueled(b)
      BY <2>2 DEF Calm
    <3> QED
      BY <2>4, <2>6, <3>1 DEF Fueled, Needs
  <2>9. c.lit = m.obj[p].lit /\ (c.lit => c.kind = m.obj[p].kind)
    BY <2>2, <2>4, <2>5
  <2>10. /\ Sound(m, n, {p}) /\ n.obj[p] = c
         /\ FuelLeft(n, p) = FuelLeft(m, p) + (c.age - m.obj[p].age)
    <3>1. HeapOK(m) /\ Right(m, p) /\ moves \in Nat /\ p \in Slots
      OBVIOUS
    <3>2. Alike(m.obj[p], c)
      BY <2>9 DEF Alike
    <3>3. Altered(m, n, p, c)
      BY <2>1, <2>7, <2>8, <3>1, <3>2, SoundAltered
    <3> QED
      BY <3>3 DEF Altered
  <2>11. FuelLeft(m, p) \in Int
    BY FuelIsInt
  <2> QED
    BY <1>1, <2>2, <2>4, <2>10, <2>11
<1>3. CASE ~(b.quan > 1)
  <2>1. n = Dealloc(m, p)
    BY <1>3 DEF UseUp
  <2>2. Sound(m, n, {p}) /\ n.obj[p] = NoObj
    BY <2>1, SoundDealloc
  <2> QED
    BY <2>2
<1> QED
  BY <1>2, <1>3

LEMMA Smaller ==
  ASSUME NEW x \in Int, NEW y \in Int
  PROVE  Min({x, y}) \in {x, y}
<1>1. CASE x <= y
  <2>1. \E z \in {x, y} : \A u \in {x, y} : z <= u
    BY <1>1
  <2> QED
    BY <2>1 DEF Min
<1>2. CASE y <= x
  <2>1. \E z \in {x, y} : \A u \in {x, y} : z <= u
    BY <1>2
  <2> QED
    BY <2>1 DEF Min
<1> QED
  BY <1>1, <1>2

(* Oil for a lamp: no more than it holds.                                  *)
Filled(age, rate, oil) == Min({age + CDiv(rate * oil, 2), LampCap})
LEMMA FilledFacts ==
  ASSUME NEW age \in Int, NEW rate \in {3, 4}, NEW oil \in Int
  PROVE  /\ Filled(age, rate, oil) \in Int
         /\ age >= 0 /\ oil >= 0 => Filled(age, rate, oil) >= 0
<1>1. LampCap \in Nat
  BY BurningAssumption
<1>2. PICK x \in Int : x = rate * oil
  OBVIOUS
<1>3. oil >= 0 => x >= 0
  BY <1>2
<1>4. CDiv(x, 2) \in Int /\ (x >= 0 => CDiv(x, 2) >= 0)
  BY Quotient
<1>5. PICK y \in Int : y = age + CDiv(x, 2)
  BY <1>4
<1>6. Min({y, LampCap}) \in {y, LampCap}
  BY <1>1, Smaller
<1>7. Filled(age, rate, oil) = Min({y, LampCap})
  BY <1>2, <1>5 DEF Filled
<1>8. age >= 0 /\ oil >= 0 => y >= 0
  BY <1>3, <1>4, <1>5
<1> QED
  BY <1>1, <1>6, <1>7, <1>8

LEMMA LampFilled ==
  ASSUME NEW m, HeapOK(m), NEW o \in Slots, Right(m, o), ~Away(m.obj[o]),
         m.obj[o].where # "none", m.obj[o].kind \in {"lamp", "magic"}, ~Lit(m.obj[o]),
         moves \in Nat, NEW age \in Int, Calm(m) => age >= 0,
         NEW n, n = SetObj(m, o, [m.obj[o] EXCEPT !.age = age])
  PROVE  Sound(m, n, {o})
<1> DEFINE b == m.obj[o]  c == [b EXCEPT !.age = age]
<1>1. Sane(b) /\ b \in Obj /\ b.where # "none" /\ ~Lit(b) /\ b.kind \in {"lamp", "magic"}
  BY DEF Right, Sane
<1>2. n = SetObj(m, o, c) /\ b = m.obj[o]
  OBVIOUS
<1>3. /\ c \in Obj /\ c.kind = b.kind /\ c.where = b.where /\ c.lev = b.lev /\ c.quan = b.quan
      /\ c.age = age /\ c.timed = b.timed
  BY <1>1 DEF Obj
<1>4. c.lit = b.lit
  BY <1>1 DEF Obj
<1> HIDE DEF b, c
<1>5. Sane(c) /\ ~Away(c)
  <2>1. Burns(c) <=> Burns(b)
    BY <1>3, <1>4 DEF Burns
  <2>2. c.timed = IF Burns(c) THEN 1 ELSE 0
    BY <1>1, <1>3, <2>1 DEF Sane
  <2>3. Sane(c)
    BY <1>1, <1>3, <2>2 DEF Sane
  <2> QED
    BY <1>2, <1>3, <2>3 DEF Away
<1>6. Calm(m) => Fueled(c)
  BY <1>1, <1>3 DEF Fueled, Needs
<1>7. c.lit = m.obj[o].lit /\ (c.lit => c.kind = m.obj[o].kind)
  BY <1>2, <1>3, <1>4
<1>8. HeapOK(m) /\ Right(m, o) /\ moves \in Nat /\ o \in Slots
  OBVIOUS
<1> QED
  <2>1. Alike(m.obj[o], c)
    BY <1>7 DEF Alike
  <2>2. Altered(m, n, o, c)
    BY <1>2, <1>5, <1>6, <1>8, <2>1, SoundAltered
  <2> QED
    BY <2>2 DEF Altered

LEMMA FillLampKeeps ==
  ASSUME Inv, NEW o \in Slots, NEW p \in Slots, FillLamp(o, p)
  PROVE  Inv'
<1>1. /\ Carried(o) /\ Carried(p) /\ obj[o].kind \in {"lamp", "magic"}
      /\ obj[p].kind \in {"oil", "thinoil"}
  BY DEF FillLamp
<1>2. /\ ~Away(obj[o]) /\ ~Away(obj[p]) /\ obj[o].where # "none" /\ obj[p].where # "none"
      /\ o # p /\ obj[p].kind # "magic"
  BY <1>1 DEF Carried, Away
<1>3. /\ Right(Heap, o) /\ Right(Heap, p) /\ moves \in Nat /\ HeapOK(Heap) /\ Heap.obj = obj
      /\ obj[o] \in Obj /\ obj[p] \in Obj
  BY <1>2, InvFacts
<1>4. CASE Becomes(UseUp(Heap, p), p, {})
  <2> DEFINE n == UseUp(Heap, p)
  <2>1. n = UseUp(Heap, p) /\ Becomes(n, p, {})
    BY <1>4
  <2> HIDE DEF n
  <2>2. /\ Sound(Heap, n, {p})
        /\ \/ n.obj[p] = NoObj
           \/ n.obj[p].kind = Heap.obj[p].kind /\ FuelLeft(n, p) = FuelLeft(Heap, p)
    BY <1>2, <1>3, <2>1, UsedUpOne
  <2>3. Accounts(n, p, p, {})
    BY <1>2, <1>3, <2>2, NoObjIsObj DEF Accounts
  <2> DEFINE S == {p}
  <2>4. /\ S \in SUBSET Slots /\ Sound(Heap, n, S) /\ \A q \in S : ~Away(obj[q])
        /\ {} \in SUBSET S /\ \A q \in S : Accounts(n, q, p, {})
    BY <1>2, <2>2, <2>3
  <2> HIDE DEF S
  <2> QED
    BY <2>1, <2>4, BecomesKeeps
<1>5. ASSUME NEW rate \in {3, 4}, ~Lit(obj[o]),
             Becomes(UseUp([Heap EXCEPT !.obj[o].age =
                              Min({@ + CDiv(rate * obj[p].age, 2), LampCap})], p), p, {o})
      PROVE  Inv'
  <2> DEFINE age == Filled(obj[o].age, rate, obj[p].age)
             k == SetObj(Heap, o, [Heap.obj[o] EXCEPT !.age = age])
             n == UseUp(k, p)
  <2>1. Becomes(n, p, {o})
    BY <1>3, <1>5 DEF SetObj, Filled
  <2>2. k = SetObj(Heap, o, [Heap.obj[o] EXCEPT !.age = age]) /\ n = UseUp(k, p)
    OBVIOUS
  <2>3. age \in Int /\ (obj[o].age >= 0 /\ obj[p].age >= 0 => age >= 0)
    <3>1. obj[o].age \in Int /\ obj[p].age \in Int
      BY <1>3, ObjFacts
    <3>2. PICK a \in Int, b \in Int : a = obj[o].age /\ b = obj[p].age
      BY <3>1
    <3>3. Filled(a, rate, b) \in Int /\ (a >= 0 /\ b >= 0 => Filled(a, rate, b) >= 0)
      BY FilledFacts
    <3> QED
      BY <3>2, <3>3
  <2> HIDE DEF age, k, n
  <2>4. Calm(Heap) => age >= 0
    BY <1>3, <2>3 DEF Calm, Fueled
  <2>5. Sound(Heap, k, {o})
    <3>1. /\ HeapOK(Heap) /\ Right(Heap, o) /\ ~Away(Heap.obj[o]) /\ moves \in Nat
          /\ Heap.obj[o].where # "none" /\ Heap.obj[o].kind \in {"lamp", "magic"}
      BY <1>1, <1>2, <1>3
    <3>2. ~Lit(Heap.obj[o])
      BY <1>3, <1>5
    <3>3. age \in Int
      BY <2>3
    <3> QED
      BY <2>2, <2>4, <3>1, <3>2, <3>3, LampFilled
  <2>6. /\ HeapOK(k) /\ k.obj[p] = Heap.obj[p] /\ FuelLeft(k, p) = FuelLeft(Heap, p)
        /\ Right(k, p)
    BY <1>2, <1>3, <2>5, Untouched DEF Sound
  <2>7. /\ Sound(k, n, {p})
        /\ \/ n.obj[p] = NoObj
           \/ n.obj[p].kind = k.obj[p].kind /\ FuelLeft(n, p) = FuelLeft(k, p)
    BY <1>2, <1>3, <2>2, <2>6, UsedUpOne
  <2>8. Accounts(n, p, p, {o})
    BY <1>2, <1>3, <2>6, <2>7, NoObjIsObj DEF Accounts
  <2>9. Accounts(n, o, p, {o})
    BY DEF Accounts
  <2> DEFINE S == {o, p}
  <2>10. Sound(Heap, n, S)
    <3>1. Sound(Heap, n, {o} \cup {p})
      BY <1>3, <2>5, <2>7, SoundAgain
    <3>2. {o} \cup {p} = {o, p}
      OBVIOUS
    <3> QED
      BY <3>1, <3>2
  <2>11. /\ S \in SUBSET Slots /\ Sound(Heap, n, S) /\ \A q \in S : ~Away(obj[q])
         /\ {o} \in SUBSET S /\ \A q \in S : Accounts(n, q, p, {o})
    BY <1>2, <2>8, <2>9, <2>10
  <2> HIDE DEF S
  <2> QED
    BY <2>1, <2>11, BecomesKeeps
<1> QED
  BY <1>4, <1>5 DEF FillLamp, Lit

(* A change of place leaves timers and light sources alone.                *)
LEMMA Relocated ==
  ASSUME Inv, NEW S \in SUBSET Slots, \A p \in S : ~Away(obj[p]) /\ obj[p].where # "none",
         NEW to \in Places, NEW l \in Levels, to = "migr" \/ l = level,
         obj' = [p \in Slots |-> IF p \in S THEN At(obj[p], to, l) ELSE obj[p]],
         phase = "play", UNCHANGED <<timers, lights, impossible, Elapsed, fuel, late>>
  PROVE  Inv'
<1> DEFINE m == [Heap EXCEPT !.obj = obj']
<1>1. /\ HeapOK(Heap) /\ Heap.obj = obj /\ moves \in Nat /\ Heap = HeapAt(level)
      /\ \A p \in Slots : Sane(obj[p]) /\ obj[p] \in Obj
      /\ \A p \in Slots : ~Away(obj[p]) => Right(Heap, p)
      /\ Heap.timers = timers /\ Heap.lights = lights /\ Heap.impossible = impossible
  BY InvFacts
<1>2. \A p \in S : At(obj[p], to, l) \in Obj
  BY <1>1, AtFacts
<1>3. obj' \in [Slots -> Obj]
  BY <1>1, <1>2
<1>4. /\ HeapOK(m) /\ m.obj = obj' /\ m.timers = timers /\ m.lights = lights
      /\ m.impossible = impossible
  BY <1>1, <1>3, HeapFacts DEF HeapOK, HeapType
<1> HIDE DEF m
<1>5. /\ \A p : HasTimer(m, p) <=> HasTimer(Heap, p)
      /\ \A p : Expiry(m, p) = Expiry(Heap, p)
      /\ \A p : TimersFor(m, p) = TimersFor(Heap, p)
      /\ Overdue(m) <=> Overdue(Heap)
  BY <1>1, <1>4 DEF HasTimer, Expiry, TimerOf, TimersFor, Overdue
<1>6. \A p \in Slots \ S : m.obj[p] = obj[p]
  BY <1>4
<1>7. Only(Heap, m, S)
  BY <1>1, <1>4, <1>5, <1>6 DEF Only
<1>8. ASSUME NEW p \in S
      PROVE  /\ Right(m, p) /\ ~Away(m.obj[p]) /\ FuelLeft(m, p) = FuelLeft(Heap, p)
             /\ m.obj[p].kind = obj[p].kind /\ (Fueled(obj[p]) => Fueled(m.obj[p]))
  <2>1. m.obj[p] = At(obj[p], to, l) /\ Sane(obj[p]) /\ obj[p].where # "none"
    BY <1>1, <1>4
  <2> DEFINE c == m.obj[p]  b == obj[p]
  <2>2. /\ Sane(c) /\ ~Away(c) /\ c.kind = b.kind /\ c.age = b.age
        /\ (Burns(c) <=> Burns(b)) /\ (Fueled(b) => Fueled(c))
    BY <2>1, AtFacts
  <2>3. c.lit = b.lit
    BY <2>1, AtFacts
  <2>4. Right(m, p)
    BY <1>1, <1>4, <1>5, <2>2, <2>3 DEF Right
  <2>5. FuelLeft(m, p) = FuelLeft(Heap, p)
    BY <1>1, <1>5, <2>2 DEF FuelLeft
  <2> QED
    BY <2>2, <2>4, <2>5
<1>9. Calmly(Heap, m)
  <2>1. Calm(Heap) => \A p \in Slots : Fueled(m.obj[p])
    BY <1>1, <1>6, <1>8 DEF Calm
  <2> QED
    BY <1>1, <1>4, <1>5, <2>1 DEF Calm, Calmly
<1>10. Sound(Heap, m, S)
  BY <1>4, <1>7, <1>8, <1>9 DEF Sound
<1>11. SetHeap(m) /\ UNCHANGED Elapsed
  BY <1>4 DEF SetHeap
<1>12. fuel' \in [Slots -> Int] /\ late' \in BOOLEAN
  BY DEF Inv, Typed
<1>13. \A p \in Slots : m.obj[p].where # "none" /\ m.obj[p].kind # "magic" =>
         fuel'[p] = IF p \in S THEN FuelLeft(m, p) ELSE fuel[p]
  <2> SUFFICES ASSUME NEW p \in S, m.obj[p].kind # "magic" PROVE fuel[p] = FuelLeft(m, p)
    OBVIOUS
  <2>1. Home(obj[p]) = level
    BY DEF Home
  <2>2. fuel[p] = FuelLeft(Heap, p)
    BY <1>1, <1>8, <2>1 DEF Inv, Metered
  <2> QED
    BY <1>8, <2>2
<1>14. ~late' => /\ ~late /\ m.impossible = impossible /\ \A p \in S : Fueled(m.obj[p])
                 /\ phase = "play" => ~Overdue(m)
  BY <1>4, <1>5, <1>8 DEF Inv, Quiet
<1> QED
  BY <1>10, <1>11, <1>12, <1>13, <1>14, SoundKeeps, SMTT(90)

LEMMA FallDownKeeps ==
  ASSUME Inv, NEW o \in Slots, FallDown(o)
  PROVE  Inv'
<1>1. /\ phase = "play" /\ obj[o].where = "inv"
      /\ UNCHANGED <<timers, lights, impossible, Elapsed, fuel, late>>
  BY DEF FallDown, HeroActs, Carried
<1>2. PICK l \in Levels : obj' = [obj EXCEPT ![o].where = "migr", ![o].lev = l]
  BY DEF FallDown
<1>3. obj \in [Slots -> Obj]
  BY InvFacts
<1>4. PICK to \in Places : to = "migr"
  BY DEF Places
<1>5. obj' = [p \in Slots |-> IF p \in {o} THEN At(obj[p], to, l) ELSE obj[p]]
  BY <1>2, <1>3, <1>4 DEF At
<1>6. \A p \in {o} : ~Away(obj[p]) /\ obj[p].where # "none"
  BY <1>1 DEF Away
<1> QED
  BY <1>1, <1>4, <1>5, <1>6, Relocated

LEMMA MonsterTakesKeeps ==
  ASSUME Inv, NEW o \in Slots, MonsterTakes(o)
  PROVE  Inv'
<1>1. /\ phase = "play" /\ Here(o) /\ obj' = [obj EXCEPT ![o].where = "minv", ![o].lev = level]
      /\ UNCHANGED <<timers, lights, impossible, Elapsed, fuel, late>>
  BY DEF MonsterTakes, Exposed
<1>2. obj \in [Slots -> Obj] /\ level \in Levels
  BY InvFacts
<1>3. PICK to \in Places : to = "minv"
  BY DEF Places
<1>4. obj' = [p \in Slots |-> IF p \in {o} THEN At(obj[p], to, level) ELSE obj[p]]
  BY <1>1, <1>2, <1>3 DEF At
<1>5. \A p \in {o} : ~Away(obj[p]) /\ obj[p].where # "none"
  BY <1>1, NearBy
<1>6. phase = "play" /\ UNCHANGED <<timers, lights, impossible, Elapsed, fuel, late>>
  BY <1>1
<1> DEFINE S == {o}
<1>7. /\ S \in SUBSET Slots /\ \A p \in S : ~Away(obj[p]) /\ obj[p].where # "none"
      /\ obj' = [p \in Slots |-> IF p \in S THEN At(obj[p], to, level) ELSE obj[p]]
  BY <1>4, <1>5
<1> HIDE DEF S
<1> QED
  BY <1>2, <1>6, <1>7, Relocated

LEMMA MonsterDiesKeeps ==
  ASSUME Inv, MonsterDies
  PROVE  Inv'
<1> DEFINE S == {o \in Slots : Here(o) /\ obj[o].where = "minv"}
<1>1. /\ phase = "play" /\ UNCHANGED <<timers, lights, impossible, Elapsed, fuel, late>>
  BY DEF MonsterDies
<1>2. obj' = [o \in Slots |-> IF o \in S THEN [obj[o] EXCEPT !.where = "floor"] ELSE obj[o]]
  BY DEF MonsterDies
<1>3. obj \in [Slots -> Obj] /\ level \in Levels
  BY InvFacts
<1>4. PICK to \in Places : to = "floor"
  BY DEF Places
<1>5. \A o \in S : [obj[o] EXCEPT !.where = "floor"] = At(obj[o], to, level)
  BY <1>3, <1>4 DEF At, Here, Obj
<1>6. obj' = [o \in Slots |-> IF o \in S THEN At(obj[o], to, level) ELSE obj[o]]
  BY <1>2, <1>5
<1>7. \A p \in S : ~Away(obj[p]) /\ obj[p].where # "none"
  BY NearBy
<1>8. S \in SUBSET Slots
  OBVIOUS
<1> HIDE DEF S
<1> QED
  BY <1>1, <1>3, <1>6, <1>7, <1>8, Relocated

(* run_timers() takes the first timer off the queue.                       *)
Popping(t) == [Heap EXCEPT !.timers = Tail(@), !.obj[t.o].timed = @ - 1]
LEMMA TimerPopped ==
  ASSUME Inv, Due, NEW t, t = Head(timers),
         NEW m, m = Popping(t)
  PROVE  /\ t.o \in Slots /\ t.at \in Int /\ t.at <= moves /\ moves \in Nat
         /\ HeapOK(m) /\ Only(Heap, m, {t.o}) /\ Popped(m, t.o) /\ m.impossible = impossible
         /\ ~Away(obj[t.o]) /\ Lit(obj[t.o]) /\ obj[t.o].kind # "magic"
         /\ obj[t.o].where # "none"
         /\ SameThing(m.obj[t.o], obj[t.o]) /\ m.obj[t.o].age = obj[t.o].age
         /\ FuelLeft(Heap, t.o) = obj[t.o].age + (t.at - moves)
         /\ Overdue(Heap)
<1>0. PICK o, at : o = t.o /\ at = t.at
  OBVIOUS
<1> DEFINE b == obj[o]
<1>1. /\ HeapOK(Heap) /\ Heap.obj = obj /\ moves \in Nat /\ Heap = HeapAt(level)
      /\ Heap.timers = timers /\ Heap.lights = lights /\ Heap.impossible = impossible
      /\ obj \in [Slots -> Obj] /\ level \in Levels
  BY InvFacts
<1>2. /\ Proper(timers) /\ timers # <<>> /\ at <= moves
  BY <1>0, <1>1, HeapFacts DEF Due
<1>3. /\ t \in Entries(timers) /\ t \in Timer /\ Proper(Tail(timers))
      /\ Entries(Tail(timers)) = Entries(timers) \ {t}
  BY <1>2, FirstRemoved
<1>4. o \in Slots /\ at \in Int
  BY <1>0, <1>3 DEF Timer
<1>5. HasTimer(Heap, o)
  BY <1>0, <1>1, <1>3 DEF HasTimer, Entries
<1>6. ~Away(b)
  <2>1. Settled(level)
    BY <1>1 DEF Inv
  <2>2. level = Home(b)
    BY <1>1, <1>4, <1>5, <2>1 DEF Settled, Dark
  <2> QED
    BY <2>2 DEF Home, Away
<1>7. Right(Heap, o)
  BY <1>4, <1>6, InvFacts
<1>8. /\ b \in Obj /\ Burns(b) /\ Sane(b) /\ b.timed = 1 /\ lights[o] = 1 /\ b.where # "none"
      /\ b.quan > 0 /\ b.kind # "magic" /\ Lit(b)
  <2>1. b \in Obj /\ Burns(b) /\ Sane(b) /\ Lit(b) /\ b.kind # "magic"
    BY <1>1, <1>5, <1>7 DEF Right, Sane, Burns, Lit
  <2>2. b.where # "none"
    BY <2>1, NoObjIsObj DEF Sane, Lit
  <2> QED
    BY <1>1, <1>7, <2>1, <2>2 DEF Right, Sane, Burns
<1>9. TimersFor(Heap, o) = {t}
  <2>1. TimersFor(Heap, o) = {[o |-> o, at |-> Expiry(Heap, o)]}
    BY <1>1, <1>2, <1>4, <1>5, Timed
  <2>2. t \in TimersFor(Heap, o)
    BY <1>0, <1>1, <1>3 DEF TimersFor
  <2> QED
    BY <2>1, <2>2
<1>10. Expiry(Heap, o) = at
  <2>1. t = [o |-> o, at |-> at]
    BY <1>0, <1>3 DEF Timer
  <2>2. TimersFor(Heap, o) = {[o |-> o, at |-> at]} /\ Proper(Heap.timers)
    BY <1>1, <1>2, <1>9, <2>1
  <2> QED
    BY <1>4, <2>2, OneTimer
<1>11. FuelLeft(Heap, o) = b.age + (at - moves)
  BY <1>1, <1>5, <1>10 DEF FuelLeft
<1> DEFINE c == [b EXCEPT !.timed = 0]
           k == [obj |-> obj, timers |-> Tail(timers), lights |-> lights,
                 impossible |-> impossible]
<1>12. /\ c \in Obj /\ c.kind = b.kind /\ c.where = b.where /\ c.lev = b.lev /\ c.quan = b.quan
       /\ c.spe = b.spe /\ c.age = b.age /\ c.timed = 0
  BY <1>8 DEF Obj
<1>13. c.lit = b.lit
  BY <1>8 DEF Obj
<1>14. c = [b EXCEPT !.timed = b.timed - 1]
  BY <1>8
<1>15. m = SetObj(k, o, c)
  <2>1. Heap = [obj |-> obj, timers |-> timers, lights |-> lights, impossible |-> impossible]
    BY DEF Heap
  <2>2. m = [Heap EXCEPT !.timers = Tail(timers),
                         !.obj = [obj EXCEPT ![o] = [b EXCEPT !.timed = b.timed - 1]]]
    BY <1>0, <1>1, <2>1 DEF Popping
  <2> HIDE DEF b
  <2>3. m = [Heap EXCEPT !.timers = Tail(timers), !.obj = [obj EXCEPT ![o] = c]]
    BY <1>14, <2>2
  <2> HIDE DEF c
  <2>4. m = [obj |-> [obj EXCEPT ![o] = c], timers |-> Tail(timers), lights |-> lights,
             impossible |-> impossible]
    BY <2>1, <2>3
  <2>5. k = [obj |-> obj, timers |-> Tail(timers), lights |-> lights,
             impossible |-> impossible]
    OBVIOUS
  <2> HIDE DEF k
  <2>6. k.obj = obj
    BY <2>5
  <2>7. [k EXCEPT !.obj = [k.obj EXCEPT ![o] = c]] = m
    <3>1. PICK f, tail : f = [obj EXCEPT ![o] = c] /\ tail = Tail(timers)
      OBVIOUS
    <3>2. k = [obj |-> obj, timers |-> tail, lights |-> lights, impossible |-> impossible]
      BY <2>5, <3>1
    <3>3. [k EXCEPT !.obj = f]
            = [obj |-> f, timers |-> tail, lights |-> lights, impossible |-> impossible]
      BY <3>2
    <3> QED
      BY <2>4, <2>6, <3>1, <3>3
  <2> QED
    BY <2>7 DEF SetObj
<1>16. HeapOK(k)
  <2>1. lights \in [Slots -> Nat] /\ impossible \in SUBSET Complaints /\ Tail(timers) \in Seq(Timer)
    BY <1>3, InvFacts DEF Proper
  <2> QED
    BY <1>1, <1>3, <2>1 DEF HeapOK, HeapType
<1>17. k.timers = Tail(timers) /\ k.obj = obj /\ k.lights = lights /\ k.impossible = impossible
  OBVIOUS
<1>b. b = obj[o]
  OBVIOUS
<1> HIDE DEF c, k, b
<1>18. /\ HeapOK(m) /\ m.timers = Tail(timers) /\ m.lights = lights
       /\ m.impossible = impossible
       /\ \A p \in Slots : m.obj[p] = IF p = o THEN c ELSE obj[p]
  <2>1. c \in Obj /\ o \in Slots
    BY <1>4, <1>12
  <2>2. /\ HeapOK(m) /\ m.timers = k.timers /\ m.lights = k.lights
        /\ m.impossible = k.impossible
        /\ \A p \in Slots : m.obj[p] = IF p = o THEN c ELSE k.obj[p]
    BY <1>15, <1>16, <2>1, ObjSet
  <2> QED
    BY <1>17, <2>2
<1>19. m.obj[o] = c
  BY <1>4, <1>18
<1>20. Only(Heap, m, {o})
  <2>1. \A p \in Slots \ {o} : TimersFor(m, p) = TimersFor(Heap, p)
    BY <1>0, <1>1, <1>3, <1>18 DEF TimersFor
  <2> QED
    BY <1>1, <1>18, <2>1 DEF Only
<1>21. ~HasTimer(m, o)
  <2>1. TimersFor(m, o) = {}
    BY <1>0, <1>1, <1>3, <1>9, <1>18 DEF TimersFor
  <2> QED
    BY <1>3, <1>4, <1>18, <2>1, Timed
<1>22. Popped(m, o)
  <2>1. Burns(c)
    BY <1>8, <1>12, <1>13 DEF Burns
  <2>2. c.kind # "thinoil" /\ (c.kind = "oil" => c.age = 0)
    BY <1>8, <1>12 DEF Sane, Lit
  <2> QED
    BY <1>8, <1>12, <1>18, <1>19, <1>21, <2>1, <2>2 DEF Popped
<1>23. SameThing(m.obj[o], b) /\ m.obj[o].age = b.age
  BY <1>12, <1>19 DEF SameThing
<1>24. Overdue(Heap)
  BY <1>0, <1>1, <1>2, <1>3 DEF Overdue
<1> QED
  BY <1>0, <1>1, <1>2, <1>4, <1>6, <1>8, <1>11, <1>18, <1>20, <1>22, <1>23, <1>24, <1>b

Rest(x) == Max({x, 0})
LEMMA RestFacts ==
  ASSUME NEW x \in Int
  PROVE  Rest(x) \in Int /\ (x <= 0 => Rest(x) = 0)
<1>1. \E z \in {x, 0} : \A u \in {x, 0} : u <= z
  BY SMT
<1>2. Max({x, 0}) \in {x, 0} /\ \A u \in {x, 0} : u <= Max({x, 0})
  BY <1>1 DEF Max
<1> QED
  BY <1>2 DEF Rest

LEMMA RunTimerKeeps ==
  ASSUME Inv, RunTimer
  PROVE  Inv'
<1> DEFINE t == Head(timers)
           m == Popping(t)
           n == BurnObject(m, t.o, t.at)
           Spent(o) == IF obj'[o].where = "none" THEN 0
                       ELSE IF ~obj'[o].lit /\ obj[o].lit THEN Max({fuel[o], 0})
                       ELSE fuel[o]
<1>1. /\ phase = "timers" /\ Due /\ SetHeap(n) /\ UNCHANGED Elapsed /\ late' = late
      /\ fuel' = [o \in Slots |-> Spent(o)]
  BY DEF RunTimer, Popping
<1>2. t = Head(timers) /\ n = BurnObject(m, t.o, t.at)
      /\ m = Popping(t)
  OBVIOUS
<1>a. \A p : Spent(p) = IF obj'[p].where = "none" THEN 0
                      ELSE IF ~Lit(obj'[p]) /\ Lit(obj[p]) THEN Rest(fuel[p]) ELSE fuel[p]
  BY DEF Lit, Rest
<1> HIDE DEF t, m, n, Spent
<1>0. PICK o, at : o = t.o /\ at = t.at
  OBVIOUS
<1> DEFINE b == obj[o]
<1>3. /\ o \in Slots /\ at \in Int /\ at <= moves /\ moves \in Nat
      /\ HeapOK(m) /\ Only(Heap, m, {o}) /\ Popped(m, o) /\ m.impossible = impossible
      /\ ~Away(b) /\ Lit(b) /\ b.kind # "magic" /\ b.where # "none"
      /\ SameThing(m.obj[o], b) /\ m.obj[o].age = b.age
      /\ FuelLeft(Heap, o) = b.age + (at - moves)
      /\ Overdue(Heap)
  BY <1>0, <1>1, <1>2, TimerPopped
<1>4. /\ HeapOK(n) /\ Only(m, n, {o}) /\ Right(n, o) /\ n.impossible = m.impossible
      /\ \/ n.obj[o] = NoObj
         \/ /\ n.obj[o].kind = m.obj[o].kind /\ n.obj[o].where = m.obj[o].where
            /\ n.obj[o].lev = m.obj[o].lev /\ n.obj[o].quan = m.obj[o].quan
            /\ n.obj[o].age >= 0
            /\ \/ /\ Lit(n.obj[o])
                  /\ FuelLeft(n, o) = m.obj[o].age + (at - moves)
               \/ /\ ~Lit(n.obj[o]) /\ n.obj[o].age = 0
                  /\ m.obj[o].age + (at - moves) <= 0
                  /\ n.obj[o].kind = "lamp" \/ (n.obj[o].kind = "menorah" /\ n.obj[o].spe = 0)
  <2>1. n = BurnObject(m, o, at)
    BY <1>0, <1>2
  <2> QED
    BY <1>3, <2>1, ObjectBurned
<1>5. Only(Heap, n, {o})
  BY <1>3, <1>4 DEF Only
<1>6. ~Away(n.obj[o])
  BY <1>3, <1>4, NoObjIsObj DEF Away, SameThing
<1>7. Sound(Heap, n, {o})
  BY <1>3, <1>4, <1>5, <1>6 DEF Sound, Calmly, Calm
<1>8. obj' = n.obj /\ n.obj \in [Slots -> Obj] /\ obj \in [Slots -> Obj]
  BY <1>1, <1>4, HeapFacts, InvFacts DEF SetHeap
<1>9. \A p \in Slots : fuel[p] \in Int
  BY DEF Inv, Typed
<1>10. \A p \in Slots : Rest(fuel[p]) \in Int /\ (fuel[p] <= 0 => Rest(fuel[p]) = 0)
  BY <1>9, RestFacts
<1>11. \A p \in Slots :
         fuel'[p] = IF n.obj[p].where = "none" THEN 0
                    ELSE IF ~Lit(n.obj[p]) /\ Lit(obj[p]) THEN Rest(fuel[p]) ELSE fuel[p]
  BY <1>1, <1>8, <1>a
<1>12. fuel' \in [Slots -> Int]
  <2>1. \A p \in Slots : fuel'[p] \in Int
    BY <1>9, <1>10, <1>11
  <2>2. fuel' = [p \in Slots |-> Spent(p)]
    BY <1>1
  <2>3. \A p \in Slots : Spent(p) \in Int
    BY <2>1, <2>2
  <2> QED
    BY <2>2, <2>3
<1>13. fuel[o] = b.age + (at - moves)
  <2>1. Home(b) = level /\ Heap = HeapAt(level)
    BY <1>3, InvFacts DEF Home
  <2> QED
    BY <1>3, <2>1 DEF Inv, Metered
<1>14. ASSUME NEW p \in Slots, n.obj[p].where # "none", n.obj[p].kind # "magic"
       PROVE  fuel'[p] = IF p \in {o} THEN FuelLeft(n, p) ELSE fuel[p]
  <2>1. CASE p # o
    <3>1. n.obj[p] = obj[p]
      BY <1>5, <2>1, InvFacts DEF Only
    <3> QED
      BY <1>11, <1>14, <2>1, <3>1
  <2>2. CASE p = o /\ Lit(n.obj[o])
    <3>1. FuelLeft(n, o) = b.age + (at - moves)
      BY <1>3, <1>4, <2>2, NoObjIsObj DEF Lit
    <3> QED
      BY <1>11, <1>13, <1>14, <2>2, <3>1
  <2>3. CASE p = o /\ ~Lit(n.obj[o])
    <3>1. n.obj[o] # NoObj
      BY <1>14, <2>3, NoObjIsObj
    <3>2. n.obj[o].age = 0 /\ b.age + (at - moves) <= 0
      BY <1>3, <1>4, <2>3, <3>1
    <3>3. FuelLeft(n, o) = 0
      <4>1. ~Burns(n.obj[o])
        BY <2>3 DEF Burns, Lit
      <4> QED
        BY <1>3, <1>4, <3>2, <4>1, Burned
    <3>4. Rest(fuel[o]) = 0
      BY <1>3, <1>10, <1>13, <3>2
    <3> QED
      BY <1>3, <1>11, <1>14, <2>3, <3>3, <3>4
  <2> QED
    BY <2>1, <2>2, <2>3
<1>15. Fueled(n.obj[o])
  BY <1>4, NoObjIsObj DEF Fueled, Needs
<1>16. late' \in BOOLEAN /\ \A p \in {o} : ~Away(obj[p])
  BY <1>1, <1>3 DEF Inv, Typed
<1>17. ~late' => /\ ~late /\ n.impossible = impossible /\ \A p \in {o} : Fueled(n.obj[p])
                 /\ phase = "play" => ~Overdue(n)
  BY <1>1, <1>3, <1>4, <1>15
<1> DEFINE S == {o}
<1>18. /\ S \in SUBSET Slots /\ Sound(Heap, n, S) /\ \A p \in S : ~Away(obj[p])
       /\ \A p \in Slots : n.obj[p].where # "none" /\ n.obj[p].kind # "magic" =>
            fuel'[p] = IF p \in S THEN FuelLeft(n, p) ELSE fuel[p]
       /\ ~late' => /\ ~late /\ n.impossible = impossible /\ \A p \in S : Fueled(n.obj[p])
                    /\ phase = "play" => ~Overdue(n)
  BY <1>3, <1>7, <1>14, <1>16, <1>17
<1>19. SetHeap(n) /\ UNCHANGED Elapsed /\ late' \in BOOLEAN
  BY <1>1, <1>16
<1> HIDE DEF S
<1> QED
  BY <1>12, <1>18, <1>19, SoundKeeps, SMTT(90)

(* Nothing happens to the objects, their timers and their light sources.   *)
LEMMA HeapsStay ==
  ASSUME UNCHANGED <<heap, elsewhere, level>>
  PROVE  /\ \A l \in Levels : HeapAt(l)' = HeapAt(l)
         /\ \A b : (Away(b)' <=> Away(b)) /\ Home(b)' = Home(b)
         /\ \A l \in Levels : Settled(l)' <=> Settled(l)
         /\ Heap' = Heap
<1>1. /\ obj' = obj /\ timers' = timers /\ lights' = lights /\ impossible' = impossible
      /\ elsewhere' = elsewhere /\ level' = level
  BY DEF heap
<1>2. \A l \in Levels : HeapAt(l)' = HeapAt(l)
  BY <1>1 DEF HeapAt, QueueAt, LightsAt
<1>3. \A b : (Away(b)' <=> Away(b)) /\ Home(b)' = Home(b)
  BY <1>1 DEF Away, Home
<1>4. \A l \in Levels : Settled(l)' <=> Settled(l)
  <2> TAKE l \in Levels
  <2>1. HeapAt(l)' = HeapAt(l)
    BY <1>2
  <2>2. \A o : Home(obj[o])' = Home(obj[o])
    BY <1>1, <1>3
  <2> QED
    BY <2>1, <2>2 DEF Settled
<1>5. Heap' = Heap
  BY <1>1 DEF Heap
<1> QED
  BY <1>2, <1>3, <1>4, <1>5

LEMMA Idle ==
  ASSUME Inv, UNCHANGED <<heap, elsewhere, moves, level, fuel>>, praying' \in 0 .. 3,
         phase' \in {"play", "arrive", "timers"}, late' = late,
         ~late /\ phase' = "play" => ~Overdue(Heap)
  PROVE  Inv'
<1>1. /\ obj' = obj /\ impossible' = impossible /\ elsewhere' = elsewhere /\ level' = level
      /\ moves' = moves /\ fuel' = fuel
  BY DEF heap
<1>2. /\ \A l \in Levels : HeapAt(l)' = HeapAt(l)
      /\ \A b : (Away(b)' <=> Away(b)) /\ Home(b)' = Home(b)
      /\ \A l \in Levels : Settled(l)' <=> Settled(l)
      /\ Heap' = Heap
  BY HeapsStay
<1>3. Typed'
  BY <1>1 DEF Inv, Typed, NothingSaved
<1>4. \A l \in Levels : Settled(l)'
  BY <1>2 DEF Inv
<1>5. Metered'
  <2>1. \A h, p : FuelLeft(h, p)' = FuelLeft(h, p)
    BY <1>1 DEF FuelLeft
  <2> SUFFICES ASSUME NEW o \in Slots, obj[o].where # "none", obj[o].kind # "magic"
               PROVE  FuelLeft(HeapAt(Home(obj[o])), o)' = fuel[o]
    BY <1>1 DEF Metered
  <2>2. PICK l \in Levels : l = Home(obj[o])
    BY InvFacts
  <2>3. Home(obj[o])' = l
    BY <1>1, <1>2, <2>2
  <2>4. HeapAt(l)' = HeapAt(l)
    BY <1>2
  <2>5. FuelLeft(HeapAt(l), o) = fuel[o]
    BY <2>2 DEF Inv, Metered
  <2> QED
    BY <2>1, <2>3, <2>4, <2>5
<1>6. Quiet'
  <2>1. \A h : Overdue(h)' <=> Overdue(h)
    BY <1>1 DEF Overdue
  <2>2. Overdue(Heap)' <=> Overdue(Heap)
    BY <1>2, <2>1
  <2> QED
    BY <1>1, <2>2 DEF Inv, Quiet
<1> QED
  BY <1>3, <1>4, <1>5, <1>6 DEF Inv

LEMMA PrayKeeps ==
  ASSUME Inv, Pray
  PROVE  Inv'
<1>1. phase' = phase /\ phase = "play"
  BY DEF Pray, HeroActs
<1>2. ~late => ~Overdue(Heap)
  BY <1>1 DEF Inv, Quiet
<1> QED
  BY <1>1, <1>2, Idle DEF Pray

LEMMA DeliveredKeeps ==
  ASSUME Inv, Delivered
  PROVE  Inv'
<1>1. praying \in 0 .. 3
  BY DEF Inv, Typed
<1> QED
  BY <1>1, Idle DEF Delivered

LEMMA TimersRunKeeps ==
  ASSUME Inv, TimersRun
  PROVE  Inv'
<1>1. praying \in 0 .. 3
  BY DEF Inv, Typed
<1>2. ~Overdue(Heap)
  <2> SUFFICES ASSUME NEW t \in Entries(timers), t.at <= moves PROVE FALSE
    BY InvFacts DEF Overdue
  <2>1. Proper(timers) /\ moves \in Nat
    BY InvFacts, HeapFacts
  <2>2. timers # <<>>
    BY DEF Entries
  <2>3. Head(timers).at <= t.at /\ Head(timers) \in Timer /\ t \in Timer
    BY <2>1, <2>2, FirstRemoved, ProperFacts, SMTT(30) DEF Entries
  <2>4. Head(timers).at <= moves
    BY <2>1, <2>3 DEF Timer
  <2> QED
    BY <2>2, <2>4 DEF TimersRun, Due
<1> QED
  BY <1>1, <1>2, Idle DEF TimersRun

LEMMA PassTurnKeeps ==
  ASSUME Inv, PassTurn
  PROVE  Inv'
<1>1. /\ obj' = obj /\ timers' = timers /\ impossible' = impossible /\ elsewhere' = elsewhere
      /\ level' = level /\ moves' = moves + 1 /\ phase = "play"
      /\ UNCHANGED <<heap, elsewhere, level>>
  BY DEF PassTurn, heap
<1>2. /\ \A l \in Levels : HeapAt(l)' = HeapAt(l)
      /\ \A b : (Away(b)' <=> Away(b)) /\ Home(b)' = Home(b)
      /\ \A l \in Levels : Settled(l)' <=> Settled(l)
      /\ Heap' = Heap
  BY <1>1, HeapsStay
<1>3. \A l \in Levels : Settled(l)'
  BY <1>2 DEF Inv
<1>4. moves \in Nat /\ praying \in 0 .. 3 /\ late \in BOOLEAN /\ \A o \in Slots : fuel[o] \in Int
  BY DEF Inv, Typed
<1> DEFINE Burnt(o) == IF obj[o].lit /\ obj[o].kind # "magic" THEN fuel[o] - 1 ELSE fuel[o]
<1>5. fuel' = [o \in Slots |-> Burnt(o)]
  BY DEF PassTurn, Burn
<1>6. \A o : Burnt(o) = IF Burns(obj[o]) THEN fuel[o] - 1 ELSE fuel[o]
  BY DEF Burns
<1> HIDE DEF Burnt
<1>7. fuel' \in [Slots -> Int]
  <2>1. \A o \in Slots : Burnt(o) \in Int
    BY <1>4, <1>6
  <2> QED
    BY <1>5, <2>1
<1>8. \/ /\ praying > 0 /\ praying' = praying - 1 /\ phase' = phase
         /\ late' = (late \/ \E i \in DOMAIN timers : timers[i].at <= moves')
      \/ phase' = "timers" /\ praying' = praying /\ late' = late
  BY DEF PassTurn
<1>9. praying' \in 0 .. 3 /\ late' \in BOOLEAN /\ phase' \in {"play", "arrive", "timers"}
      /\ moves' \in Nat
  <2>1. praying' \in 0 .. 3
    <3>1. PICK k \in 0 .. 3 : k = praying
      BY <1>4
    <3>2. (k > 0 /\ praying' = k - 1) \/ praying' = k
      BY <1>8, <3>1
    <3> QED
      BY <3>2
  <2>2. late' \in BOOLEAN
    BY <1>4, <1>8
  <2>3. phase' \in {"play", "arrive", "timers"}
    BY <1>1, <1>8
  <2>4. moves' \in Nat
    BY <1>1, <1>4
  <2> QED
    BY <2>1, <2>2, <2>3, <2>4
<1>10. Typed'
  BY <1>1, <1>7, <1>9 DEF Inv, Typed, NothingSaved
<1>11. Metered'
  <2> SUFFICES ASSUME NEW o \in Slots, obj[o].where # "none", obj[o].kind # "magic"
               PROVE  FuelLeft(HeapAt(Home(obj[o])), o)' = fuel'[o]
    BY <1>1 DEF Metered
  <2>1. PICK l \in Levels : l = Home(obj[o])
    BY InvFacts
  <2>2. PICK h : h = HeapAt(l)
    OBVIOUS
  <2>3. FuelLeft(HeapAt(Home(obj[o])), o)' = FuelLeft(h, o)'
    <3>1. Home(obj[o])' = l
      BY <1>1, <1>2, <2>1
    <3>2. HeapAt(l)' = h
      BY <1>2, <2>2
    <3> QED
      BY <3>1, <3>2
  <2>4. FuelLeft(h, o) = fuel[o] /\ HeapOK(h) /\ Right(h, o) /\ h.obj = obj
    BY <2>1, <2>2 DEF Inv, Metered, Settled, HeapAt
  <2>5. FuelLeft(h, o) = h.obj[o].age + (IF HasTimer(h, o) THEN Expiry(h, o) - moves ELSE 0)
    BY DEF FuelLeft
  <2>6. FuelLeft(h, o)' = h.obj[o].age + (IF HasTimer(h, o) THEN Expiry(h, o) - (moves + 1) ELSE 0)
    BY <1>1 DEF FuelLeft
  <2>7. HasTimer(h, o) <=> Burns(obj[o])
    BY <2>4 DEF Right
  <2>8. HasTimer(h, o) => Expiry(h, o) \in Int
    BY <2>4, Timed DEF HeapOK
  <2>9. h.obj[o].age \in Int
    BY <2>4, HeapFacts, ObjFacts
  <2>10. fuel'[o] = IF Burns(obj[o]) THEN fuel[o] - 1 ELSE fuel[o]
    BY <1>5, <1>6
  <2> QED
    <3>1. PICK a \in Int, f \in Int, now \in Nat : a = h.obj[o].age /\ f = fuel[o] /\ now = moves
      BY <1>4, <2>9
    <3>2. CASE HasTimer(h, o)
      <4>1. PICK e \in Int : e = Expiry(h, o)
        BY <2>8, <3>2
      <4>2. f = a + (e - now)
        BY <2>4, <2>5, <3>1, <3>2, <4>1
      <4>3. FuelLeft(h, o)' = a + (e - (now + 1))
        BY <2>6, <3>1, <3>2, <4>1
      <4>4. fuel'[o] = f - 1
        BY <2>7, <2>10, <3>1, <3>2
      <4> QED
        BY <2>3, <4>2, <4>3, <4>4
    <3>3. CASE ~HasTimer(h, o)
      <4>1. f = a + 0 /\ FuelLeft(h, o)' = a + 0
        BY <2>4, <2>5, <2>6, <3>1, <3>3
      <4>2. fuel'[o] = f
        BY <2>7, <2>10, <3>1, <3>3
      <4> QED
        BY <2>3, <4>1, <4>2
    <3> QED
      BY <3>2, <3>3
<1>12. Quiet'
  <2> SUFFICES ASSUME ~late'
               PROVE  /\ impossible = {} /\ \A o \in Slots : Fueled(obj[o])
                      /\ phase' = "play" => ~Overdue(Heap)'
    BY <1>1 DEF Quiet
  <2>1. impossible = {} /\ \A o \in Slots : Fueled(obj[o])
    BY <1>8 DEF Inv, Quiet
  <2>2. ASSUME phase' = "play" PROVE ~Overdue(Heap)'
    <3>1. ~ \E i \in DOMAIN timers : timers[i].at <= moves'
      BY <1>8, <2>2
    <3>2. Heap'.timers = timers
      BY <1>2, InvFacts
    <3> QED
      BY <3>1, <3>2 DEF Overdue, Entries
  <2> QED
    BY <2>1, <2>2
<1> QED
  BY <1>3, <1>10, <1>11, <1>12 DEF Inv

----------------------------------------------------------------------------
(* goto_level(): where an object is at home then, and what is kept for each*)
(* level.                                                                  *)
HomeThen(o, l, local) ==
  IF o \in local THEN level ELSE IF Home(obj[o]) = level THEN l ELSE Home(obj[o])
QueueThen(k, l, local) ==
  IF k = l THEN InsertTimers(Those(timers, Slots \ local), elsewhere[l].timers)
  ELSE IF k = level THEN Those(timers, local) ELSE elsewhere[k].timers
LightsThen(k, l, local) ==
  IF k = l THEN [o \in Slots |-> (IF o \in local THEN 0 ELSE lights[o]) + elsewhere[l].lights[o]]
  ELSE IF k = level THEN [o \in Slots |-> IF o \in local THEN lights[o] ELSE 0]
  ELSE elsewhere[k].lights

LEMMA AtOneLevel ==
  ASSUME Inv, NEW k \in Levels
  PROVE  /\ HeapOK(HeapAt(k)) /\ Proper(HeapAt(k).timers) /\ HeapAt(k).obj = obj
         /\ HeapAt(k).timers = QueueAt(k) /\ HeapAt(k).lights = LightsAt(k)
         /\ HeapAt(k).lights \in [Slots -> Nat]
         /\ \A o \in Slots : k # Home(obj[o]) =>
              TimersFor(HeapAt(k), o) = {} /\ HeapAt(k).lights[o] = 0
         /\ \A o \in Slots : k = Home(obj[o]) => Right(HeapAt(k), o)
<1>1. Settled(k)
  BY DEF Inv
<1>2. HeapOK(HeapAt(k)) /\ Proper(HeapAt(k).timers) /\ HeapAt(k).lights \in [Slots -> Nat]
  BY <1>1, HeapFacts DEF Settled
<1>3. HeapAt(k).obj = obj /\ HeapAt(k).timers = QueueAt(k) /\ HeapAt(k).lights = LightsAt(k)
  BY DEF HeapAt
<1>4. ASSUME NEW o \in Slots, k # Home(obj[o])
      PROVE  TimersFor(HeapAt(k), o) = {} /\ HeapAt(k).lights[o] = 0
  <2>1. Dark(HeapAt(k), o)
    BY <1>1, <1>4 DEF Settled
  <2> QED
    BY <1>2, <2>1, Timed DEF Dark
<1>5. \A o \in Slots : k = Home(obj[o]) => Right(HeapAt(k), o)
  BY <1>1 DEF Settled
<1> QED
  BY <1>2, <1>3, <1>4, <1>5

LEMMA QueuesThen ==
  ASSUME Inv, NEW l \in Levels, l # level, NEW local \in SUBSET Slots,
         \A o \in local : Home(obj[o]) = level
  PROVE  \A k \in Levels :
           /\ Proper(QueueThen(k, l, local))
           /\ \A o \in Slots : {t \in Entries(QueueThen(k, l, local)) : t.o = o}
                = IF k = HomeThen(o, l, local) THEN TimersFor(HeapAt(Home(obj[o])), o) ELSE {}
<1> TAKE k \in Levels
<1> DEFINE q == QueueThen(k, l, local)
           stay == Those(timers, local)
           go == Those(timers, Slots \ local)
           here == elsewhere[l].timers
           Of(o) == TimersFor(HeapAt(Home(obj[o])), o)
<1>1. level \in Levels /\ \A o \in Slots : Home(obj[o]) \in Levels
  BY InvFacts
<1>2. HeapAt(level).timers = timers /\ Proper(timers)
  BY <1>1, InvFacts, HeapFacts
<1>3. \A j \in Levels : j # level => HeapAt(j).timers = elsewhere[j].timers
                                      /\ Proper(elsewhere[j].timers)
  BY AtOneLevel DEF QueueAt
<1>4. \A j \in Levels : \A o \in Slots :
        {t \in Entries(HeapAt(j).timers) : t.o = o} = IF j = Home(obj[o]) THEN Of(o) ELSE {}
  BY AtOneLevel DEF TimersFor
<1>5. \A o \in Slots : {t \in Entries(timers) : t.o = o} = IF Home(obj[o]) = level THEN Of(o) ELSE {}
  BY <1>1, <1>2, <1>4
<1>6. \A j \in Levels : j # level => \A o \in Slots :
        {t \in Entries(elsewhere[j].timers) : t.o = o} = IF j = Home(obj[o]) THEN Of(o) ELSE {}
  BY <1>3, <1>4
<1> HIDE DEF Of
<1>7. Proper(stay) /\ Entries(stay) = {t \in Entries(timers) : t.o \in local}
  BY <1>2, ThoseKept
<1>8. Proper(go) /\ Entries(go) = {t \in Entries(timers) : t.o \in Slots \ local}
  BY <1>2, ThoseKept
<1>9. CASE k = l
  <2>1. q = InsertTimers(go, here) /\ Proper(here)
    BY <1>3, <1>9 DEF QueueThen
  <2>2. \A o \in Slots : ~(HasIn(go, o) /\ HasIn(here, o))
    <3> SUFFICES ASSUME NEW o \in Slots, HasIn(go, o), HasIn(here, o) PROVE FALSE
      OBVIOUS
    <3>1. {t \in Entries(timers) : t.o = o} # {}
      BY <1>8 DEF HasIn, Entries
    <3>2. {t \in Entries(here) : t.o = o} # {}
      BY DEF HasIn, Entries
    <3> QED
      BY <1>5, <1>6, <3>1, <3>2
  <2>3. Proper(q) /\ Entries(q) = Entries(go) \cup Entries(here)
    BY <1>8, <2>1, <2>2, TimersMerged
  <2> HIDE DEF q, go, here
  <2>4. ASSUME NEW o \in Slots
        PROVE  {t \in Entries(q) : t.o = o} = IF k = HomeThen(o, l, local) THEN Of(o) ELSE {}
    <3>1. {t \in Entries(here) : t.o = o} = IF l = Home(obj[o]) THEN Of(o) ELSE {}
      BY <1>6 DEF here
    <3>2. {t \in Entries(go) : t.o = o}
            = IF o \in local THEN {} ELSE {t \in Entries(timers) : t.o = o}
      BY <1>8
    <3>3. {t \in Entries(q) : t.o = o}
            = {t \in Entries(go) : t.o = o} \cup {t \in Entries(here) : t.o = o}
      BY <2>3
    <3> QED
      BY <1>5, <1>9, <3>1, <3>2, <3>3 DEF HomeThen
  <2> QED
    BY <2>3, <2>4 DEF Of, q
<1>10. CASE k = level
  <2>1. q = stay
    BY <1>10 DEF QueueThen
  <2>2. ASSUME NEW o \in Slots
        PROVE  {t \in Entries(q) : t.o = o} = IF k = HomeThen(o, l, local) THEN Of(o) ELSE {}
    <3>1. {t \in Entries(stay) : t.o = o}
            = IF o \in local THEN {t \in Entries(timers) : t.o = o} ELSE {}
      BY <1>7
    <3> HIDE DEF q, stay
    <3> QED
      BY <1>5, <1>10, <2>1, <3>1 DEF HomeThen
  <2> QED
    BY <1>7, <2>1, <2>2 DEF Of
<1>11. CASE k # l /\ k # level
  <2>1. q = elsewhere[k].timers
    BY <1>11 DEF QueueThen
  <2>2. ASSUME NEW o \in Slots
        PROVE  {t \in Entries(q) : t.o = o} = IF k = HomeThen(o, l, local) THEN Of(o) ELSE {}
    <3> HIDE DEF q
    <3> QED
      BY <1>6, <1>11, <2>1 DEF HomeThen
  <2> QED
    BY <1>3, <1>11, <2>1, <2>2 DEF Of
<1> QED
  BY <1>9, <1>10, <1>11

LEMMA LightsAfter ==
  ASSUME Inv, NEW l \in Levels, l # level, NEW local \in SUBSET Slots,
         \A o \in local : Home(obj[o]) = level
  PROVE  \A k \in Levels :
           /\ LightsThen(k, l, local) \in [Slots -> Nat]
           /\ \A o \in Slots : LightsThen(k, l, local)[o]
                = IF k = HomeThen(o, l, local) THEN HeapAt(Home(obj[o])).lights[o] ELSE 0
<1> TAKE k \in Levels
<1> DEFINE Of(o) == HeapAt(Home(obj[o])).lights[o]
<1>1. level \in Levels /\ \A o \in Slots : Home(obj[o]) \in Levels
  BY InvFacts
<1>2. \A o \in Slots : Of(o) \in Nat
  <2> TAKE o \in Slots
  <2>1. PICK j \in Levels : j = Home(obj[o])
    BY <1>1
  <2> QED
    BY <2>1, AtOneLevel
<1>3. \A o \in Slots : lights[o] = IF Home(obj[o]) = level THEN Of(o) ELSE 0
  <2>1. HeapAt(level).lights = lights
    BY InvFacts
  <2> QED
    BY <1>1, <2>1, AtOneLevel
<1>4. \A j \in Levels : j # level =>
        /\ elsewhere[j].lights \in [Slots -> Nat]
        /\ \A o \in Slots : elsewhere[j].lights[o] = IF j = Home(obj[o]) THEN Of(o) ELSE 0
  <2> SUFFICES ASSUME NEW j \in Levels, j # level
               PROVE  /\ elsewhere[j].lights \in [Slots -> Nat]
                      /\ \A o \in Slots : elsewhere[j].lights[o] = IF j = Home(obj[o]) THEN Of(o) ELSE 0
    OBVIOUS
  <2>1. HeapAt(j).lights = elsewhere[j].lights
    BY AtOneLevel DEF LightsAt
  <2> QED
    BY <2>1, AtOneLevel
<1> HIDE DEF Of
<1>5. CASE k = l
  <2>1. LightsThen(k, l, local)
          = [o \in Slots |-> (IF o \in local THEN 0 ELSE lights[o]) + elsewhere[l].lights[o]]
    BY <1>5 DEF LightsThen
  <2>2. \A o \in Slots : (IF o \in local THEN 0 ELSE lights[o]) + elsewhere[l].lights[o]
           = IF k = HomeThen(o, l, local) THEN Of(o) ELSE 0
    BY <1>2, <1>3, <1>4, <1>5 DEF HomeThen
  <2> QED
    BY <1>2, <2>1, <2>2 DEF Of
<1>6. CASE k = level
  <2>1. LightsThen(k, l, local) = [o \in Slots |-> IF o \in local THEN lights[o] ELSE 0]
    BY <1>6 DEF LightsThen
  <2>2. \A o \in Slots : (IF o \in local THEN lights[o] ELSE 0)
           = IF k = HomeThen(o, l, local) THEN Of(o) ELSE 0
    BY <1>3, <1>6 DEF HomeThen
  <2> QED
    BY <1>2, <2>1, <2>2 DEF Of
<1>7. CASE k # l /\ k # level
  <2>1. LightsThen(k, l, local) = elsewhere[k].lights
    BY <1>7 DEF LightsThen
  <2> QED
    BY <1>4, <1>7, <2>1 DEF Of, HomeThen
<1> QED
  BY <1>5, <1>6, <1>7

(* A follower goes along; nothing else about an object changes.            *)
Follower(o) == Here(o) /\ obj[o].where = "minv"
LEMMA WhereThen ==
  ASSUME Inv, NEW l \in Levels, l # level, level' = l, NEW follows \in BOOLEAN,
         NEW local, local = {o \in Slots : IsLocal(o, follows)},
         obj' = [o \in Slots |-> IF Follower(o) /\ follows
                                 THEN [obj[o] EXCEPT !.lev = l] ELSE obj[o]]
  PROVE  /\ obj' \in [Slots -> Obj] /\ local \in SUBSET Slots
         /\ \A o \in local : Home(obj[o]) = level
         /\ \A o \in Slots : /\ Home(obj[o])' = HomeThen(o, l, local)
                             /\ Sane(obj'[o]) /\ obj'[o].kind = obj[o].kind
                             /\ obj'[o].where = obj[o].where /\ obj'[o].age = obj[o].age
                             /\ obj'[o].lit = obj[o].lit
                             /\ Burns(obj'[o]) <=> Burns(obj[o])
                             /\ Fueled(obj[o]) => Fueled(obj'[o])
<1>1. obj \in [Slots -> Obj] /\ level \in Levels /\ \A o \in Slots : Sane(obj[o])
  BY InvFacts
<1>2. local \in SUBSET Slots
  OBVIOUS
<1>3. \A o : o \in local <=> o \in Slots /\ IsLocal(o, follows)
  OBVIOUS
<1>4. \A o \in Slots : obj'[o] = IF Follower(o) /\ follows THEN [obj[o] EXCEPT !.lev = l] ELSE obj[o]
  OBVIOUS
<1>5. \A o \in local : Home(obj[o]) = level
  BY <1>3 DEF IsLocal, Home, Away
<1>6. ASSUME NEW o \in Slots
      PROVE  /\ Sane(obj'[o]) /\ obj'[o] \in Obj /\ obj'[o].kind = obj[o].kind
             /\ obj'[o].where = obj[o].where /\ obj'[o].age = obj[o].age
             /\ obj'[o].lit = obj[o].lit
             /\ Burns(obj'[o]) <=> Burns(obj[o])
             /\ Fueled(obj[o]) => Fueled(obj'[o])
             /\ obj'[o].lev = IF Follower(o) /\ follows THEN l ELSE obj[o].lev
  <2>1. CASE ~(Follower(o) /\ follows)
    <3>1. obj'[o] = obj[o]
      BY <1>4, <2>1
    <3> QED
      BY <1>1, <2>1, <3>1
  <2>2. CASE Follower(o) /\ follows
    <3>1. PICK b : b = obj[o]
      OBVIOUS
    <3>2. PICK c : c = obj'[o]
      OBVIOUS
    <3>3. c = [b EXCEPT !.lev = l] /\ b \in Obj /\ Sane(b) /\ b.where # "none"
      BY <1>1, <1>4, <2>2, <3>1, <3>2 DEF Follower
    <3>4. /\ c \in Obj /\ c.kind = b.kind /\ c.where = b.where /\ c.lev = l /\ c.quan = b.quan
          /\ c.spe = b.spe /\ c.age = b.age /\ c.timed = b.timed
      BY <3>3 DEF Obj
    <3>5. c.lit = b.lit
      BY <3>3 DEF Obj
    <3>6. (Burns(c) <=> Burns(b)) /\ (Lit(c) <=> Lit(b))
      BY <3>4, <3>5 DEF Burns, Lit
    <3>7. Sane(c)
      <4>1. c.timed = IF Burns(c) THEN 1 ELSE 0
        BY <3>3, <3>4, <3>6 DEF Sane
      <4>2. (c.kind = "oil" /\ c.lit) => c.age = 0
        BY <3>3, <3>4, <3>5 DEF Sane
      <4> QED
        BY <3>3, <3>4, <4>1, <4>2 DEF Sane
    <3>8. Fueled(b) => Fueled(c)
      BY <3>4, <3>6 DEF Fueled, Needs
    <3> QED
      BY <2>2, <3>1, <3>2, <3>4, <3>5, <3>6, <3>7, <3>8
  <2> QED
    BY <2>1, <2>2
<1>7. ASSUME NEW o \in Slots PROVE Home(obj[o])' = HomeThen(o, l, local)
  <2>1. PICK b : b = obj[o]
    OBVIOUS
  <2>2. Home(obj[o])' = IF b.where \in {"floor", "minv"} /\ (IF Follower(o) /\ follows THEN l ELSE b.lev) # l
                        THEN IF Follower(o) /\ follows THEN l ELSE b.lev ELSE l
    BY <1>6, <2>1 DEF Home, Away
  <2>3. Home(obj[o]) = IF b.where \in {"floor", "minv"} /\ b.lev # level THEN b.lev ELSE level
    BY <2>1 DEF Home, Away
  <2>4. Follower(o) <=> b.where = "minv" /\ b.lev = level
    BY <2>1 DEF Follower, Here
  <2>5. o \in local <=> /\ b.where = "floor" \/ (b.where = "minv" /\ ~follows)
                        /\ b.lev = level
    BY <1>3, <2>1 DEF IsLocal
  <2> QED
    BY <2>2, <2>3, <2>4, <2>5 DEF HomeThen
<1>8. obj' \in [Slots -> Obj]
  <2>1. \A o \in Slots : (IF Follower(o) /\ follows THEN [obj[o] EXCEPT !.lev = l] ELSE obj[o]) \in Obj
    BY <1>4, <1>6
  <2> QED
    BY <2>1
<1> QED
  BY <1>2, <1>5, <1>6, <1>7, <1>8

LEMMA GotoLevelKeeps ==
  ASSUME Inv, NEW l \in Levels, GotoLevel(l)
  PROVE  Inv'
<1>1. /\ l # level /\ level' = l /\ phase' = "arrive" /\ impossible' = impossible
      /\ moves' = moves /\ praying' = praying /\ fuel' = fuel /\ late' = late
  BY DEF GotoLevel
<1>2. PICK follows \in BOOLEAN :
        LET local == {o \in Slots : IsLocal(o, follows)} IN
        /\ elsewhere' =
             [elsewhere EXCEPT
                ![level] = [timers |-> Those(timers, local),
                            lights |-> [o \in Slots |-> IF o \in local THEN lights[o] ELSE 0]],
                ![l] = NothingSaved]
        /\ timers' = InsertTimers(Those(timers, Slots \ local), elsewhere[l].timers)
        /\ lights' = [o \in Slots |-> (IF o \in local THEN 0 ELSE lights[o])
                                        + elsewhere[l].lights[o]]
        /\ obj' = [o \in Slots |-> IF Here(o) /\ obj[o].where = "minv" /\ follows
                                   THEN [obj[o] EXCEPT !.lev = l] ELSE obj[o]]
  BY DEF GotoLevel
<1>3. PICK local : local = {o \in Slots : IsLocal(o, follows)}
  OBVIOUS
<1>4. /\ elsewhere' =
           [elsewhere EXCEPT
              ![level] = [timers |-> Those(timers, local),
                          lights |-> [o \in Slots |-> IF o \in local THEN lights[o] ELSE 0]],
              ![l] = NothingSaved]
      /\ timers' = InsertTimers(Those(timers, Slots \ local), elsewhere[l].timers)
      /\ lights' = [o \in Slots |-> (IF o \in local THEN 0 ELSE lights[o])
                                      + elsewhere[l].lights[o]]
  BY <1>2, <1>3
<1>5. obj' = [o \in Slots |-> IF Follower(o) /\ follows
                              THEN [obj[o] EXCEPT !.lev = l] ELSE obj[o]]
  BY <1>2 DEF Follower
<1>6. /\ obj' \in [Slots -> Obj] /\ local \in SUBSET Slots
      /\ \A o \in local : Home(obj[o]) = level
      /\ \A o \in Slots : /\ Home(obj[o])' = HomeThen(o, l, local)
                          /\ Sane(obj'[o]) /\ obj'[o].kind = obj[o].kind
                          /\ obj'[o].where = obj[o].where /\ obj'[o].age = obj[o].age
                          /\ obj'[o].lit = obj[o].lit
                          /\ Burns(obj'[o]) <=> Burns(obj[o])
                          /\ Fueled(obj[o]) => Fueled(obj'[o])
  BY <1>1, <1>3, <1>5, WhereThen
<1>7. /\ elsewhere \in [Levels -> Saved] /\ level \in Levels /\ moves \in Nat
      /\ impossible \in SUBSET Complaints
      /\ \A o \in Slots : Home(obj[o]) \in Levels
  BY InvFacts DEF Inv, Typed
<1>8. \A k \in Levels :
        elsewhere'[k] = IF k = l THEN NothingSaved
                        ELSE IF k = level THEN [timers |-> Those(timers, local),
                               lights |-> [o \in Slots |-> IF o \in local THEN lights[o] ELSE 0]]
                        ELSE elsewhere[k]
  BY <1>1, <1>4, <1>7
<1>9. \A k \in Levels : QueueAt(k)' = QueueThen(k, l, local)
  <2> TAKE k \in Levels
  <2>1. QueueAt(k)' = IF k = l THEN timers' ELSE elsewhere'[k].timers
    BY <1>1 DEF QueueAt
  <2>2. CASE k = l
    BY <1>4, <2>1, <2>2 DEF QueueThen
  <2>3. CASE k # l /\ k = level
    <3>1. elsewhere'[k] = [timers |-> Those(timers, local),
                           lights |-> [o \in Slots |-> IF o \in local THEN lights[o] ELSE 0]]
      BY <1>8, <2>3
    <3>2. elsewhere'[k].timers = Those(timers, local)
      BY <3>1
    <3>3. QueueThen(k, l, local) = Those(timers, local)
      BY <2>3 DEF QueueThen
    <3> QED
      BY <2>1, <2>3, <3>2, <3>3
  <2>4. CASE k # l /\ k # level
    <3>1. elsewhere'[k] = elsewhere[k]
      BY <1>8, <2>4
    <3>2. QueueThen(k, l, local) = elsewhere[k].timers
      BY <2>4 DEF QueueThen
    <3> QED
      BY <2>1, <2>4, <3>1, <3>2
  <2> QED
    BY <2>2, <2>3, <2>4
<1>10. \A k \in Levels : LightsAt(k)' = LightsThen(k, l, local)
  <2> TAKE k \in Levels
  <2>1. LightsAt(k)' = IF k = l THEN lights' ELSE elsewhere'[k].lights
    BY <1>1 DEF LightsAt
  <2>2. CASE k = l
    BY <1>4, <2>1, <2>2 DEF LightsThen
  <2>3. CASE k # l /\ k = level
    <3>1. elsewhere'[k] = [timers |-> Those(timers, local),
                           lights |-> [o \in Slots |-> IF o \in local THEN lights[o] ELSE 0]]
      BY <1>8, <2>3
    <3>2. elsewhere'[k].lights = [o \in Slots |-> IF o \in local THEN lights[o] ELSE 0]
      BY <3>1
    <3>3. LightsThen(k, l, local) = [o \in Slots |-> IF o \in local THEN lights[o] ELSE 0]
      BY <2>3 DEF LightsThen
    <3> QED
      BY <2>1, <2>3, <3>2, <3>3
  <2>4. CASE k # l /\ k # level
    <3>1. elsewhere'[k] = elsewhere[k]
      BY <1>8, <2>4
    <3>2. LightsThen(k, l, local) = elsewhere[k].lights
      BY <2>4 DEF LightsThen
    <3> QED
      BY <2>1, <2>4, <3>1, <3>2
  <2> QED
    BY <2>2, <2>3, <2>4
<1>11. \A k \in Levels :
         /\ Proper(QueueThen(k, l, local))
         /\ \A o \in Slots : {t \in Entries(QueueThen(k, l, local)) : t.o = o}
              = IF k = HomeThen(o, l, local) THEN TimersFor(HeapAt(Home(obj[o])), o) ELSE {}
  <2>1. l # level /\ \A o \in local : Home(obj[o]) = level
    BY <1>1, <1>6
  <2>2. local \in SUBSET Slots
    BY <1>6
  <2> QED
    BY <2>1, <2>2, QueuesThen, SMTT(60)
<1>12. \A k \in Levels :
         /\ LightsThen(k, l, local) \in [Slots -> Nat]
         /\ \A o \in Slots : LightsThen(k, l, local)[o]
              = IF k = HomeThen(o, l, local) THEN HeapAt(Home(obj[o])).lights[o] ELSE 0
  BY <1>1, <1>6, LightsAfter
<1>13. PICK objs : objs = obj'
  OBVIOUS
<1> DEFINE G(k) == [obj |-> objs, timers |-> QueueThen(k, l, local),
                    lights |-> LightsThen(k, l, local), impossible |-> impossible]
<1>14. \A k \in Levels : HeapAt(k)' = G(k)
  BY <1>1, <1>9, <1>10, <1>13 DEF HeapAt
<1>15. \A k \in Levels : /\ HeapOK(G(k)) /\ G(k).obj = objs
                         /\ G(k).lights = LightsThen(k, l, local)
                         /\ G(k).timers = QueueThen(k, l, local)
  <2> TAKE k \in Levels
  <2>1. G(k).obj = objs /\ G(k).lights = LightsThen(k, l, local)
        /\ G(k).timers = QueueThen(k, l, local)
    OBVIOUS
  <2>2. QueueThen(k, l, local) \in Seq(Timer) /\ Proper(QueueThen(k, l, local))
    BY <1>11 DEF Proper
  <2>3. G(k) \in HeapType
    BY <1>6, <1>7, <1>12, <1>13, <2>2 DEF HeapType
  <2> QED
    BY <2>1, <2>2, <2>3 DEF HeapOK
<1> HIDE DEF G
<1>16. \A o \in Slots : HomeThen(o, l, local) \in Levels
  BY <1>7 DEF HomeThen
(* What is at home on k then has there what it had where it was at home.   *)
<1>17. ASSUME NEW o \in Slots, NEW k \in Levels, k = HomeThen(o, l, local),
              NEW j \in Levels, j = Home(obj[o])
       PROVE  /\ HasTimer(G(k), o) <=> HasTimer(HeapAt(j), o)
              /\ HasTimer(HeapAt(j), o) => Expiry(G(k), o) = Expiry(HeapAt(j), o)
              /\ G(k).lights[o] = HeapAt(j).lights[o]
  <2>1. TimersFor(G(k), o) = TimersFor(HeapAt(j), o)
    BY <1>11, <1>15, <1>17 DEF TimersFor
  <2>2. Proper(G(k).timers) /\ Proper(HeapAt(j).timers)
    BY <1>15, AtOneLevel DEF HeapOK
  <2>3. G(k).lights[o] = HeapAt(j).lights[o]
    BY <1>12, <1>15, <1>17
  <2> QED
    BY <2>1, <2>2, <2>3, SameTimers
<1>18. ASSUME NEW k \in Levels, NEW o \in Slots
       PROVE  IF k = HomeThen(o, l, local) THEN Right(G(k), o) ELSE Dark(G(k), o)
  <2>1. CASE k # HomeThen(o, l, local)
    <3>1. TimersFor(G(k), o) = {} /\ G(k).lights[o] = 0
      BY <1>11, <1>12, <1>15, <2>1 DEF TimersFor
    <3> QED
      BY <1>15, <2>1, <3>1, Timed DEF Dark, HeapOK
  <2>2. CASE k = HomeThen(o, l, local)
    <3>1. PICK j \in Levels : j = Home(obj[o])
      BY <1>7
    <3>2. /\ HasTimer(G(k), o) <=> HasTimer(HeapAt(j), o)
          /\ G(k).lights[o] = HeapAt(j).lights[o]
      BY <1>17, <2>2, <3>1
    <3>3. Right(HeapAt(j), o) /\ HeapAt(j).obj = obj
      BY <3>1, AtOneLevel
    <3>4. G(k).obj[o] = objs[o] /\ Sane(objs[o]) /\ (Burns(objs[o]) <=> Burns(obj[o]))
      BY <1>6, <1>13, <1>15
    <3>5. objs[o].lit = obj[o].lit
      BY <1>6, <1>13
    <3>6. Right(G(k), o)
      BY <3>2, <3>3, <3>4, <3>5 DEF Right
    <3> QED
      BY <2>2, <3>6
  <2> QED
    BY <2>1, <2>2
<1>19. \A k \in Levels : Settled(k)'
  <2> TAKE k \in Levels
  <2>1. HeapAt(k)' = G(k)
    BY <1>14
  <2>2. \A o \in Slots : IF k = Home(obj[o])' THEN Right(G(k), o) ELSE Dark(G(k), o)
    BY <1>6, <1>18
  <2> QED
    BY <1>15, <2>1, <2>2 DEF Settled
<1>20. Metered'
  <2> SUFFICES ASSUME NEW o \in Slots, obj'[o].where # "none", obj'[o].kind # "magic"
               PROVE  FuelLeft(HeapAt(Home(obj[o])), o)' = fuel[o]
    BY <1>1 DEF Metered
  <2>1. PICK k \in Levels, j \in Levels : k = HomeThen(o, l, local) /\ j = Home(obj[o])
    BY <1>7, <1>16
  <2>2. \A h : FuelLeft(h, o)' = FuelLeft(h, o)
    BY <1>1 DEF FuelLeft
  <2>3. FuelLeft(HeapAt(Home(obj[o])), o)' = FuelLeft(G(k), o)
    <3>1. Home(obj[o])' = k
      BY <1>6, <2>1
    <3>2. HeapAt(k)' = G(k)
      BY <1>14
    <3> QED
      BY <2>2, <3>1, <3>2
  <2>4. FuelLeft(HeapAt(j), o) = fuel[o]
    BY <1>6, <2>1 DEF Inv, Metered
  <2>5. G(k).obj[o].age = HeapAt(j).obj[o].age
    BY <1>6, <1>13, <1>15, AtOneLevel
  <2>6. FuelLeft(G(k), o) = FuelLeft(HeapAt(j), o)
    BY <1>17, <2>1, <2>5 DEF FuelLeft
  <2> QED
    BY <2>3, <2>4, <2>6
<1>21. Typed'
  <2>1. elsewhere' \in [Levels -> Saved]
    <3>1. NothingSaved \in Saved
      BY DEF NothingSaved, Saved
    <3>2. level \in Levels /\ Those(timers, local) = QueueThen(level, l, local)
          /\ [o \in Slots |-> IF o \in local THEN lights[o] ELSE 0] = LightsThen(level, l, local)
      BY <1>1, <1>7 DEF QueueThen, LightsThen
    <3>3. [timers |-> Those(timers, local),
           lights |-> [o \in Slots |-> IF o \in local THEN lights[o] ELSE 0]] \in Saved
      BY <1>11, <1>12, <3>2 DEF Saved, Proper
    <3> QED
      BY <1>4, <1>7, <3>1, <3>3
  <2>2. elsewhere'[l] = NothingSaved /\ NothingSaved' = NothingSaved
    BY <1>8 DEF NothingSaved
  <2> QED
    BY <1>1, <2>1, <2>2 DEF Inv, Typed
<1>22. Quiet'
  BY <1>1, <1>6 DEF Inv, Quiet
<1> QED
  BY <1>19, <1>20, <1>21, <1>22 DEF Inv

----------------------------------------------------------------------------
(* The invariant holds.  It needs one thing of the game: diluted oil, which*)
(* a slimed monster can light a second time, is not among the belongings.  *)
NoDilutedOil == \A b \in Belongings, o \in Slots : b[o].kind # "thinoil"

LEMMA InitKeeps ==
  ASSUME NoDilutedOil, Init
  PROVE  Inv
<1>1. /\ obj \in Belongings /\ timers = <<>> /\ lights = [o \in Slots |-> 0]
      /\ impossible = {} /\ level = NoObj.lev /\ moves = 1 /\ phase = "play" /\ praying = 0
      /\ fuel = [o \in Slots |-> obj[o].age]
  BY DEF Init
<1>2. late = FALSE
  BY DEF Init
<1>3. elsewhere = [l \in Levels |-> NothingSaved]
  BY DEF Init, NothingSaved
<1>4. level \in Levels
  BY <1>1, NoObjIsObj, ObjFacts
<1>5. obj \in [Slots -> Obj]
  BY <1>1, BelongingsAssumption
<1>6. \A o \in Slots : Sane(obj[o])
  <2> TAKE o \in Slots
  <2>1. obj[o] \in Obj /\ obj[o].kind # "thinoil"
    BY <1>1, <1>5 DEF NoDilutedOil
  <2>2. CASE obj[o] = NoObj
    BY <2>1, <2>2, NoObjIsObj DEF Sane, Burns
  <2>3. CASE obj[o] # NoObj
    <3>1. obj[o].where = "inv" /\ obj[o].quan > 0 /\ ~obj[o].lit /\ obj[o].timed = 0
      BY <1>1, <2>3, BelongingsAssumption
    <3> QED
      BY <2>1, <3>1 DEF Sane, Burns
  <2> QED
    BY <2>2, <2>3
<1>7. \A o \in Slots : ~obj[o].lit
  <2> TAKE o \in Slots
  <2>1. CASE obj[o] = NoObj
    BY <2>1, NoObjIsObj
  <2>2. CASE obj[o] # NoObj
    BY <1>1, <2>2, BelongingsAssumption
  <2> QED
    BY <2>1, <2>2
<1>8. \A o \in Slots : Fueled(obj[o]) /\ Home(obj[o]) = level
  <2> TAKE o \in Slots
  <2>1. CASE obj[o] = NoObj
    BY <2>1, NoObjIsObj DEF Fueled, Home, Away
  <2>2. CASE obj[o] # NoObj
    <3>1. /\ obj[o].where = "inv" /\ obj[o].age >= 0
          /\ (obj[o].kind = "candle" \/ (obj[o].kind = "menorah" /\ obj[o].spe > 0)
                => obj[o].age > 0)
      BY <1>1, <2>2, BelongingsAssumption
    <3> QED
      BY <3>1 DEF Fueled, Needs, Home, Away
  <2> QED
    BY <2>1, <2>2
<1>9. NothingSaved.timers = <<>> /\ NothingSaved.lights = [o \in Slots |-> 0]
      /\ NothingSaved \in Saved
  BY DEF NothingSaved, Saved
<1>10. \A k \in Levels : QueueAt(k) = <<>> /\ LightsAt(k) = [o \in Slots |-> 0]
  BY <1>1, <1>3, <1>9 DEF QueueAt, LightsAt
<1>11. Proper(<<>>)
  BY DEF Proper
<1>12. \A k \in Levels :
         /\ HeapOK(HeapAt(k)) /\ HeapAt(k).obj = obj
         /\ \A o \in Slots : HeapAt(k).lights[o] = 0 /\ ~HasTimer(HeapAt(k), o)
  <2> TAKE k \in Levels
  <2>1. HeapAt(k).obj = obj /\ HeapAt(k).timers = <<>> /\ HeapAt(k).lights = [o \in Slots |-> 0]
    BY <1>10 DEF HeapAt
  <2>2. HeapAt(k) \in HeapType
    <3>1. <<>> \in Seq(Timer) /\ [o \in Slots |-> 0] \in [Slots -> Nat] /\ {} \in SUBSET Complaints
      OBVIOUS
    <3>2. HeapAt(k) = [obj |-> obj, timers |-> <<>>, lights |-> [o \in Slots |-> 0],
                       impossible |-> {}]
      BY <1>1, <1>10 DEF HeapAt
    <3> QED
      BY <1>5, <3>1, <3>2 DEF HeapType
  <2>3. HeapOK(HeapAt(k))
    BY <1>11, <2>1, <2>2 DEF HeapOK
  <2>4. DOMAIN HeapAt(k).timers = {}
    BY <2>1
  <2>5. \A o \in Slots : ~HasTimer(HeapAt(k), o)
    BY <2>4 DEF HasTimer
  <2> QED
    BY <2>1, <2>3, <2>5
<1>13. \A k \in Levels : Settled(k)
  <2> TAKE k \in Levels
  <2>1. \A o \in Slots : Dark(HeapAt(k), o)
    BY <1>12 DEF Dark
  <2>2. \A o \in Slots : Right(HeapAt(k), o)
    BY <1>6, <1>7, <1>12 DEF Right, Burns
  <2> QED
    BY <1>12, <2>1, <2>2 DEF Settled
<1>14. Metered
  <2>1. ASSUME NEW o \in Slots PROVE FuelLeft(HeapAt(level), o) = obj[o].age
    <3>1. obj[o].age \in Int
      BY <1>5, ObjFacts
    <3> QED
      BY <1>4, <1>12, <3>1 DEF FuelLeft
  <2> QED
    BY <1>1, <1>8, <2>1 DEF Metered
<1>15. Typed
  <2>1. fuel \in [Slots -> Int]
    BY <1>1, <1>5, ObjFacts
  <2>2. elsewhere \in [Levels -> Saved] /\ elsewhere[level] = NothingSaved
    BY <1>3, <1>4, <1>9
  <2>3. late \in BOOLEAN
    BY <1>2
  <2> QED
    BY <1>1, <1>4, <2>1, <2>2, <2>3 DEF Typed
<1>16. Quiet
  <2>1. ~Overdue(Heap)
    BY <1>1 DEF Overdue, Entries, Heap
  <2> QED
    BY <1>1, <1>8, <2>1 DEF Quiet
<1> QED
  BY <1>13, <1>14, <1>15, <1>16 DEF Inv

(* Nothing changes: nothing is wrong.                                      *)
LEMMA StutterKeeps ==
  ASSUME Inv, UNCHANGED vars
  PROVE  Inv'
<1>1. /\ UNCHANGED <<heap, elsewhere, moves, level, fuel>>
      /\ phase' = phase /\ praying' = praying /\ late' = late
  BY DEF vars
<1>2. praying \in 0 .. 3 /\ phase \in {"play", "arrive", "timers"}
  BY DEF Inv, Typed
<1>3. ~late /\ phase = "play" => ~Overdue(Heap)
  BY DEF Inv, Quiet
<1> QED
  BY <1>1, <1>2, <1>3, Idle

LEMMA NextKeeps ==
  ASSUME Inv, [Next]_vars
  PROVE  Inv'
<1>1. CASE UNCHANGED vars
  BY <1>1, StutterKeeps
<1>2. ASSUME NEW o \in Slots, HeroAction(o) PROVE Inv'
  <2>1. ASSUME NEW p \in Slots, UseCandle(o, p) \/ FillLamp(o, p) PROVE Inv'
    BY <2>1, UseCandleKeeps, FillLampKeeps
  <2> QED
    BY <1>2, <2>1, UseLampKeeps, UseCandelabrumKeeps, LightCocktailKeeps, SnuffCocktailKeeps,
       DropKeeps, ThrowKeeps, PickUpKeeps, FallDownKeeps DEF HeroAction
<1>3. ASSUME NEW o \in Slots, WorldAction(o) PROVE Inv'
  BY <1>3, SnuffKeeps, CatchLitKeeps, DestroyKeeps, MonsterTakesKeeps, MonsterDrinksKeeps,
     DeliverKeeps DEF WorldAction
<1>4. ASSUME Time PROVE Inv'
  BY <1>4, PassTurnKeeps, PrayKeeps, RunTimerKeeps, TimersRunKeeps, DeliveredKeeps,
     MonsterDiesKeeps DEF Time
<1>5. ASSUME NEW l \in Levels, GotoLevel(l) PROVE Inv'
  BY <1>5, GotoLevelKeeps
<1> QED
  BY <1>1, <1>2, <1>3, <1>4, <1>5 DEF Next

LEMMA AlwaysInv ==
  ASSUME NoDilutedOil
  PROVE  Spec => []Inv
<1>1. Init => Inv
  BY InitKeeps
<1>2. Inv /\ [Next]_vars => Inv'
  BY NextKeeps
<1> QED
  BY <1>1, <1>2, PTL DEF Spec

----------------------------------------------------------------------------
(* The properties.                                                         *)

LEMMA QueuedAt ==
  ASSUME Inv, NEW l \in Levels
  PROVE  /\ Queued(l) = Entries(HeapAt(l).timers)
         /\ \A o \in Slots, t \in Queued(l) : t.o = o =>
              /\ l = Home(obj[o]) /\ Burns(obj[o]) /\ HasTimer(HeapAt(l), o)
              /\ t.at = Expiry(HeapAt(l), o)
<1>1. /\ HeapAt(l).timers = QueueAt(l) /\ Proper(HeapAt(l).timers) /\ HeapAt(l).obj = obj
      /\ \A o \in Slots : l # Home(obj[o]) => TimersFor(HeapAt(l), o) = {}
      /\ \A o \in Slots : l = Home(obj[o]) => Right(HeapAt(l), o)
  BY AtOneLevel
<1>2. Queued(l) = Entries(HeapAt(l).timers)
  BY <1>1 DEF Queued, Entries
<1>3. ASSUME NEW o \in Slots, NEW t \in Queued(l), t.o = o
      PROVE  /\ l = Home(obj[o]) /\ Burns(obj[o]) /\ HasTimer(HeapAt(l), o)
             /\ t.at = Expiry(HeapAt(l), o)
  <2>1. t \in TimersFor(HeapAt(l), o)
    BY <1>2, <1>3 DEF TimersFor
  <2>2. l = Home(obj[o])
    BY <1>1, <2>1
  <2>3. /\ HasTimer(HeapAt(l), o)
        /\ TimersFor(HeapAt(l), o) = {[o |-> o, at |-> Expiry(HeapAt(l), o)]}
    BY <1>1, <2>1, Timed
  <2>4. t = [o |-> o, at |-> Expiry(HeapAt(l), o)]
    BY <2>1, <2>3
  <2>5. t.at = Expiry(HeapAt(l), o)
    BY <2>4
  <2>6. Burns(obj[o])
    BY <1>1, <2>2, <2>3 DEF Right
  <2> QED
    BY <2>2, <2>3, <2>5, <2>6
<1> QED
  BY <1>2, <1>3

LEMMA TypesRight ==
  ASSUME Inv
  PROVE  TypeOK
<1>1. /\ obj \in [Slots -> Obj] /\ timers \in Seq(Timer) /\ lights \in [Slots -> Nat]
      /\ impossible \subseteq Complaints
  BY InvFacts
<1>2. Typed
  BY DEF Inv
<1> QED
  BY <1>1, <1>2 DEF Typed, TypeOK

LEMMA LightRight ==
  ASSUME Inv
  PROVE  LightIffLit
<1> SUFFICES ASSUME NEW o \in Slots
             PROVE  IF obj[o].lit
                    THEN \E l \in Levels : \A k \in Levels :
                           LightsAt(k)[o] = (IF k = l THEN 1 ELSE 0)
                    ELSE \A k \in Levels : LightsAt(k)[o] = 0
  BY DEF LightIffLit
<1>1. PICK l \in Levels : l = Home(obj[o])
  BY InvFacts
<1>2. \A k \in Levels : k # l => LightsAt(k)[o] = 0
  BY <1>1, AtOneLevel
<1>3. LightsAt(l)[o] = IF obj[o].lit THEN 1 ELSE 0
  <2>1. Right(HeapAt(l), o) /\ HeapAt(l).obj = obj /\ HeapAt(l).lights = LightsAt(l)
    BY <1>1, AtOneLevel
  <2> QED
    BY <2>1 DEF Right
<1> QED
  BY <1>2, <1>3

LEMMA TimerRight ==
  ASSUME Inv
  PROVE  TimerIffBurning
<1> SUFFICES ASSUME NEW o \in Slots
             PROVE  /\ obj[o].timed = (IF Burning(o) THEN 1 ELSE 0)
                    /\ Cardinality(TimersOf(o)) = obj[o].timed
  BY DEF TimerIffBurning
<1>1. PICK l \in Levels : l = Home(obj[o])
  BY InvFacts
<1>2. obj[o].timed = IF Burning(o) THEN 1 ELSE 0
  <2>1. Sane(obj[o])
    BY InvFacts
  <2> QED
    BY <2>1 DEF Sane, Burns, Burning
<1>3. /\ HasTimer(HeapAt(l), o) <=> Burning(o)
      /\ HeapAt(l).timers = QueueAt(l) /\ Proper(QueueAt(l))
  <2>1. Right(HeapAt(l), o) /\ HeapAt(l).obj = obj /\ HeapAt(l).timers = QueueAt(l)
        /\ Proper(HeapAt(l).timers)
    BY <1>1, AtOneLevel
  <2> QED
    BY <2>1 DEF Right, Burns, Burning
<1>4. \A k \in Levels : k # l => {j \in DOMAIN QueueAt(k) : QueueAt(k)[j].o = o} = {}
  <2> SUFFICES ASSUME NEW k \in Levels, k # l, NEW j \in DOMAIN QueueAt(k), QueueAt(k)[j].o = o
               PROVE  FALSE
    OBVIOUS
  <2>1. QueueAt(k)[j] \in Queued(k)
    BY DEF Queued
  <2> QED
    BY <1>1, <2>1, QueuedAt
<1>5. CASE Burning(o)
  <2>1. PICK i \in DOMAIN QueueAt(l) : QueueAt(l)[i].o = o
    BY <1>3, <1>5 DEF HasTimer
  <2>2. {j \in DOMAIN QueueAt(l) : QueueAt(l)[j].o = o} = {i}
    BY <1>3, <2>1 DEF Proper
  <2>3. TimersOf(o) = {<<l, i>>}
    BY <1>4, <2>2 DEF TimersOf
  <2> QED
    BY <1>2, <1>5, <2>3, FS_Singleton
<1>6. CASE ~Burning(o)
  <2>1. {j \in DOMAIN QueueAt(l) : QueueAt(l)[j].o = o} = {}
    BY <1>3, <1>6 DEF HasTimer
  <2>2. TimersOf(o) = {}
    BY <1>4, <2>1 DEF TimersOf
  <2> QED
    BY <1>2, <1>6, <2>2, FS_EmptySet
<1> QED
  BY <1>2, <1>5, <1>6

LEMMA NothingDangles ==
  ASSUME Inv
  PROVE  NothingDangling
<1>1. elsewhere[level] = NothingSaved
  BY DEF Inv, Typed
<1> SUFFICES ASSUME NEW l \in Levels, NEW o \in Slots,
                    LightsAt(l)[o] > 0 \/ (\E t \in Queued(l) : t.o = o)
             PROVE  IF l = level THEN obj[o].where = "migr" \/ Here(o)
                    ELSE obj[o].where \in {"floor", "minv"} /\ obj[o].lev = l
  BY <1>1 DEF NothingDangling
<1>2. l = Home(obj[o]) /\ obj[o].lit
  <2>1. CASE LightsAt(l)[o] > 0
    <3>1. l = Home(obj[o]) /\ HeapAt(l).lights = LightsAt(l) /\ HeapAt(l).obj = obj
      BY <2>1, AtOneLevel
    <3>2. Right(HeapAt(l), o)
      BY <3>1, AtOneLevel
    <3> QED
      BY <2>1, <3>1, <3>2 DEF Right
  <2>2. CASE \E t \in Queued(l) : t.o = o
    BY <2>2, QueuedAt DEF Burns
  <2> QED
    BY <2>1, <2>2
<1>3. obj[o].where # "none"
  <2>1. Sane(obj[o])
    BY InvFacts
  <2> QED
    BY <1>2, <2>1, NoObjIsObj DEF Sane
<1>4. obj[o].where \in {"none", "inv", "floor", "minv", "migr"}
  BY InvFacts, ObjFacts
<1> QED
  BY <1>2, <1>3, <1>4 DEF Home, Away, Here

LEMMA FuelRight ==
  ASSUME Inv
  PROVE  FuelAccounted
<1> SUFFICES ASSUME NEW o \in Slots, Exists(o), obj[o].kind # "magic"
             PROVE  IF obj[o].lit
                    THEN \A l \in Levels : \A t \in Queued(l) : t.o = o =>
                            obj[o].age + (t.at - moves) = fuel[o]
                    ELSE obj[o].age = fuel[o]
  BY DEF FuelAccounted
<1>1. PICK l \in Levels : l = Home(obj[o])
  BY InvFacts
<1>2. FuelLeft(HeapAt(l), o) = fuel[o]
  BY <1>1 DEF Inv, Metered, Exists
<1>3. /\ Right(HeapAt(l), o) /\ HeapAt(l).obj = obj
      /\ FuelLeft(HeapAt(l), o) = obj[o].age + (IF HasTimer(HeapAt(l), o)
                                                THEN Expiry(HeapAt(l), o) - moves ELSE 0)
  BY <1>1, AtOneLevel DEF FuelLeft
<1>4. CASE obj[o].lit
  <2> SUFFICES ASSUME NEW k \in Levels, NEW t \in Queued(k), t.o = o
               PROVE  obj[o].age + (t.at - moves) = fuel[o]
    BY <1>4
  <2>1. k = l /\ HasTimer(HeapAt(l), o) /\ t.at = Expiry(HeapAt(l), o)
    BY <1>1, QueuedAt
  <2> QED
    BY <1>2, <1>3, <2>1
<1>5. CASE ~obj[o].lit
  <2>1. ~HasTimer(HeapAt(l), o)
    BY <1>3, <1>5 DEF Right, Burns
  <2>2. obj[o].age \in Int
    BY InvFacts, ObjFacts
  <2> QED
    BY <1>2, <1>3, <1>5, <2>1, <2>2
<1> QED
  BY <1>4, <1>5

LEMMA PunctualAndQuiet ==
  ASSUME Inv
  PROVE  Punctual /\ NoImpossible
<1>1. NoImpossible
  BY DEF Inv, Quiet, NoImpossible
<1>2. ASSUME phase = "play", ~late, NEW t \in Queued(level) PROVE t.at > moves
  <2>1. /\ level \in Levels /\ moves \in Nat /\ Heap = HeapAt(level) /\ Heap.timers = timers
        /\ Proper(timers)
    BY InvFacts, HeapFacts
  <2>2. t \in Entries(timers)
    BY <2>1, QueuedAt
  <2>3. t.at \in Int
    BY <2>1, <2>2, ProperFacts DEF Entries
  <2>4. ~(t.at <= moves)
    BY <1>2, <2>1, <2>2 DEF Inv, Quiet, Overdue
  <2> QED
    BY <2>1, <2>3, <2>4
<1> QED
  BY <1>1, <1>2 DEF Punctual

(* Every queue, saved or in memory, holds timers of objects, every count   *)
(* of light sources is a number: what timeout.c and light.c keep is well   *)
(* formed after any series of actions.                                     *)
THEOREM TypesAlwaysRight ==
  ASSUME NoDilutedOil
  PROVE  Spec => []TypeOK
<1>1. Inv => TypeOK
  BY TypesRight
<1> QED
  BY <1>1, AlwaysInv, PTL

(* What begin_burn(), end_burn(), splitobj(), merged() and obfree() do with*)
(* light sources always leaves one for a lit object, and none for any      *)
(* other, in memory or saved with a level.                                 *)
THEOREM LightAlwaysRight ==
  ASSUME NoDilutedOil
  PROVE  Spec => []LightIffLit
<1>1. Inv => LightIffLit
  BY LightRight
<1> QED
  BY <1>1, AlwaysInv, PTL

(* The same for timers: one for what burns, none for anything else, on all *)
(* levels together, as start_timer() demands; and "timed" counts it.       *)
THEOREM TimerAlwaysRight ==
  ASSUME NoDilutedOil
  PROVE  Spec => []TimerIffBurning
<1>1. Inv => TimerIffBurning
  BY TimerRight
<1> QED
  BY <1>1, AlwaysInv, PTL

(* What save_timers() and save_light_sources() leave with a level is what  *)
(* relink_timers() will find there, and what they keep is still near: no   *)
(* timer and no light is left behind by its object, or goes without it.    *)
THEOREM NothingEverDangles ==
  ASSUME NoDilutedOil
  PROVE  Spec => []NothingDangling
<1>1. Inv => NothingDangling
  BY NothingDangles
<1> QED
  BY <1>1, AlwaysInv, PTL

(* An object burns one unit of fuel for each turn that it is lit, whatever *)
(* is done with it: the timer and "age" together always tell what is left. *)
THEOREM FuelAlwaysAccounted ==
  ASSUME NoDilutedOil
  PROVE  Spec => []FuelAccounted
<1>1. Inv => FuelAccounted
  BY FuelRight
<1> QED
  BY <1>1, AlwaysInv, PTL

(* run_timers() has seen to every timer that is due before anyone acts,    *)
(* unless one ran out in a prayer or before a delivery.                    *)
THEOREM AlwaysPunctual ==
  ASSUME NoDilutedOil
  PROVE  Spec => []Punctual
<1>1. Inv => Punctual
  BY PunctualAndQuiet
<1> QED
  BY <1>1, AlwaysInv, PTL

(* With the same exception, impossible() is never called in these routines.*)
THEOREM NeverImpossible ==
  ASSUME NoDilutedOil
  PROVE  Spec => []NoImpossible
<1>1. Inv => NoImpossible
  BY PunctualAndQuiet
<1> QED
  BY <1>1, AlwaysInv, PTL
=============================================================================
