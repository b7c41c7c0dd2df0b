----------------------------- MODULE ListLemmas -----------------------------
(***************************************************************************)
(* Facts about natural numbers, sets and sequences that the proofs about   *)
(* block lists and chains rest on.  Nothing here is about the program.     *)
(*                                                                         *)
(* Induction is stated for a set instead of a predicate: the library's     *)
(* theorems take an operator as their parameter, which no prover here can  *)
(* instantiate; a set is an ordinary value.                                *)
(***************************************************************************)
EXTENDS Integers, Sequences, SequencesExt, TLAPS, SequenceTheorems,
        WellFoundedInduction

(* Every set of natural numbers that is not empty has a least element.     *)
LEMMA NatMin ==
  ASSUME NEW T, T \subseteq Nat, T # {}
  PROVE  \E x \in T : \A y \in T : x <= y
<1> DEFINE R == OpToRel(<, Nat)
<1>1. IsWellFoundedOn(R, Nat)
  BY NatLessThanWellFounded
<1>2. \A x, y \in Nat : x < y => <<x, y>> \in R
  BY DEF OpToRel
<1> HIDE DEF R
<1>3. \E x \in T : \A y \in T : <<y, x>> \notin R
  BY <1>1, WFMin, Zenon
<1>4. PICK x \in T : \A y \in T : <<y, x>> \notin R
  BY <1>3
<1>5. ASSUME NEW y \in T PROVE x <= y
  <2>1. ~(y < x)
    BY <1>2, <1>4
  <2>2. x \in Nat /\ y \in Nat
    OBVIOUS
  <2>3. QED
    BY <2>1, <2>2
<1>6. QED
  BY <1>5

(* Induction: a set with 0, and with n + 1 whenever with n, has them all.  *)
LEMMA SetInduction ==
  ASSUME NEW S, 0 \in S, \A n \in Nat : n \in S => n + 1 \in S
  PROVE  Nat \subseteq S
<1> DEFINE T == Nat \ S
<1>1. SUFFICES ASSUME T # {} PROVE FALSE
  OBVIOUS
<1>2. T \subseteq Nat
  OBVIOUS
<1>3. \E x \in T : \A y \in T : x <= y
  <2> HIDE DEF T
  <2>1. QED
    BY <1>1, <1>2, NatMin
<1>4. PICK x \in T : \A y \in T : x <= y
  BY <1>3
<1>5. x \in Nat /\ x \notin S /\ x # 0
  OBVIOUS
<1>6. x - 1 \in Nat /\ x - 1 \notin T
  BY <1>4, <1>5
<1>7. (x - 1) + 1 \in S
  BY <1>6
<1>8. QED
  BY <1>5, <1>7

-----------------------------------------------------------------------------
(* Names for equations between concatenations: the provers rewrite these    *)
(* and then do not recognise them in a lemma, names they leave alone.       *)
Same(s, t) == s = t
Around(s, a, x, c) == s = (a \o <<x>>) \o c
Joined(s, a, b, c) == s = (a \o b) \o c

(* A sequence is what stands before a position, there, and behind it.      *)
LEMMA SeqAround ==
  ASSUME NEW S, NEW s \in Seq(S), NEW i \in 1..Len(s)
  PROVE  /\ SubSeq(s, 1, i - 1) \in Seq(S) /\ Len(SubSeq(s, 1, i - 1)) = i - 1
         /\ SubSeq(s, i + 1, Len(s)) \in Seq(S)
         /\ s[i] \in S
         /\ s = (SubSeq(s, 1, i - 1) \o <<s[i]>>) \o SubSeq(s, i + 1, Len(s))
<1> DEFINE a == SubSeq(s, 1, i - 1)
           x == <<s[i]>>
           c == SubSeq(s, i + 1, Len(s))
<1>1. Len(s) \in Nat /\ i \in Int /\ i - 1 \in Int /\ i + 1 \in Int /\ s[i] \in S
  BY LenProperties
<1>2. /\ a \in Seq(S) /\ Len(a) = i - 1
      /\ \A k \in 1..(i - 1) : a[k] = s[k]
  <2>1. \A k \in 1..(i - 1) : s[k] \in S
    BY <1>1, ElementOfSeq
  <2>2. /\ a \in Seq(S) /\ Len(a) = IF 1 <= i - 1 THEN (i - 1) - 1 + 1 ELSE 0
        /\ \A k \in 1..((i - 1) - 1 + 1) : a[k] = s[1 + k - 1]
    BY <2>1, <1>1, SubSeqProperties
  <2>3. QED
    BY <2>2, <1>1
<1>3. /\ c \in Seq(S) /\ Len(c) = Len(s) - i
      /\ \A k \in 1..(Len(s) - i) : c[k] = s[i + k]
  <2>1. \A k \in (i + 1)..Len(s) : s[k] \in S
    BY <1>1, ElementOfSeq
  <2>2. /\ c \in Seq(S) /\ Len(c) = IF i + 1 <= Len(s) THEN Len(s) - (i + 1) + 1 ELSE 0
        /\ \A k \in 1..(Len(s) - (i + 1) + 1) : c[k] = s[(i + 1) + k - 1]
    BY <2>1, <1>1, SubSeqProperties
  <2>3. QED
    BY <2>2, <1>1
<1>4. x \in Seq(S) /\ Len(x) = 1 /\ x[1] = s[i]
  BY <1>1
<1> HIDE DEF a, x, c
<1>5. /\ a \o x \in Seq(S) /\ Len(a \o x) = i
      /\ \A k \in 1..i : (a \o x)[k] = s[k]
  <2>1. /\ a \o x \in Seq(S) /\ Len(a \o x) = Len(a) + Len(x)
        /\ \A k \in 1..(Len(a) + Len(x)) : (a \o x)[k] = IF k <= Len(a) THEN a[k] ELSE x[k - Len(a)]
    BY <1>2, <1>4, ConcatProperties
  <2>2. ASSUME NEW k \in 1..i PROVE (a \o x)[k] = s[k]
    <3>1. k \in 1..(Len(a) + Len(x)) /\ k \in Int
      BY <1>1, <1>2, <1>4
    <3>2. (a \o x)[k] = IF k <= Len(a) THEN a[k] ELSE x[k - Len(a)]
      BY <3>1, <2>1
    <3>3. CASE k <= i - 1
      BY <3>2, <3>3, <1>1, <1>2
    <3>4. CASE ~(k <= i - 1)
      <4>1. k = i /\ k - Len(a) = 1 /\ ~(k <= Len(a))
        BY <3>4, <1>1, <1>2
      <4>2. QED
        BY <4>1, <3>2, <1>4
    <3>5. QED
      BY <3>3, <3>4
  <2>3. QED
    BY <2>1, <2>2, <1>1, <1>2, <1>4
<1> DEFINE ax == a \o x
<1>6. ax \in Seq(S) /\ Len(ax) = i /\ \A k \in 1..i : ax[k] = s[k]
  BY <1>5
<1> HIDE DEF ax
<1>7. /\ ax \o c \in Seq(S) /\ Len(ax \o c) = Len(ax) + Len(c)
      /\ \A k \in 1..(Len(ax) + Len(c)) : (ax \o c)[k] = IF k <= Len(ax) THEN ax[k] ELSE c[k - Len(ax)]
  BY <1>3, <1>6, ConcatProperties
<1>8. Len(ax \o c) = Len(s) /\ Len(ax) + Len(c) = Len(s) /\ Len(ax) = i
  BY <1>7, <1>1, <1>3, <1>6
<1>9. ASSUME NEW k \in 1..Len(s) PROVE (ax \o c)[k] = s[k]
  <2>1. (ax \o c)[k] = IF k <= i THEN ax[k] ELSE c[k - i]
    BY <1>7, <1>8
  <2>2. CASE k <= i
    <3>1. k \in 1..i
      BY <2>2
    <3>2. QED
      BY <2>1, <2>2, <3>1, <1>6
  <2>3. CASE ~(k <= i)
    <3>1. k - i \in 1..(Len(s) - i) /\ i + (k - i) = k
      BY <2>3, <1>1
    <3>2. c[k - i] = s[k]
      BY <3>1, <1>3
    <3>3. QED
      BY <2>1, <2>3, <3>2
  <2>4. QED
    BY <2>2, <2>3
<1>10. ax \o c = s
  BY <1>7, <1>8, <1>9, SeqEqual
<1>11. QED
  BY <1>1, <1>2, <1>3, <1>10 DEF a, x, c, ax

(* Where the parts of a \o <<x>> \o c stand.                                *)
LEMMA SeqParts ==
  ASSUME NEW S, NEW a \in Seq(S), NEW x \in S, NEW c \in Seq(S),
         NEW s, s = (a \o <<x>>) \o c
  PROVE  /\ s \in Seq(S)
         /\ Len(s) = Len(a) + 1 + Len(c)
         /\ Len(a) + 1 \in 1..Len(s)
         /\ \A k \in 1..Len(a) : s[k] = a[k]
         /\ s[Len(a) + 1] = x
         /\ \A k \in 1..Len(c) : s[Len(a) + 1 + k] = c[k]
<1> DEFINE y == <<x>>
           ay == a \o y
<1>1. y \in Seq(S) /\ Len(y) = 1 /\ y[1] = x
  OBVIOUS
<1>2. Len(a) \in Nat /\ Len(c) \in Nat
  BY LenProperties
<1> HIDE DEF y
<1>3. /\ ay \in Seq(S) /\ Len(ay) = Len(a) + 1
      /\ \A k \in 1..(Len(a) + 1) : ay[k] = IF k <= Len(a) THEN a[k] ELSE y[k - Len(a)]
  <2>1. /\ ay \in Seq(S) /\ Len(ay) = Len(a) + Len(y)
        /\ \A k \in 1..(Len(a) + Len(y)) : ay[k] = IF k <= Len(a) THEN a[k] ELSE y[k - Len(a)]
    BY <1>1, ConcatProperties
  <2>2. QED
    BY <2>1, <1>1
<1> HIDE DEF ay
<1>4. /\ s \in Seq(S) /\ Len(s) = Len(ay) + Len(c)
      /\ \A k \in 1..(Len(ay) + Len(c)) : s[k] = IF k <= Len(ay) THEN ay[k] ELSE c[k - Len(ay)]
  <2>1. s = ay \o c
    BY DEF ay, y
  <2>2. QED
    BY <2>1, <1>3, ConcatProperties
<1>5. \A k \in 1..Len(a) : s[k] = a[k]
  BY <1>2, <1>3, <1>4
<1>6. s[Len(a) + 1] = x
  <2>1. s[Len(a) + 1] = ay[Len(a) + 1]
    BY <1>2, <1>3, <1>4
  <2>2. ay[Len(a) + 1] = y[(Len(a) + 1) - Len(a)]
    BY <1>2, <1>3
  <2>3. QED
    BY <2>1, <2>2, <1>1, <1>2
<1>7. ASSUME NEW k \in 1..Len(c) PROVE s[Len(a) + 1 + k] = c[k]
  <2>1. s[Len(a) + 1 + k] = c[(Len(a) + 1 + k) - Len(ay)]
    BY <1>2, <1>3, <1>4
  <2>2. (Len(a) + 1 + k) - Len(ay) = k
    BY <1>2, <1>3
  <2>3. QED
    BY <2>1, <2>2
<1>8. QED
  BY <1>2, <1>3, <1>4, <1>5, <1>6, <1>7

(* The element in the middle stands behind the first part.                 *)
LEMMA AroundPosition ==
  ASSUME NEW S, NEW a \in Seq(S), NEW x \in S, NEW c \in Seq(S), NEW s, Around(s, a, x, c)
  PROVE  s \in Seq(S) /\ Len(a) + 1 \in 1..Len(s) /\ s[Len(a) + 1] = x
<1>1. s = (a \o <<x>>) \o c
  BY DEF Around
<1>2. QED
  BY <1>1, SeqParts

(* The halves of a \o b are its subsequences.                              *)
LEMMA SeqHalves ==
  ASSUME NEW S, NEW a \in Seq(S), NEW b \in Seq(S), NEW s, s = a \o b
  PROVE  /\ s \in Seq(S) /\ Len(s) = Len(a) + Len(b)
         /\ SubSeq(s, 1, Len(a)) = a
         /\ SubSeq(s, Len(a) + 1, Len(s)) = b
<1>1. Len(a) \in Nat /\ Len(b) \in Nat
  BY LenProperties
<1>2. /\ s \in Seq(S) /\ Len(s) = Len(a) + Len(b)
      /\ \A k \in 1..(Len(a) + Len(b)) : s[k] = IF k <= Len(a) THEN a[k] ELSE b[k - Len(a)]
  BY ConcatProperties
<1>3. SubSeq(s, 1, Len(a)) = a
  <2> DEFINE t == SubSeq(s, 1, Len(a))
  <2>1. \A k \in 1..Len(a) : s[k] = a[k] /\ s[k] \in S
    BY <1>1, <1>2, ElementOfSeq
  <2>2. /\ t \in Seq(S) /\ Len(t) = IF 1 <= Len(a) THEN Len(a) - 1 + 1 ELSE 0
        /\ \A k \in 1..(Len(a) - 1 + 1) : t[k] = s[1 + k - 1]
    BY <2>1, <1>1, SubSeqProperties
  <2> HIDE DEF t
  <2>3. Len(t) = Len(a)
    BY <2>2, <1>1
  <2>4. ASSUME NEW k \in 1..Len(t) PROVE t[k] = a[k]
    <3>1. k \in 1..(Len(a) - 1 + 1) /\ 1 + k - 1 = k /\ k \in 1..Len(a)
      BY <2>3, <1>1
    <3>2. QED
      BY <3>1, <2>1, <2>2
  <2>5. t = a
    BY <2>2, <2>3, <2>4, SeqEqual
  <2>6. QED
    BY <2>5 DEF t
<1>4. SubSeq(s, Len(a) + 1, Len(s)) = b
  <2> DEFINE m == Len(a) + 1
             t == SubSeq(s, m, Len(s))
  <2>1. \A k \in m..Len(s) : s[k] \in S
    BY <1>1, <1>2, ElementOfSeq
  <2>2. m \in Int /\ Len(s) \in Int /\ Len(s) - m + 1 = Len(b)
    BY <1>1, <1>2
  <2> HIDE DEF m
  <2>3. /\ t \in Seq(S) /\ Len(t) = IF m <= Len(s) THEN Len(s) - m + 1 ELSE 0
        /\ \A k \in 1..(Len(s) - m + 1) : t[k] = s[m + k - 1]
    BY <2>1, <2>2, SubSeqProperties
  <2> HIDE DEF t
  <2>4. Len(t) = Len(b)
    BY <2>2, <2>3, <1>1 DEF m
  <2>5. ASSUME NEW k \in 1..Len(t) PROVE t[k] = b[k]
    <3>1. k \in 1..(Len(s) - m + 1)
      BY <2>2, <2>4
    <3>2. t[k] = s[m + k - 1]
      BY <3>1, <2>3
    <3>3. m + k - 1 \in 1..(Len(a) + Len(b)) /\ ~(m + k - 1 <= Len(a)) /\ (m + k - 1) - Len(a) = k
      BY <2>4, <1>1 DEF m
    <3>4. QED
      BY <3>2, <3>3, <1>2
  <2>6. t = b
    BY <2>3, <2>4, <2>5, SeqEqual
  <2>7. QED
    BY <2>6 DEF t, m
<1>5. QED
  BY <1>2, <1>3, <1>4

(* What stands before x and behind it in a \o <<x>> \o c.                   *)
LEMMA SeqOutside ==
  ASSUME NEW S, NEW a \in Seq(S), NEW x \in S, NEW c \in Seq(S),
         NEW s, s = (a \o <<x>>) \o c, NEW i, i = Len(a) + 1
  PROVE  /\ SubSeq(s, 1, i - 1) = a
         /\ SubSeq(s, i, Len(s)) = <<x>> \o c
         /\ SubSeq(s, i + 1, Len(s)) = c
<1> DEFINE y == <<x>>
<1>1. y \in Seq(S) /\ Len(y) = 1 /\ Len(a) \in Nat /\ Len(c) \in Nat
  BY LenProperties
<1>2. a \o y \in Seq(S) /\ Len(a \o y) = Len(a) + 1 /\ y \o c \in Seq(S)
  BY <1>1, ConcatProperties
<1>3. s = (a \o y) \o c
  OBVIOUS
<1> HIDE DEF y
<1>4. SubSeq(s, i + 1, Len(s)) = c
  BY <1>2, <1>3, SeqHalves
<1>5. s = a \o (y \o c)
  <2>1. (a \o y) \o c = a \o (y \o c)
    BY <1>1, ConcatAssociative, SMTT(30)
  <2>2. QED
    BY <2>1, <1>3
<1>6. SubSeq(s, 1, Len(a)) = a /\ SubSeq(s, i, Len(s)) = y \o c
  <2> DEFINE yc == y \o c
  <2>1. yc \in Seq(S) /\ s = a \o yc
    BY <1>2, <1>5
  <2> HIDE DEF yc
  <2>2. SubSeq(s, 1, Len(a)) = a /\ SubSeq(s, Len(a) + 1, Len(s)) = yc
    BY <2>1, SeqHalves, SMTT(30)
  <2>3. QED
    BY <2>2 DEF yc
<1>7. i - 1 = Len(a)
  BY <1>1
<1>8. QED
  BY <1>4, <1>6, <1>7 DEF y

(* What the edits of SequencesExt do at the position of x in               *)
(* a \o <<x>> \o c.                                                        *)
LEMMA SeqEdits ==
  ASSUME NEW S, NEW a \in Seq(S), NEW x \in S, NEW c \in Seq(S),
         NEW s, Around(s, a, x, c), NEW i, i = Len(a) + 1, NEW e \in S
  PROVE  /\ Same(RemoveAt(s, i), a \o c)
         /\ Around(ReplaceAt(s, i, e), a, e, c)
<1>0. s = (a \o <<x>>) \o c
  BY DEF Around
<1>1. Len(a) \in Nat /\ Len(c) \in Nat
  BY LenProperties
<1>2. /\ SubSeq(s, 1, i - 1) = a
      /\ SubSeq(s, i + 1, Len(s)) = c
  BY <1>0, SeqOutside
<1>8. RemoveAt(s, i) = a \o c
  BY <1>2, Zenon DEF RemoveAt
<1>10. ReplaceAt(s, i, e) = (a \o <<e>>) \o c
  <2> DEFINE r == [s EXCEPT ![i] = e]
             t == (a \o <<e>>) \o c
  <2>1. /\ s \in Seq(S) /\ Len(s) = Len(a) + 1 + Len(c) /\ i \in 1..Len(s)
        /\ \A k \in 1..Len(a) : s[k] = a[k]
        /\ \A k \in 1..Len(c) : s[Len(a) + 1 + k] = c[k]
    BY <1>0, SeqParts
  <2>2. /\ t \in Seq(S) /\ Len(t) = Len(a) + 1 + Len(c)
        /\ \A k \in 1..Len(a) : t[k] = a[k]
        /\ t[i] = e
        /\ \A k \in 1..Len(c) : t[Len(a) + 1 + k] = c[k]
    BY SeqParts
  <2>3. /\ r \in Seq(S) /\ Len(r) = Len(s)
        /\ \A j \in 1..Len(s) : r[j] = IF j = i THEN e ELSE s[j]
    <3>1. s \in Seq(S) /\ i \in 1..Len(s)
      BY <2>1
    <3>2. \A q \in Seq(S) : \A n \in 1..Len(q) :
            /\ [q EXCEPT ![n] = e] \in Seq(S) /\ Len([q EXCEPT ![n] = e]) = Len(q)
            /\ \A j \in 1..Len(q) : [q EXCEPT ![n] = e][j] = IF j = n THEN e ELSE q[j]
      BY ExceptSeq
    <3>3. QED
      BY <3>1, <3>2
  <2> HIDE DEF r, t
  <2>4. ASSUME NEW k \in 1..Len(r) PROVE r[k] = t[k]
    <3>1. k \in 1..Len(s) /\ k \in Int
      BY <2>3, <2>1
    <3>2. CASE k = i
      BY <3>1, <3>2, <2>2, <2>3
    <3>3. CASE k # i
      <4>1. r[k] = s[k]
        BY <3>1, <3>3, <2>3
      <4>2. CASE k <= Len(a)
        <5>1. k \in 1..Len(a)
          BY <4>2, <1>1
        <5>2. QED
          BY <4>1, <5>1, <2>1, <2>2
      <4>3. CASE ~(k <= Len(a))
        <5> DEFINE j == k - (Len(a) + 1)
        <5>1. j \in 1..Len(c) /\ Len(a) + 1 + j = k
          BY <4>3, <3>1, <3>3, <2>1, <1>1
        <5> HIDE DEF j
        <5>2. s[Len(a) + 1 + j] = c[j] /\ t[Len(a) + 1 + j] = c[j]
          BY <5>1, <2>1, <2>2
        <5>3. QED
          BY <4>1, <5>1, <5>2
      <4>4. QED
        BY <4>2, <4>3
    <3>4. QED
      BY <3>2, <3>3
  <2>5. r = t
    BY <2>1, <2>2, <2>3, <2>4, SeqEqual
  <2>6. QED
    BY <2>5 DEF ReplaceAt, r, t
<1>11. QED
  BY <1>8, <1>10 DEF Same, Around

(* An element is inserted between two halves.                              *)
Inserted(S, s, k, e) ==
  \E a, c \in Seq(S) :
    Same(s, a \o c) /\ Len(a) = k - 1 /\ Around(InsertAt(s, k, e), a, e, c)

(* InsertAt puts the element between the two halves of the list.           *)
LEMMA SeqInsert ==
  ASSUME NEW S, NEW s \in Seq(S), NEW k \in 1..(Len(s) + 1), NEW e \in S
  PROVE  Inserted(S, s, k, e)
<1> DEFINE n == k - 1
           a == SubSeq(s, 1, n)
           c == SubSeq(s, n + 1, Len(s))
<1>1. Len(s) \in Nat /\ n \in 0..Len(s) /\ n + 1 = k
  BY LenProperties
<1> HIDE DEF n
<1>2. /\ a \in Seq(S) /\ Len(a) = n
  <2>1. \A i \in 1..n : s[i] \in S
    BY <1>1, ElementOfSeq
  <2>2. a \in Seq(S) /\ Len(a) = IF 1 <= n THEN n - 1 + 1 ELSE 0
    BY <2>1, <1>1, SubSeqProperties
  <2> HIDE DEF a
  <2>3. QED
    BY <2>2, <1>1
<1>3. c \in Seq(S)
  <2>1. \A i \in (n + 1)..Len(s) : s[i] \in S
    BY <1>1, ElementOfSeq
  <2>2. QED
    BY <2>1, <1>1, SubSeqProperties
<1>4. a \o c = s
  <2>1. 1 \in 1..(Len(s) + 1) /\ n \in (1 - 1)..Len(s) /\ Len(s) \in n..Len(s)
    BY <1>1
  <2>2. a \o c = SubSeq(s, 1, Len(s))
    BY <2>1, ConcatAdjacentSubSeq, Zenon
  <2>3. QED
    BY <2>2, SubSeqFull
<1>5. InsertAt(s, k, e) = (a \o <<e>>) \o c
  BY <1>1 DEF InsertAt, n
<1>6. Same(s, a \o c) /\ Around(InsertAt(s, k, e), a, e, c)
  BY <1>4, <1>5 DEF Same, Around
<1>7. Len(a) = k - 1
  BY <1>2 DEF n
<1> HIDE DEF a, c
<1>8. QED
  BY <1>2, <1>3, <1>6, <1>7 DEF Inserted

-----------------------------------------------------------------------------
(* A relation, a set of pairs, between the elements of one sequence, and    *)
(* between those of two.                                                    *)
Pairwise(s, R) == \A i, j \in 1..Len(s) : i # j => <<s[i], s[j]>> \in R
Across(s, t, R) == \A i \in 1..Len(s), j \in 1..Len(t) : <<s[i], t[j]>> \in R
Symmetric(R) == \A x, y : <<x, y>> \in R => <<y, x>> \in R

(* What holds across s and t holds the other way round.                     *)
LEMMA AcrossSymmetric ==
  ASSUME NEW R, Symmetric(R), NEW s, NEW t, Across(s, t, R)
  PROVE  Across(t, s, R)
  BY DEF Across, Symmetric

(* Every position of a \o b is one of a or one of b.                        *)
LEMMA ConcatPositions ==
  ASSUME NEW S, NEW a \in Seq(S), NEW b \in Seq(S)
  PROVE  /\ \A i \in 1..Len(a) : i \in 1..Len(a \o b) /\ (a \o b)[i] = a[i]
         /\ \A j \in 1..Len(b) : Len(a) + j \in 1..Len(a \o b) /\ (a \o b)[Len(a) + j] = b[j]
         /\ \A k \in 1..Len(a \o b) : \/ k \in 1..Len(a)
                                      \/ \E j \in 1..Len(b) : k = Len(a) + j
<1>1. Len(a) \in Nat /\ Len(b) \in Nat
  BY LenProperties
<1>2. /\ Len(a \o b) = Len(a) + Len(b)
      /\ \A k \in 1..(Len(a) + Len(b)) : (a \o b)[k] = IF k <= Len(a) THEN a[k] ELSE b[k - Len(a)]
  BY ConcatProperties
<1>3. ASSUME NEW i \in 1..Len(a) PROVE i \in 1..Len(a \o b) /\ (a \o b)[i] = a[i]
  BY <1>1, <1>2
<1>4. ASSUME NEW j \in 1..Len(b) PROVE Len(a) + j \in 1..Len(a \o b) /\ (a \o b)[Len(a) + j] = b[j]
  <2>1. Len(a) + j \in 1..(Len(a) + Len(b)) /\ ~(Len(a) + j <= Len(a)) /\ (Len(a) + j) - Len(a) = j
    BY <1>1
  <2>2. QED
    BY <2>1, <1>2
<1>5. ASSUME NEW k \in 1..Len(a \o b), k \notin 1..Len(a)
      PROVE  \E j \in 1..Len(b) : k = Len(a) + j
  <2>1. k - Len(a) \in 1..Len(b) /\ k = Len(a) + (k - Len(a))
    BY <1>1, <1>2, <1>5
  <2>2. QED
    BY <2>1
<1>6. QED
  BY <1>3, <1>4, <1>5

(* s is a list of which a is the first part and b the rest.                *)
InTwo(s, a, b) ==
  /\ \A i \in 1..Len(a) : i \in 1..Len(s) /\ s[i] = a[i]
  /\ \A j \in 1..Len(b) : Len(a) + j \in 1..Len(s) /\ s[Len(a) + j] = b[j]
  /\ \A k \in 1..Len(s) : \/ k \in 1..Len(a)
                          \/ \E j \in 1..Len(b) : k = Len(a) + j

(* ConcatPositions for a list that is known by another name.               *)
LEMMA ConcatInTwo ==
  ASSUME NEW S, NEW a \in Seq(S), NEW b \in Seq(S)
  PROVE  InTwo(a \o b, a, b)
<1> DEFINE s == a \o b
<1>1. /\ \A i \in 1..Len(a) : i \in 1..Len(s) /\ s[i] = a[i]
      /\ \A j \in 1..Len(b) : Len(a) + j \in 1..Len(s) /\ s[Len(a) + j] = b[j]
      /\ \A k \in 1..Len(s) : \/ k \in 1..Len(a)
                              \/ \E j \in 1..Len(b) : k = Len(a) + j
  BY ConcatPositions
<1> HIDE DEF s
<1>2. InTwo(s, a, b)
  BY <1>1 DEF InTwo
<1>3. QED
  BY <1>2 DEF s

(* A range within another one is apart from what that one is apart from.   *)
LEMMA RangeApart ==
  ASSUME NEW p \in Int, NEW q \in Int, NEW lo \in Int, NEW hi \in Int,
         NEW from \in Int, NEW to \in Int,
         p <= lo, hi <= q, q < from \/ to < p
  PROVE  hi < from \/ to < lo
OBVIOUS

(* A relation holds across a \o b and t if it does across a and t and       *)
(* across b and t.                                                          *)
LEMMA AcrossConcat ==
  ASSUME NEW S, NEW a \in Seq(S), NEW b \in Seq(S), NEW t, NEW R
  PROVE  Across(a \o b, t, R) <=> Across(a, t, R) /\ Across(b, t, R)
<1> DEFINE s == a \o b
<1>1. /\ \A i \in 1..Len(a) : i \in 1..Len(s) /\ s[i] = a[i]
      /\ \A j \in 1..Len(b) : Len(a) + j \in 1..Len(s) /\ s[Len(a) + j] = b[j]
      /\ \A k \in 1..Len(s) : \/ k \in 1..Len(a)
                              \/ \E j \in 1..Len(b) : k = Len(a) + j
  BY ConcatPositions
<1> HIDE DEF s
<1>2. Across(s, t, R) => Across(a, t, R) /\ Across(b, t, R)
  BY <1>1 DEF Across
<1>3. Across(a, t, R) /\ Across(b, t, R) => Across(s, t, R)
  BY <1>1 DEF Across
<1>4. QED
  BY <1>2, <1>3 DEF s

(* A symmetric relation holds within a \o b if it does within a, within b   *)
(* and across the two.                                                      *)
LEMMA PairwiseConcat ==
  ASSUME NEW S, NEW a \in Seq(S), NEW b \in Seq(S), NEW R, Symmetric(R)
  PROVE  Pairwise(a \o b, R) <=> Pairwise(a, R) /\ Pairwise(b, R) /\ Across(a, b, R)
<1> DEFINE s == a \o b
<1>1. /\ \A i \in 1..Len(a) : i \in 1..Len(s) /\ s[i] = a[i]
      /\ \A j \in 1..Len(b) : Len(a) + j \in 1..Len(s) /\ s[Len(a) + j] = b[j]
      /\ \A k \in 1..Len(s) : \/ k \in 1..Len(a)
                              \/ \E j \in 1..Len(b) : k = Len(a) + j
  BY ConcatPositions
<1>2. Len(a) \in Nat /\ Len(b) \in Nat
  BY LenProperties
<1> HIDE DEF s
<1>3. ASSUME Pairwise(s, R) PROVE Pairwise(a, R) /\ Pairwise(b, R) /\ Across(a, b, R)
  <2>1. Pairwise(a, R)
    BY <1>1, <1>3 DEF Pairwise
  <2>2. ASSUME NEW i \in 1..Len(b), NEW j \in 1..Len(b), i # j PROVE <<b[i], b[j]>> \in R
    <3>1. Len(a) + i # Len(a) + j
      BY <1>2, <2>2
    <3>2. QED
      BY <3>1, <1>1, <1>3 DEF Pairwise
  <2>3. ASSUME NEW i \in 1..Len(a), NEW j \in 1..Len(b) PROVE <<a[i], b[j]>> \in R
    <3>1. i # Len(a) + j
      BY <1>2
    <3>2. QED
      BY <3>1, <1>1, <1>3 DEF Pairwise
  <2>4. QED
    BY <2>1, <2>2, <2>3 DEF Pairwise, Across
<1>4. ASSUME Pairwise(a, R), Pairwise(b, R), Across(a, b, R) PROVE Pairwise(s, R)
  <2> SUFFICES ASSUME NEW k \in 1..Len(s), NEW m \in 1..Len(s), k # m
               PROVE  <<s[k], s[m]>> \in R
    BY DEF Pairwise
  <2>1. CASE k \in 1..Len(a) /\ m \in 1..Len(a)
    BY <2>1, <1>1, <1>4 DEF Pairwise
  <2>2. CASE k \in 1..Len(a) /\ m \notin 1..Len(a)
    BY <2>2, <1>1, <1>4 DEF Across
  <2>3. CASE k \notin 1..Len(a) /\ m \in 1..Len(a)
    BY <2>3, <1>1, <1>4 DEF Across, Symmetric
  <2>4. CASE k \notin 1..Len(a) /\ m \notin 1..Len(a)
    <3>1. PICK i \in 1..Len(b) : k = Len(a) + i
      BY <2>4, <1>1
    <3>2. PICK j \in 1..Len(b) : m = Len(a) + j
      BY <2>4, <1>1
    <3>3. i # j /\ s[k] = b[i] /\ s[m] = b[j]
      BY <3>1, <3>2, <1>1
    <3>4. QED
      BY <3>3, <1>4 DEF Pairwise
  <2>5. QED
    BY <2>1, <2>2, <2>3, <2>4
<1>5. QED
  BY <1>3, <1>4 DEF s

(* An element may be taken apart into m, if each element of m is related to *)
(* all that it was related to.                                              *)
LEMMA PairwiseReplace ==
  ASSUME NEW S, NEW a \in Seq(S), NEW x \in S, NEW m \in Seq(S), NEW c \in Seq(S),
         NEW R, Symmetric(R), Pairwise((a \o <<x>>) \o c, R), Pairwise(m, R),
         \A i \in 1..Len(m) : \A y \in S : <<x, y>> \in R => <<m[i], y>> \in R
  PROVE  Pairwise((a \o m) \o c, R)
<1> DEFINE z == <<x>>
<1>1. z \in Seq(S) /\ Len(z) = 1 /\ z[1] = x
  OBVIOUS
<1> HIDE DEF z
<1>2. Pairwise((a \o z) \o c, R)
  BY DEF z
<1>3. a \o z \in Seq(S) /\ a \o m \in Seq(S)
  BY <1>1, ConcatProperties
<1>4. Pairwise(a \o z, R) /\ Pairwise(c, R) /\ Across(a \o z, c, R)
  BY <1>2, <1>3, PairwiseConcat
<1>5. Pairwise(a, R) /\ Across(a, z, R)
  BY <1>1, <1>4, PairwiseConcat
<1>6. Across(a, c, R) /\ Across(z, c, R)
  BY <1>1, <1>4, AcrossConcat
<1>7. \A t \in Seq(S) : Across(z, t, R) => Across(m, t, R)
  <2> SUFFICES ASSUME NEW t \in Seq(S), Across(z, t, R),
                      NEW i \in 1..Len(m), NEW j \in 1..Len(t)
               PROVE  <<m[i], t[j]>> \in R
    BY DEF Across
  <2>1. <<x, t[j]>> \in R
    BY <1>1 DEF Across
  <2>2. t[j] \in S
    BY ElementOfSeq
  <2>3. QED
    BY <2>1, <2>2
<1>8. Across(m, c, R) /\ Across(m, a, R)
  BY <1>5, <1>6, <1>7, AcrossSymmetric
<1>9. Across(a, m, R)
  BY <1>8, AcrossSymmetric
<1>10. Pairwise(a \o m, R)
  BY <1>5, <1>9, PairwiseConcat
<1>11. Across(a \o m, c, R)
  BY <1>6, <1>8, AcrossConcat
<1>12. QED
  BY <1>3, <1>4, <1>10, <1>11, PairwiseConcat

(* An element may be put in anywhere when it is related to all the others;  *)
(* and taken out anywhere.                                                  *)
LEMMA PairwiseInsert ==
  ASSUME NEW S, NEW a \in Seq(S), NEW x \in S, NEW c \in Seq(S), NEW R, Symmetric(R)
  PROVE  Pairwise((a \o <<x>>) \o c, R) <=> Pairwise(a \o c, R) /\ Across(<<x>>, a \o c, R)
<1> DEFINE z == <<x>>
<1>1. z \in Seq(S) /\ Len(z) = 1
  OBVIOUS
<1> HIDE DEF z
<1>2. a \o z \in Seq(S) /\ a \o c \in Seq(S) /\ Pairwise(z, R)
  BY <1>1, ConcatProperties DEF Pairwise
<1>3. /\ Pairwise((a \o z) \o c, R) <=> Pairwise(a \o z, R) /\ Pairwise(c, R) /\ Across(a \o z, c, R)
      /\ Pairwise(a \o c, R) <=> Pairwise(a, R) /\ Pairwise(c, R) /\ Across(a, c, R)
      /\ Pairwise(a \o z, R) <=> Pairwise(a, R) /\ Across(a, z, R)
      /\ Across(a \o z, c, R) <=> Across(a, c, R) /\ Across(z, c, R)
      /\ Across(a \o c, z, R) <=> Across(a, z, R) /\ Across(c, z, R)
  BY <1>1, <1>2, PairwiseConcat, AcrossConcat
<1>4. /\ Across(a \o c, z, R) <=> Across(z, a \o c, R)
      /\ Across(c, z, R) <=> Across(z, c, R)
  BY AcrossSymmetric
<1>5. QED
  BY <1>3, <1>4 DEF z

(* One element in the middle may be counted to either side.                *)
LEMMA ConcatMiddle ==
  ASSUME NEW S, NEW a \in Seq(S), NEW x \in S, NEW c \in Seq(S)
  PROVE  /\ <<x>> \in Seq(S)
         /\ a \o <<x>> \in Seq(S)
         /\ <<x>> \o c \in Seq(S)
         /\ (a \o <<x>>) \o c = a \o (<<x>> \o c)
<1> DEFINE z == <<x>>
<1>1. z \in Seq(S)
  OBVIOUS
<1> HIDE DEF z
<1>2. a \o z \in Seq(S)
  BY <1>1, ConcatProperties
<1>3. z \o c \in Seq(S)
  BY <1>1, ConcatProperties
<1>4. (a \o z) \o c = a \o (z \o c)
  BY <1>1, ConcatAssociative
<1>5. QED
  BY <1>1, <1>2, <1>3, <1>4 DEF z

(* Four sequences may be put together from the left or from the middle.     *)
LEMMA ConcatFour ==
  ASSUME NEW S, NEW a \in Seq(S), NEW l \in Seq(S), NEW x \in Seq(S), NEW r \in Seq(S)
  PROVE  Same(((a \o l) \o x) \o r, a \o ((l \o x) \o r))
<1>1. (a \o l) \o x = a \o (l \o x)
  BY ConcatAssociative
<1> DEFINE m == l \o x
<1>2. m \in Seq(S)
  BY ConcatProperties
<1> HIDE DEF m
<1>3. (a \o m) \o r = a \o (m \o r)
  BY <1>2, ConcatAssociative, SMTT(30)
<1>4. QED
  BY <1>1, <1>3 DEF m, Same

(* Three sequences may be put together from either end.                     *)
LEMMA ConcatThree ==
  ASSUME NEW S, NEW a \in Seq(S), NEW b \in Seq(S), NEW c \in Seq(S)
  PROVE  Same((a \o b) \o c, a \o (b \o c))
<1>1. (a \o b) \o c = a \o (b \o c)
  BY ConcatAssociative
<1>2. QED
  BY <1>1 DEF Same

(* An element of the middle one of three sequences put together, with what  *)
(* stands before it and behind it.                                          *)
LEMMA AroundInside ==
  ASSUME NEW S, NEW a \in Seq(S), NEW l \in Seq(S), NEW x \in S, NEW r \in Seq(S),
         NEW c \in Seq(S), NEW m, Around(m, l, x, r), NEW t, Joined(t, a, m, c)
  PROVE  /\ a \o l \in Seq(S) /\ r \o c \in Seq(S)
         /\ Around(t, a \o l, x, r \o c)
<1> DEFINE z == <<x>>
           al == a \o l
<1>1. z \in Seq(S) /\ m = (l \o z) \o r
  BY DEF Around
<1> HIDE DEF z
<1>2. Same((al \o z) \o r, a \o m)
  <2>1. Same(((a \o l) \o z) \o r, a \o ((l \o z) \o r))
    BY <1>1, ConcatFour
  <2>2. QED
    BY <1>1, <2>1
<1>3. al \in Seq(S) /\ r \o c \in Seq(S)
  BY ConcatProperties
<1> HIDE DEF al
<1> DEFINE alz == al \o z
<1>4. alz \in Seq(S)
  BY <1>1, <1>3, ConcatProperties
<1>5. Same(alz \o r, a \o m)
  BY <1>2
<1> HIDE DEF alz
<1>6. Same((alz \o r) \o c, alz \o (r \o c))
  BY <1>4, ConcatThree
<1>7. t = (a \o m) \o c
  BY DEF Joined
<1>8. t = alz \o (r \o c)
  BY <1>5, <1>6, <1>7 DEF Same
<1>9. Around(t, al, x, r \o c)
  BY <1>8 DEF Around, alz, z
<1>10. QED
  BY <1>3, <1>9 DEF al

(* One element is removed.                                                  *)
LEMMA RemovedLength ==
  ASSUME NEW S, NEW s \in Seq(S), NEW i \in 1..Len(s)
  PROVE  Len(RemoveAt(s, i)) = Len(s) - 1
<1> DEFINE a == SubSeq(s, 1, i - 1)
           c == SubSeq(s, i + 1, Len(s))
<1>1. Len(s) \in Nat /\ i \in Nat
  BY LenProperties
<1>2. a \in Seq(S) /\ Len(a) = i - 1
  BY SeqAround
<1>3. c \in Seq(S) /\ Len(c) = Len(s) - i
  <2>1. \A k \in (i + 1)..Len(s) : s[k] \in S
    BY <1>1, ElementOfSeq
  <2>2. Len(c) = IF i + 1 <= Len(s) THEN Len(s) - (i + 1) + 1 ELSE 0
    BY <2>1, <1>1, SubSeqProperties
  <2>3. c \in Seq(S)
    BY SeqAround
  <2> HIDE DEF c
  <2>4. QED
    BY <2>2, <2>3, <1>1
<1> HIDE DEF a, c
<1> DEFINE ac == a \o c
<1>4. Len(ac) = Len(a) + Len(c)
  BY <1>2, <1>3, ConcatProperties
<1>5. RemoveAt(s, i) = ac
  BY Zenon DEF RemoveAt, a, c
<1> HIDE DEF ac
<1>6. Len(ac) = Len(s) - 1
  BY <1>1, <1>2, <1>3, <1>4
<1>7. QED
  BY <1>5, <1>6

-----------------------------------------------------------------------------
(* Lists of lists.                                                         *)

(* f[i] is the first i lists of q in a row.                                *)
InARow(q, f) ==
  /\ f[1] = q[1]
  /\ \A i \in 2..Len(q) : Same(f[i], f[i-1] \o q[i])

(* FlattenSeq(q) is the last list of such a function.                      *)
Flattened(S, q) ==
  \E f \in [1..Len(q) -> Seq(S)] : InARow(q, f) /\ Same(FlattenSeq(q), f[Len(q)])

(* FlattenSeq, a recursive definition, satisfies its equations.            *)
LEMMA FlattenEquations ==
  ASSUME NEW S, NEW q \in Seq(Seq(S)), Len(q) # 0
  PROVE  Flattened(S, q)
<1> DEFINE Q(n, f) == f = [i \in 1..n |-> IF i = 1 THEN q[i] ELSE f[i-1] \o q[i]]
           P(n) == n + 1 <= Len(q) => \E f \in [1..(n + 1) -> Seq(S)] : Q(n + 1, f)
           I == {n \in Nat : P(n)}
<1>0. Len(q) \in Nat /\ \A i \in 1..Len(q) : q[i] \in Seq(S)
  BY LenProperties, ElementOfSeq
<1>1. P(0)
  <2> SUFFICES ASSUME 1 <= Len(q) PROVE \E f \in [1..(0 + 1) -> Seq(S)] : Q(0 + 1, f)
    OBVIOUS
  <2> DEFINE z == [i \in 1..(0 + 1) |-> q[1]]
  <2>1. q[1] \in Seq(S)
    BY <1>0
  <2>2. z \in [1..(0 + 1) -> Seq(S)]
    BY <2>1
  <2>3. z = [i \in 1..(0 + 1) |-> IF i = 1 THEN q[i] ELSE z[i-1] \o q[i]]
    OBVIOUS
  <2>4. QED
    BY <2>2, <2>3, Zenon
<1>2. ASSUME NEW n \in Nat, P(n) PROVE P(n + 1)
  <2> SUFFICES ASSUME (n + 1) + 1 <= Len(q)
               PROVE  \E f \in [1..((n + 1) + 1) -> Seq(S)] : Q((n + 1) + 1, f)
    OBVIOUS
  <2>1. n + 1 <= Len(q)
    BY <1>0
  <2>2. PICK f \in [1..(n + 1) -> Seq(S)] : Q(n + 1, f)
    BY <1>2, <2>1, Zenon
  <2> DEFINE e == f[n + 1] \o q[(n + 1) + 1]
             g == [i \in 1..((n + 1) + 1) |-> IF i = (n + 1) + 1 THEN e ELSE f[i]]
  <2>a. e \in Seq(S)
    <3>1. f[n + 1] \in Seq(S) /\ q[(n + 1) + 1] \in Seq(S)
      BY <1>0, <2>2
    <3>2. QED
      BY <3>1, ConcatProperties
  <2>b. e = f[n + 1] \o q[(n + 1) + 1]
    OBVIOUS
  <2> HIDE DEF e
  <2>3. g \in [1..((n + 1) + 1) -> Seq(S)]
    <3>1. ASSUME NEW i \in 1..((n + 1) + 1)
          PROVE  (IF i = (n + 1) + 1 THEN e ELSE f[i]) \in Seq(S)
      <4>1. i # (n + 1) + 1 => i \in 1..(n + 1)
        OBVIOUS
      <4>2. QED
        BY <4>1, <2>a
    <3>2. QED
      BY <3>1
  <2>4. ASSUME NEW i \in 1..((n + 1) + 1)
        PROVE  g[i] = IF i = 1 THEN q[i] ELSE g[i-1] \o q[i]
    <3>1. CASE i = (n + 1) + 1
      <4>1. g[i] = e /\ i # 1 /\ i - 1 = n + 1 /\ i - 1 \in 1..((n + 1) + 1) /\ i - 1 # (n + 1) + 1
        BY <3>1
      <4>2. g[i-1] = f[n + 1]
        BY <4>1
      <4> HIDE DEF g
      <4>3. QED
        BY <4>1, <4>2, <2>b, <3>1
    <3>2. CASE i # (n + 1) + 1
      <4>1. i \in 1..(n + 1) /\ (i # 1 => i - 1 \in 1..(n + 1))
        BY <3>2
      <4>2. g[i] = f[i] /\ (i # 1 => g[i-1] = f[i-1])
        BY <4>1, <3>2
      <4>3. f[i] = IF i = 1 THEN q[i] ELSE f[i-1] \o q[i]
        BY <4>1, <2>2
      <4> HIDE DEF g
      <4>4. QED
        BY <4>2, <4>3
    <3>3. QED
      BY <3>1, <3>2
  <2>5. g = [i \in 1..((n + 1) + 1) |-> IF i = 1 THEN q[i] ELSE g[i-1] \o q[i]]
    <3>1. g = [i \in 1..((n + 1) + 1) |-> g[i]]
      BY <2>3
    <3> HIDE DEF g
    <3>2. QED
      BY <3>1, <2>4
  <2>6. QED
    BY <2>3, <2>5, Zenon
<1> HIDE DEF P
<1>3. Nat \subseteq I
  <2>1. 0 \in I
    BY <1>1
  <2>2. \A n \in Nat : n \in I => n + 1 \in I
    BY <1>2
  <2> HIDE DEF I
  <2>3. QED
    BY <2>1, <2>2, SetInduction
<1> DEFINE m == Len(q) - 1
<1>4. m \in Nat /\ m + 1 <= Len(q) /\ m + 1 = Len(q)
  BY <1>0
<1>5. \E f \in [1..(m + 1) -> Seq(S)] : Q(m + 1, f)
  <2>1. P(m)
    BY <1>3, <1>4
  <2>2. QED
    BY <2>1, <1>4, Zenon DEF P
<1>6. \E f \in [1..Len(q) -> Seq(S)] : Q(Len(q), f)
  <2> HIDE DEF Q, m
  <2>1. QED
    BY <1>4, <1>5
<1>7. PICK f \in [1..Len(q) -> Seq(S)] : Q(Len(q), f)
  BY <1>6, Zenon
<1> DEFINE g == CHOOSE h : Q(Len(q), h)
<1>8. FlattenSeq(q) = g[Len(q)]
  BY DEF FlattenSeq
<1>9. Q(Len(q), g)
  BY <1>7, Zenon
<1> HIDE DEF g
<1>10. DOMAIN g = 1..Len(q)
  BY <1>9
<1>11. /\ g = [i \in 1..Len(q) |-> g[i]]
       /\ g[1] = q[1]
       /\ \A i \in 2..Len(q) : g[i] = g[i-1] \o q[i]
  <2>1. g = [i \in 1..Len(q) |-> IF i = 1 THEN q[i] ELSE g[i-1] \o q[i]]
    BY <1>9, Zenon
  <2>2. ASSUME NEW i \in 1..Len(q) PROVE g[i] = IF i = 1 THEN q[i] ELSE g[i-1] \o q[i]
    BY <2>1, Zenon
  <2>3. g = [i \in 1..Len(q) |-> g[i]]
    BY <2>1, Zenon
  <2>4. 1 \in 1..Len(q) /\ \A i \in 2..Len(q) : i \in 1..Len(q) /\ i # 1
    BY <1>0
  <2>5. g[1] = q[1]
    BY <2>2, <2>4, Zenon
  <2>6. \A i \in 2..Len(q) : g[i] = g[i-1] \o q[i]
    BY <2>2, <2>4, Zenon
  <2>7. QED
    BY <2>3, <2>5, <2>6, Zenon
<1> HIDE DEF Q
<1> DEFINE R == {n \in Nat : n + 1 <= Len(q) => g[n + 1] \in Seq(S)}
<1>12. Nat \subseteq R
  <2>1. 0 \in R
    BY <1>0, <1>11
  <2>2. ASSUME NEW n \in Nat, n \in R PROVE n + 1 \in R
    <3> SUFFICES ASSUME (n + 1) + 1 <= Len(q) PROVE g[(n + 1) + 1] \in Seq(S)
      OBVIOUS
    <3>1. g[n + 1] \in Seq(S) /\ q[(n + 1) + 1] \in Seq(S)
      BY <1>0, <2>2
    <3>2. g[n + 1] \o q[(n + 1) + 1] \in Seq(S)
      BY <3>1, ConcatProperties
    <3>3. (n + 1) + 1 \in 2..Len(q) /\ ((n + 1) + 1) - 1 = n + 1
      BY <1>0
    <3>4. QED
      BY <3>2, <3>3, <1>11
  <2> HIDE DEF R
  <2>3. QED
    BY <2>1, <2>2, SetInduction
<1>13. \A i \in 1..Len(q) : g[i] \in Seq(S)
  <2>1. ASSUME NEW i \in 1..Len(q) PROVE g[i] \in Seq(S)
    <3> DEFINE n == i - 1
    <3>1. n \in Nat /\ n + 1 = i /\ n + 1 <= Len(q)
      BY <1>0
    <3> HIDE DEF n
    <3>2. g[n + 1] \in Seq(S)
      BY <3>1, <1>12
    <3>3. QED
      BY <3>1, <3>2
  <2>2. QED
    BY <2>1
<1>14. g \in [1..Len(q) -> Seq(S)]
  BY <1>11, <1>13
<1>15. InARow(q, g)
  BY <1>11, Zenon DEF InARow, Same
<1>16. QED
  BY <1>8, <1>14, <1>15, Zenon DEF Flattened, Same

(* Concatenation and lists of one element under names of their own.        *)
Cat(a, b) == a \o b
One(x) == <<x>>

(* Around and Same in these terms.                                         *)
LEMMA CatNames ==
  /\ \A s, a, x, c : Around(s, a, x, c) <=> s = Cat(Cat(a, One(x)), c)
  /\ \A s, a, c : Same(s, a \o c) <=> s = Cat(a, c)
  BY Zenon DEF Around, Same, Cat, One

(* A list of one element.                                                  *)
LEMMA OneFacts ==
  ASSUME NEW S, NEW x \in S
  PROVE  One(x) \in Seq(S) /\ Len(One(x)) = 1 /\ One(x)[1] = x
BY DEF One

(* The length of two lists in a row.                                       *)
LEMMA CatFacts ==
  ASSUME NEW S, NEW a \in Seq(S), NEW b \in Seq(S)
  PROVE  Cat(a, b) \in Seq(S) /\ Len(Cat(a, b)) = Len(a) + Len(b)
BY ConcatProperties DEF Cat

(* The empty list changes nothing.                                         *)
LEMMA CatEmpty ==
  ASSUME NEW S, NEW a \in Seq(S)
  PROVE  << >> \in Seq(S) /\ Cat(a, << >>) = a /\ Cat(<< >>, a) = a
<1>1. a \o << >> = a /\ << >> \o a = a
  BY ConcatEmptySeq
<1>2. << >> \in Seq(S)
  BY EmptySeq
<1>3. QED
  BY <1>1, <1>2, Zenon DEF Cat

(* Concatenation is associative.                                           *)
LEMMA CatThree ==
  ASSUME NEW S, NEW a \in Seq(S), NEW b \in Seq(S), NEW c \in Seq(S)
  PROVE  Cat(Cat(a, b), c) = Cat(a, Cat(b, c))
<1>1. (a \o b) \o c = a \o (b \o c)
  BY ConcatAssociative
<1>2. QED
  BY <1>1, Zenon DEF Cat

(* Two ways to cut a list at the same length give the same parts.          *)
LEMMA CatCancel ==
  ASSUME NEW S, NEW a \in Seq(S), NEW b \in Seq(S), NEW c \in Seq(S), NEW d \in Seq(S),
         Cat(a, b) = Cat(c, d), Len(a) = Len(c)
  PROVE  a = c /\ b = d
<1>1. /\ SubSeq(a \o b, 1, Len(a)) = a
      /\ SubSeq(a \o b, Len(a) + 1, Len(a \o b)) = b
  BY SeqHalves
<1>2. /\ SubSeq(c \o d, 1, Len(c)) = c
      /\ SubSeq(c \o d, Len(c) + 1, Len(c \o d)) = d
  BY SeqHalves
<1>3. a \o b = c \o d
  BY Zenon DEF Cat
<1>4. QED
  BY <1>1, <1>2, <1>3, Zenon

(* Every list that is not empty ends in an element.                        *)
LEMMA CatLast ==
  ASSUME NEW S, NEW s \in Seq(S), Len(s) # 0
  PROVE  \E a \in Seq(S), x \in S : s = Cat(a, One(x)) /\ Len(s) = Len(a) + 1
<1>1. s # << >>
  BY EmptySeq
<1>2. PICK a \in Seq(S), x \in S : s = Append(a, x)
  BY <1>1, SequenceEmptyOrAppend
<1>3. Append(a, x) = a \o <<x>>
  BY AppendIsConcat
<1>4. s = Cat(a, One(x))
  BY <1>2, <1>3, Zenon DEF Cat, One
<1>5. Len(s) = Len(a) + 1
  <2>1. One(x) \in Seq(S) /\ Len(One(x)) = 1
    BY OneFacts
  <2>2. Len(Cat(a, One(x))) = Len(a) + Len(One(x))
    BY <2>1, CatFacts
  <2>3. QED
    BY <1>4, <2>1, <2>2
<1>6. QED
  BY <1>4, <1>5

(* Induction over lists, for a set of them.                                *)
LEMMA ListInduction ==
  ASSUME NEW S, NEW I, << >> \in I,
         \A a \in Seq(S), x \in S : a \in I => Cat(a, One(x)) \in I
  PROVE  Seq(S) \subseteq I
<1> DEFINE N == {n \in Nat : \A s \in Seq(S) : Len(s) = n => s \in I}
<1>1. 0 \in N
  <2>1. ASSUME NEW s \in Seq(S), Len(s) = 0 PROVE s \in I
    <3>1. s = << >>
      BY <2>1, EmptySeq
    <3>2. QED
      BY <3>1
  <2>2. QED
    BY <2>1
<1>2. ASSUME NEW n \in Nat, n \in N PROVE n + 1 \in N
  <2>1. ASSUME NEW s \in Seq(S), Len(s) = n + 1 PROVE s \in I
    <3>1. PICK a \in Seq(S), x \in S : s = Cat(a, One(x)) /\ Len(s) = Len(a) + 1
      BY <2>1, CatLast
    <3>2. Len(a) = n
      BY <2>1, <3>1, LenProperties
    <3>3. a \in I
      BY <1>2, <3>2
    <3>4. QED
      BY <3>1, <3>3
  <2>2. QED
    BY <2>1
<1> HIDE DEF N
<1>3. Nat \subseteq N
  BY <1>1, <1>2, SetInduction
<1>4. ASSUME NEW s \in Seq(S) PROVE s \in I
  <2>1. Len(s) \in N
    BY <1>3, LenProperties
  <2>2. QED
    BY <2>1 DEF N
<1>5. QED
  BY <1>4

(* FlattenSeq of no lists, and of one list more.                           *)
LEMMA FlattenMore ==
  ASSUME NEW S, NEW q \in Seq(Seq(S)), NEW e \in Seq(S)
  PROVE  /\ FlattenSeq(<< >>) = << >>
         /\ FlattenSeq(q) \in Seq(S)
         /\ FlattenSeq(Append(q, e)) = Cat(FlattenSeq(q), e)
<1> DEFINE w == Append(q, e)
           n == Len(q)
<1>1. /\ w \in Seq(Seq(S)) /\ Len(w) = n + 1 /\ n \in Nat
      /\ \A i \in 1..n : w[i] = q[i]
      /\ w[n + 1] = e
  BY AppendProperties, LenProperties
<1>2. FlattenSeq(<< >>) = << >>
  BY DEF FlattenSeq
<1> HIDE DEF w
<1>3. Flattened(S, w)
  BY <1>1, FlattenEquations
<1>4. PICK g \in [1..(n + 1) -> Seq(S)] : InARow(w, g) /\ Same(FlattenSeq(w), g[n + 1])
  BY <1>1, <1>3, Zenon DEF Flattened
<1>5. /\ g[1] = w[1]
      /\ \A i \in 2..(n + 1) : g[i] = Cat(g[i-1], w[i])
  BY <1>1, <1>4, Zenon DEF InARow, Same, Cat
<1>6. FlattenSeq(w) = g[n + 1]
  BY <1>4 DEF Same
<1>7. CASE n = 0
  <2>1. q = << >>
    BY <1>7, EmptySeq
  <2>2. FlattenSeq(w) = e
    BY <1>1, <1>5, <1>6, <1>7
  <2>3. Cat(<< >>, e) = e /\ << >> \in Seq(S)
    BY CatEmpty
  <2>4. QED
    BY <1>2, <2>1, <2>2, <2>3, Zenon DEF w
<1>8. CASE n # 0
  <2>1. Flattened(S, q)
    BY <1>8, FlattenEquations
  <2>2. PICK f \in [1..n -> Seq(S)] : InARow(q, f) /\ Same(FlattenSeq(q), f[n])
    BY <2>1, Zenon DEF Flattened
  <2>3. /\ f[1] = q[1]
        /\ \A i \in 2..n : f[i] = Cat(f[i-1], q[i])
    BY <2>2, Zenon DEF InARow, Same, Cat
  <2>4. FlattenSeq(q) = f[n]
    BY <2>2 DEF Same
  <2> DEFINE J == {k \in Nat : k + 1 <= n => f[k + 1] = g[k + 1]}
  <2>5. 0 \in J
    BY <1>1, <1>5, <2>3
  <2>6. ASSUME NEW k \in Nat, k \in J PROVE k + 1 \in J
    <3> SUFFICES ASSUME (k + 1) + 1 <= n PROVE f[(k + 1) + 1] = g[(k + 1) + 1]
      OBVIOUS
    <3>1. f[k + 1] = g[k + 1]
      BY <1>1, <2>6
    <3>2. /\ (k + 1) + 1 \in 2..n /\ (k + 1) + 1 \in 2..(n + 1) /\ (k + 1) + 1 \in 1..n
          /\ ((k + 1) + 1) - 1 = k + 1
      BY <1>1
    <3>3. w[(k + 1) + 1] = q[(k + 1) + 1]
      BY <1>1, <3>2
    <3>4. f[(k + 1) + 1] = Cat(f[k + 1], q[(k + 1) + 1])
      BY <2>3, <3>2
    <3>5. g[(k + 1) + 1] = Cat(g[k + 1], w[(k + 1) + 1])
      BY <1>5, <3>2
    <3>6. QED
      BY <3>1, <3>3, <3>4, <3>5
  <2> HIDE DEF J
  <2>7. Nat \subseteq J
    BY <2>5, <2>6, SetInduction
  <2>8. f[n] = g[n]
    <3> DEFINE k == n - 1
    <3>1. k \in Nat /\ k + 1 = n
      BY <1>1, <1>8
    <3> HIDE DEF k
    <3>2. k \in J /\ k + 1 <= n
      BY <2>7, <3>1
    <3>3. QED
      BY <3>1, <3>2 DEF J
  <2>9. n + 1 \in 2..(n + 1) /\ (n + 1) - 1 = n /\ n \in 1..n
    BY <1>1, <1>8
  <2>10. g[n + 1] = Cat(g[n], e)
    BY <1>1, <1>5, <2>9
  <2>11. FlattenSeq(w) = Cat(FlattenSeq(q), e)
    BY <1>6, <2>4, <2>8, <2>10
  <2>12. FlattenSeq(q) \in Seq(S)
    BY <2>2, <2>4, <2>9
  <2>13. QED
    BY <1>2, <2>11, <2>12, Zenon DEF w
<1>9. QED
  BY <1>7, <1>8, Zenon

(* v has a list for each element of B.                                     *)
Lists(v, B, S) == v \in [B -> Seq(S)]

(* Each element of s spread out to the list that v makes of it.            *)
Spread(v, s) == FlattenSeq([i \in 1..Len(s) |-> v[s[i]]])

(* Nothing spreads to nothing.                                             *)
LEMMA SpreadEmpty ==
  ASSUME NEW v
  PROVE  Spread(v, << >>) = << >>
<1>1. [i \in 1..Len(<< >>) |-> v[<< >>[i]]] = << >>
  BY EmptySeq
<1>2. Spread(v, << >>) = FlattenSeq(<< >>)
  BY <1>1, Zenon DEF Spread
<1>3. FlattenSeq(<< >>) = << >>
  BY DEF FlattenSeq
<1>4. QED
  BY <1>2, <1>3

(* Lists spread to lists.                                                  *)
LEMMA SpreadType ==
  ASSUME NEW S, NEW B, NEW v, Lists(v, B, S), NEW s \in Seq(B)
  PROVE  Spread(v, s) \in Seq(S)
<1> DEFINE q == [i \in 1..Len(s) |-> v[s[i]]]
<1>1. Len(s) \in Nat /\ \A i \in 1..Len(s) : s[i] \in B
  BY LenProperties, ElementOfSeq
<1>2. q \in Seq(Seq(S))
  BY <1>1 DEF Lists
<1> HIDE DEF q
<1>3. << >> \in Seq(S)
  BY EmptySeq
<1>4. FlattenSeq(q) \in Seq(S)
  BY <1>2, <1>3, FlattenMore
<1>5. QED
  BY <1>4, Zenon DEF Spread, q

(* One element more adds its list.                                         *)
LEMMA SpreadMore ==
  ASSUME NEW S, NEW B, NEW v, Lists(v, B, S), NEW s \in Seq(B), NEW x \in B
  PROVE  Spread(v, Cat(s, One(x))) = Cat(Spread(v, s), v[x])
<1> DEFINE q == [i \in 1..Len(s) |-> v[s[i]]]
           w == Cat(s, One(x))
           r == [i \in 1..Len(w) |-> v[w[i]]]
<1>1. Len(s) \in Nat /\ \A i \in 1..Len(s) : s[i] \in B
  BY LenProperties, ElementOfSeq
<1>2. q \in Seq(Seq(S)) /\ Len(q) = Len(s) /\ \A i \in 1..Len(s) : q[i] = v[s[i]]
  BY <1>1 DEF Lists
<1>3. /\ w \in Seq(B) /\ Len(w) = Len(s) + 1
      /\ \A i \in 1..Len(s) : w[i] = s[i]
      /\ w[Len(s) + 1] = x
  <2>1. Append(s, x) = w
    BY AppendIsConcat, Zenon DEF Cat, One
  <2>2. /\ Append(s, x) \in Seq(B) /\ Len(Append(s, x)) = Len(s) + 1
        /\ \A i \in 1..Len(s) : Append(s, x)[i] = s[i]
        /\ Append(s, x)[Len(s) + 1] = x
    BY AppendProperties
  <2> HIDE DEF w
  <2>3. QED
    BY <2>1, <2>2, Zenon
<1> HIDE DEF w
<1>5. v[x] \in Seq(S)
  BY DEF Lists
<1> DEFINE e == v[x]
<1> HIDE DEF q, e
<1>6. r = Append(q, e)
  <2>1. /\ Append(q, e) \in Seq(Seq(S)) /\ Len(Append(q, e)) = Len(s) + 1
        /\ \A i \in 1..Len(s) : Append(q, e)[i] = q[i]
        /\ Append(q, e)[Len(s) + 1] = e
    BY <1>2, <1>5, AppendProperties DEF e
  <2>2. r \in Seq(Seq(S)) /\ Len(r) = Len(s) + 1 /\ \A i \in 1..(Len(s) + 1) : r[i] = v[w[i]]
    <3>1. \A i \in 1..Len(w) : w[i] \in B
      BY <1>3, ElementOfSeq
    <3>2. QED
      BY <1>1, <1>3, <3>1 DEF Lists
  <2> HIDE DEF r
  <2> DEFINE t == Append(q, e)
  <2> HIDE DEF t
  <2>3. ASSUME NEW i \in 1..(Len(s) + 1) PROVE r[i] = t[i]
    <3>1. CASE i = Len(s) + 1
      BY <1>1, <1>3, <2>1, <2>2, <3>1 DEF e, t
    <3>2. CASE i # Len(s) + 1
      <4>1. i \in 1..Len(s)
        BY <1>1, <3>2
      <4>2. r[i] = v[w[i]] /\ w[i] = s[i]
        BY <1>3, <2>2, <4>1
      <4>3. t[i] = q[i]
        BY <2>1, <4>1 DEF t
      <4>4. q[i] = v[s[i]]
        BY <1>2, <4>1
      <4>5. QED
        BY <4>2, <4>3, <4>4
    <3>3. QED
      BY <3>1, <3>2
  <2>4. t \in Seq(Seq(S)) /\ Len(t) = Len(s) + 1
    BY <2>1 DEF t
  <2>5. r = t
    BY <2>2, <2>3, <2>4, SeqEqual
  <2>6. QED
    BY <2>5 DEF t
<1> HIDE DEF r
<1>7. FlattenSeq(Append(q, e)) = Cat(FlattenSeq(q), e)
  BY <1>2, <1>5, FlattenMore DEF e
<1>9. Spread(v, s) = FlattenSeq(q)
  BY DEF Spread, q
<1>10. Spread(v, w) = FlattenSeq(r)
  BY DEF Spread, r
<1>11. QED
  BY <1>6, <1>7, <1>9, <1>10, Zenon DEF w, e

(* One element spreads to its list.                                        *)
LEMMA SpreadOne ==
  ASSUME NEW S, NEW B, NEW v, Lists(v, B, S), NEW x \in B
  PROVE  Spread(v, One(x)) = v[x]
<1> DEFINE z == << >>
<1>1. z \in Seq(B) /\ z \in Seq(S) /\ Spread(v, z) = z
  BY EmptySeq, SpreadEmpty
<1>2. One(x) \in Seq(B)
  BY OneFacts
<1>3. v[x] \in Seq(S)
  BY DEF Lists
<1>4. Cat(z, One(x)) = One(x) /\ Cat(z, v[x]) = v[x]
  BY <1>2, <1>3, CatEmpty
<1> HIDE DEF z
<1>5. Spread(v, Cat(z, One(x))) = Cat(Spread(v, z), v[x])
  BY <1>1, SpreadMore
<1>6. QED
  BY <1>1, <1>4, <1>5

(* Two lists in a row spread to what each spreads to, in a row.            *)
LEMMA SpreadCat ==
  ASSUME NEW S, NEW B, NEW v, Lists(v, B, S), NEW a \in Seq(B), NEW c \in Seq(B)
  PROVE  /\ Spread(v, Cat(a, c)) = Cat(Spread(v, a), Spread(v, c))
         /\ Spread(v, a) \in Seq(S) /\ Spread(v, c) \in Seq(S)
<1> DEFINE I == {t \in Seq(B) : Spread(v, Cat(a, t)) = Cat(Spread(v, a), Spread(v, t))}
<1>1. \A t \in Seq(B) : Spread(v, t) \in Seq(S)
  BY SpreadType
<1>2. << >> \in I
  <2>1. << >> \in Seq(B) /\ Cat(a, << >>) = a
    BY CatEmpty
  <2>2. Spread(v, << >>) = << >>
    BY SpreadEmpty
  <2>3. Spread(v, a) \in Seq(S)
    BY <1>1
  <2>4. Cat(Spread(v, a), << >>) = Spread(v, a)
    BY <2>3, CatEmpty
  <2>5. QED
    BY <2>1, <2>2, <2>4
<1>3. ASSUME NEW t \in Seq(B), NEW x \in B, t \in I PROVE Cat(t, One(x)) \in I
  <2>1. One(x) \in Seq(B)
    BY OneFacts
  <2>2. Cat(t, One(x)) \in Seq(B) /\ Cat(a, t) \in Seq(B)
    BY <2>1, CatFacts
  <2>3. Cat(a, Cat(t, One(x))) = Cat(Cat(a, t), One(x))
    BY <2>1, CatThree
  <2>4. Spread(v, Cat(Cat(a, t), One(x))) = Cat(Spread(v, Cat(a, t)), v[x])
    BY <2>2, SpreadMore
  <2>5. Spread(v, Cat(t, One(x))) = Cat(Spread(v, t), v[x])
    BY SpreadMore
  <2>6. Spread(v, Cat(a, t)) = Cat(Spread(v, a), Spread(v, t))
    BY <1>3
  <2>7. v[x] \in Seq(S) /\ Spread(v, a) \in Seq(S) /\ Spread(v, t) \in Seq(S)
    BY <1>1 DEF Lists
  <2>8. Cat(Cat(Spread(v, a), Spread(v, t)), v[x]) = Cat(Spread(v, a), Cat(Spread(v, t), v[x]))
    BY <2>7, CatThree
  <2>9. QED
    BY <2>2, <2>3, <2>4, <2>5, <2>6, <2>8
<1> HIDE DEF I
<1>4. Seq(B) \subseteq I
  BY <1>2, <1>3, ListInduction
<1>5. c \in I
  BY <1>4
<1>6. QED
  BY <1>1, <1>5 DEF I

(* A list with x in the middle spreads to a list with v[x] in the middle.  *)
LEMMA SpreadAround ==
  ASSUME NEW S, NEW B, NEW v, Lists(v, B, S),
         NEW a \in Seq(B), NEW x \in B, NEW c \in Seq(B), NEW s, Around(s, a, x, c)
  PROVE  Spread(v, s) = Cat(Cat(Spread(v, a), v[x]), Spread(v, c))
<1>1. s = Cat(Cat(a, One(x)), c)
  BY CatNames
<1>2. One(x) \in Seq(B)
  BY OneFacts
<1>3. Cat(a, One(x)) \in Seq(B)
  BY <1>2, CatFacts
<1>4. Spread(v, Cat(Cat(a, One(x)), c)) = Cat(Spread(v, Cat(a, One(x))), Spread(v, c))
  BY <1>3, SpreadCat
<1>5. Spread(v, Cat(a, One(x))) = Cat(Spread(v, a), v[x])
  BY SpreadMore
<1>6. QED
  BY <1>1, <1>4, <1>5

(* What a list spreads to depends on the lists of its elements only.       *)
LEMMA SpreadEqual ==
  ASSUME NEW v, NEW w, NEW s, \A i \in 1..Len(s) : v[s[i]] = w[s[i]]
  PROVE  Spread(v, s) = Spread(w, s)
<1>1. [i \in 1..Len(s) |-> v[s[i]]] = [i \in 1..Len(s) |-> w[s[i]]]
  OBVIOUS
<1>2. QED
  BY <1>1, Zenon DEF Spread

(* Removing and replacing the element in the middle.                       *)
LEMMA CatEdits ==
  ASSUME NEW S, NEW a \in Seq(S), NEW x \in S, NEW c \in Seq(S),
         NEW s, s = Cat(Cat(a, One(x)), c), NEW i, i = Len(a) + 1, NEW e \in S
  PROVE  /\ s \in Seq(S) /\ i \in 1..Len(s) /\ s[i] = x
         /\ RemoveAt(s, i) = Cat(a, c)
         /\ ReplaceAt(s, i, e) = Cat(Cat(a, One(e)), c)
<1>1. Around(s, a, x, c)
  BY CatNames
<1>2. Same(RemoveAt(s, i), a \o c) /\ Around(ReplaceAt(s, i, e), a, e, c)
  BY <1>1, SeqEdits
<1>3. s \in Seq(S) /\ Len(a) + 1 \in 1..Len(s) /\ s[Len(a) + 1] = x
  BY <1>1, AroundPosition
<1>4. RemoveAt(s, i) = Cat(a, c)
  BY <1>2, CatNames
<1>5. ReplaceAt(s, i, e) = Cat(Cat(a, One(e)), c)
  BY <1>2, CatNames
<1>6. QED
  BY <1>3, <1>4, <1>5, Zenon

(* Inserting an element between two parts.                                 *)
LEMMA CatInsert ==
  ASSUME NEW S, NEW a \in Seq(S), NEW c \in Seq(S),
         NEW s, s = Cat(a, c), NEW i, i = Len(a) + 1, NEW e \in S
  PROVE  InsertAt(s, i, e) = Cat(Cat(a, One(e)), c)
<1>1. s \in Seq(S) /\ Len(s) = Len(a) + Len(c)
  BY CatFacts
<1>2. Len(a) \in Nat /\ Len(c) \in Nat
  BY LenProperties
<1>3. i \in 1..(Len(s) + 1)
  BY <1>1, <1>2
<1>4. Inserted(S, s, i, e)
  BY <1>1, <1>3, SeqInsert
<1>5. PICK b, d \in Seq(S) :
        Same(s, b \o d) /\ Len(b) = i - 1 /\ Around(InsertAt(s, i, e), b, e, d)
  BY <1>4 DEF Inserted
<1>6. s = Cat(b, d)
  BY <1>5, CatNames
<1>7. Len(b) = Len(a)
  BY <1>2, <1>5
<1>8. a = b /\ c = d
  BY <1>6, <1>7, CatCancel
<1>9. QED
  BY <1>5, <1>8, CatNames

(* Of two elements of a list the one comes before the other.               *)
LEMMA CatTwice ==
  ASSUME NEW S, NEW a \in Seq(S), NEW x \in S, NEW c \in Seq(S),
         NEW b \in Seq(S), NEW y \in S, NEW d \in Seq(S),
         Cat(Cat(a, One(x)), c) = Cat(Cat(b, One(y)), d), Len(a) < Len(b)
  PROVE  \E e \in Seq(S) : b = Cat(Cat(a, One(x)), e) /\ c = Cat(Cat(e, One(y)), d)
<1> DEFINE n == Len(a) + 1
           l == SubSeq(b, 1, n)
           e == SubSeq(b, n + 1, Len(b))
           ax == Cat(a, One(x))
<1>1. Len(a) \in Nat /\ Len(b) \in Nat /\ n \in 1..Len(b)
  BY LenProperties
<1>2. l \in Seq(S) /\ Len(l) = n /\ e \in Seq(S)
  <2>1. \A i \in 1..Len(b) : b[i] \in S
    BY ElementOfSeq
  <2>2. \A i \in 1..n : b[i] \in S
    BY <1>1, <2>1
  <2>3. \A i \in (n + 1)..Len(b) : b[i] \in S
    BY <1>1, <2>1
  <2>4. SubSeq(b, 1, n) \in Seq(S) /\ Len(SubSeq(b, 1, n)) = IF 1 <= n THEN n - 1 + 1 ELSE 0
    BY <1>1, <2>2, SubSeqProperties
  <2>5. SubSeq(b, n + 1, Len(b)) \in Seq(S)
    BY <1>1, <2>3, SubSeqProperties
  <2>6. QED
    BY <1>1, <2>4, <2>5
<1>3. b = Cat(l, e)
  <2>1. SubSeq(b, 1, n) \o SubSeq(b, n + 1, Len(b)) = SubSeq(b, 1, Len(b))
    <3>1. 1 \in 1..(Len(b) + 1) /\ n \in (1 - 1)..Len(b) /\ Len(b) \in n..Len(b)
      BY <1>1
    <3> HIDE DEF n
    <3>2. QED
      BY <3>1, ConcatAdjacentSubSeq
  <2>2. SubSeq(b, 1, Len(b)) = b
    BY SubSeqFull
  <2>3. QED
    BY <2>1, <2>2, Zenon DEF Cat
<1>4. One(x) \in Seq(S) /\ Len(One(x)) = 1 /\ One(y) \in Seq(S)
  BY OneFacts
<1>5. ax \in Seq(S) /\ Len(ax) = n
  BY <1>4, CatFacts
<1> HIDE DEF l, e, ax, n
<1>6. Cat(One(y), d) \in Seq(S) /\ Cat(e, Cat(One(y), d)) \in Seq(S)
  BY <1>2, <1>4, CatFacts
<1>7. Cat(Cat(b, One(y)), d) = Cat(b, Cat(One(y), d))
  BY <1>4, CatThree
<1>8. Cat(Cat(l, e), Cat(One(y), d)) = Cat(l, Cat(e, Cat(One(y), d)))
  BY <1>2, <1>6, CatThree
<1>9. Cat(ax, c) = Cat(l, Cat(e, Cat(One(y), d)))
  BY <1>3, <1>7, <1>8, Zenon DEF ax
<1>10. ax = l /\ c = Cat(e, Cat(One(y), d))
  BY <1>2, <1>5, <1>6, <1>9, CatCancel
<1>11. Cat(Cat(e, One(y)), d) = Cat(e, Cat(One(y), d))
  BY <1>2, <1>4, CatThree
<1>12. b = Cat(ax, e) /\ c = Cat(Cat(e, One(y)), d)
  BY <1>3, <1>10, <1>11
<1>13. QED
  BY <1>2, <1>12 DEF ax
=============================================================================
