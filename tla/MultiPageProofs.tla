--------------------------- MODULE MultiPageProofs ---------------------------
(***************************************************************************)
(* Proofs about MultiPage: its invariants; and, in the second part, that   *)
(* it implements PageSequence - a multi-page bitmap is a sequence of pages *)
(* for every value of the constants for which the code keeps that promise. *)
(***************************************************************************)
EXTENDS MultiPage, ListLemmas

-----------------------------------------------------------------------------
(* Sums of pages.                                                          *)

(* PagesThrough, a recursive definition, satisfies its equations.          *)
LEMMA CountEquations ==
  ASSUME NEW bs, Len(bs) \in Nat, \A i \in 1..Len(bs) : PagesIn(bs[i]) \in Int
  PROVE  /\ PagesThrough(bs) \in [0..Len(bs) -> Int]
         /\ PagesThrough(bs)[0] = 0
         /\ \A i \in 1..Len(bs) : PagesThrough(bs)[i] = PagesThrough(bs)[i-1] + PagesIn(bs[i])
<1> DEFINE Q(n, f) == f = [i \in 0..n |-> IF i = 0 THEN 0 ELSE f[i-1] + PagesIn(bs[i])]
           P(n) == n <= Len(bs) => \E f \in [0..n -> Int] : Q(n, f)
           S == {n \in Nat : P(n)}
<1>1. P(0)
  <2> DEFINE z == [i \in 0..0 |-> 0]
  <2>1. z \in [0..0 -> Int] /\ Q(0, z)
    OBVIOUS
  <2>2. QED
    BY <2>1, Zenon
<1>2. ASSUME NEW n \in Nat, P(n) PROVE P(n + 1)
  <2> SUFFICES ASSUME n + 1 <= Len(bs) PROVE \E f \in [0..(n+1) -> Int] : Q(n+1, f)
    OBVIOUS
  <2>1. n <= Len(bs)
    OBVIOUS
  <2>2. PICK f \in [0..n -> Int] : Q(n, f)
    BY <1>2, <2>1, Zenon
  <2> DEFINE g == [i \in 0..(n+1) |-> IF i = n + 1 THEN f[n] + PagesIn(bs[n+1]) ELSE f[i]]
  <2>3. g \in [0..(n+1) -> Int]
    BY <2>2
  <2>4. ASSUME NEW i \in 0..(n+1) PROVE g[i] = IF i = 0 THEN 0 ELSE g[i-1] + PagesIn(bs[i])
    <3>1. CASE i = n + 1
      BY <3>1
    <3>2. CASE i # n + 1
      <4>1. i \in 0..n /\ (i # 0 => i - 1 \in 0..n)
        BY <3>2
      <4>2. g[i] = f[i] /\ (i # 0 => g[i-1] = f[i-1])
        BY <4>1, <3>2
      <4>3. f[i] = IF i = 0 THEN 0 ELSE f[i-1] + PagesIn(bs[i])
        BY <4>1, <2>2
      <4>4. QED
        BY <4>2, <4>3
    <3>3. QED
      BY <3>1, <3>2
  <2>5. Q(n+1, g)
    BY <2>3, <2>4
  <2>6. QED
    BY <2>3, <2>5, Zenon
<1> HIDE DEF P
<1>3. Nat \subseteq S
  <2>1. 0 \in S
    BY <1>1
  <2>2. \A n \in Nat : n \in S => n + 1 \in S
    BY <1>2
  <2> HIDE DEF S
  <2>3. QED
    BY <2>1, <2>2, SetInduction
<1>4. \E f \in [0..Len(bs) -> Int] : Q(Len(bs), f)
  <2>1. P(Len(bs))
    BY <1>3
  <2>2. Len(bs) <= Len(bs)
    OBVIOUS
  <2>3. QED
    BY <2>1, <2>2, Zenon DEF P
<1>5. PICK f \in [0..Len(bs) -> Int] : Q(Len(bs), f)
  BY <1>4, Zenon
<1>6. PagesThrough(bs) = CHOOSE g : Q(Len(bs), g)
  BY DEF PagesThrough
<1>7. Q(Len(bs), PagesThrough(bs))
  BY <1>5, <1>6, Zenon
<1> DEFINE g == PagesThrough(bs)
           R == {n \in Nat : n <= Len(bs) => g[n] \in Int}
<1>8. g = [i \in 0..Len(bs) |-> IF i = 0 THEN 0 ELSE g[i-1] + PagesIn(bs[i])]
  BY <1>7
<1> HIDE DEF g
<1>9. DOMAIN g = 0..Len(bs) /\ g = [i \in 0..Len(bs) |-> g[i]]
  BY <1>8
<1>10. g[0] = 0 /\ \A i \in 1..Len(bs) : g[i] = g[i-1] + PagesIn(bs[i])
  BY <1>8
<1>11. Nat \subseteq R
  <2>1. 0 \in R
    BY <1>10
  <2>2. ASSUME NEW n \in Nat, n \in R PROVE n + 1 \in R
    <3>1. CASE n + 1 <= Len(bs)
      <4>1. n + 1 \in 1..Len(bs) /\ (n + 1) - 1 = n
        BY <3>1
      <4>2. g[n+1] = g[n] + PagesIn(bs[n+1])
        BY <4>1, <1>10
      <4>3. QED
        BY <4>1, <4>2, <2>2
    <3>2. QED
      BY <3>1
  <2> HIDE DEF R
  <2>3. QED
    BY <2>1, <2>2, SetInduction
<1>12. \A i \in 0..Len(bs) : g[i] \in Int
  BY <1>11
<1>13. QED
  BY <1>9, <1>10, <1>12 DEF g

(* Blocks have a number of pages, and a list of them the sum.              *)
LEMMA Counts ==
  ASSUME NEW S, \A b \in S : PagesIn(b) \in Nat, NEW bs \in Seq(S)
  PROVE  /\ Len(bs) \in Nat
         /\ PagesThrough(bs) \in [0..Len(bs) -> Nat]
         /\ PagesThrough(bs)[0] = 0
         /\ \A i \in 1..Len(bs) : PagesThrough(bs)[i] = PagesThrough(bs)[i-1] + PagesIn(bs[i])
         /\ \A i \in 1..Len(bs) : bs[i] \in S /\ PagesIn(bs[i]) \in Nat
<1> DEFINE g == PagesThrough(bs)
           R == {n \in Nat : n <= Len(bs) => g[n] \in Nat}
<1>1. Len(bs) \in Nat /\ \A i \in 1..Len(bs) : bs[i] \in S /\ PagesIn(bs[i]) \in Nat
  BY LenProperties, ElementOfSeq
<1>2. /\ g \in [0..Len(bs) -> Int] /\ g[0] = 0
      /\ \A i \in 1..Len(bs) : g[i] = g[i-1] + PagesIn(bs[i])
  BY <1>1, CountEquations
<1> HIDE DEF g
<1>3. Nat \subseteq R
  <2>1. 0 \in R
    BY <1>2
  <2>2. ASSUME NEW n \in Nat, n \in R PROVE n + 1 \in R
    <3>1. CASE n + 1 <= Len(bs)
      <4>1. n + 1 \in 1..Len(bs) /\ (n + 1) - 1 = n
        BY <3>1
      <4>2. g[n+1] = g[n] + PagesIn(bs[n+1])
        BY <4>1, <1>2
      <4>3. QED
        BY <4>1, <4>2, <2>2, <1>1
    <3>2. QED
      BY <3>1
  <2> HIDE DEF R
  <2>3. QED
    BY <2>1, <2>2, SetInduction
<1>4. \A i \in 0..Len(bs) : g[i] \in Nat
  BY <1>3
<1>5. g \in [0..Len(bs) -> Nat]
  BY <1>2, <1>4
<1>6. QED
  BY <1>1, <1>2, <1>5 DEF g

(* The sum of no block, and of one.                                        *)
LEMMA TotalSmall ==
  ASSUME NEW S, \A b \in S : PagesIn(b) \in Nat
  PROVE  /\ Total(<< >>) = 0
         /\ \A x \in S : Total(<<x>>) = PagesIn(x)
<1>1. Total(<< >>) = 0
  <2> DEFINE e == << >>
  <2>1. e \in Seq(S) /\ Len(e) = 0
    OBVIOUS
  <2> HIDE DEF e
  <2>2. PagesThrough(e)[0] = 0
    BY <2>1, Counts
  <2>3. QED
    BY <2>1, <2>2 DEF Total, e
<1>2. ASSUME NEW x \in S PROVE Total(<<x>>) = PagesIn(x)
  <2> DEFINE e == <<x>>
  <2>1. e \in Seq(S) /\ Len(e) = 1 /\ e[1] = x
    OBVIOUS
  <2> HIDE DEF e
  <2>2. /\ PagesThrough(e)[0] = 0
        /\ \A i \in 1..Len(e) : PagesThrough(e)[i] = PagesThrough(e)[i-1] + PagesIn(e[i])
    BY <2>1, Counts
  <2>3. 1 \in 1..Len(e) /\ 1 - 1 = 0
    BY <2>1
  <2>4. PagesThrough(e)[1] = 0 + PagesIn(x)
    BY <2>1, <2>2, <2>3
  <2>5. QED
    BY <2>1, <2>4 DEF Total, e
<1>3. QED
  BY <1>1, <1>2

(* Counting through a \o b counts through a and goes on through b.         *)
LEMMA CountsConcat ==
  ASSUME NEW S, \A b \in S : PagesIn(b) \in Nat, NEW a \in Seq(S), NEW c \in Seq(S)
  PROVE  /\ \A i \in 0..Len(a) : PagesThrough(a \o c)[i] = PagesThrough(a)[i]
         /\ \A j \in 0..Len(c) : PagesThrough(a \o c)[Len(a) + j] = Total(a) + PagesThrough(c)[j]
         /\ Total(a \o c) = Total(a) + Total(c)
         /\ Total(a) \in Nat
<1> DEFINE s == a \o c
           f == PagesThrough(s)
           g == PagesThrough(a)
           h == PagesThrough(c)
           A == {n \in Nat : n <= Len(a) => f[n] = g[n]}
           C == {n \in Nat : n <= Len(c) => f[Len(a) + n] = Total(a) + h[n]}
<1>1. s \in Seq(S) /\ Len(s) = Len(a) + Len(c) /\ Len(a) \in Nat /\ Len(c) \in Nat
  BY ConcatProperties, LenProperties
<1>a. InTwo(s, a, c)
  BY ConcatInTwo
<1> HIDE DEF s
<1>2. /\ \A i \in 1..Len(a) : i \in 1..Len(s) /\ s[i] = a[i]
      /\ \A j \in 1..Len(c) : Len(a) + j \in 1..Len(s) /\ s[Len(a) + j] = c[j]
      /\ \A k \in 1..Len(s) : \/ k \in 1..Len(a)
                              \/ \E j \in 1..Len(c) : k = Len(a) + j
  BY <1>a DEF InTwo
<1>3. /\ f[0] = 0 /\ \A i \in 1..Len(s) : f[i] = f[i-1] + PagesIn(s[i])
  BY <1>1, Counts
<1>4. /\ g \in [0..Len(a) -> Nat] /\ g[0] = 0
      /\ \A i \in 1..Len(a) : g[i] = g[i-1] + PagesIn(a[i])
  BY Counts
<1>5. /\ h \in [0..Len(c) -> Nat] /\ h[0] = 0
      /\ \A i \in 1..Len(c) : h[i] = h[i-1] + PagesIn(c[i]) /\ PagesIn(c[i]) \in Nat
  BY Counts
<1>6. Total(a) = g[Len(a)] /\ Total(c) = h[Len(c)] /\ Total(s) = f[Len(s)] /\ Total(a) \in Nat
  <2>1. Total(a) = g[Len(a)] /\ Total(c) = h[Len(c)] /\ Total(s) = f[Len(s)]
    BY DEF Total
  <2> HIDE DEF f, g, h
  <2>2. Len(a) \in 0..Len(a)
    BY <1>1
  <2>3. QED
    BY <2>1, <2>2, <1>4
<1> HIDE DEF f, g, h
<1>7. Nat \subseteq A
  <2>1. 0 \in A
    BY <1>3, <1>4
  <2>2. ASSUME NEW n \in Nat, n \in A PROVE n + 1 \in A
    <3>1. CASE n + 1 <= Len(a)
      <4>1. n + 1 \in 1..Len(a) /\ (n + 1) - 1 = n
        BY <3>1, <1>1
      <4>2. g[n+1] = g[n] + PagesIn(a[n+1])
        BY <4>1, <1>4
      <4>3. f[n+1] = f[n] + PagesIn(a[n+1])
        BY <4>1, <1>3, <1>2
      <4>4. QED
        BY <4>1, <4>2, <4>3, <2>2
    <3>2. QED
      BY <3>1
  <2> HIDE DEF A
  <2>3. QED
    BY <2>1, <2>2, SetInduction
<1>8. \A i \in 0..Len(a) : f[i] = g[i]
  BY <1>7, <1>1
<1>9. Nat \subseteq C
  <2>1. 0 \in C
    <3>1. f[Len(a) + 0] = g[Len(a)]
      BY <1>8, <1>1
    <3>2. QED
      BY <3>1, <1>5, <1>6
  <2>2. ASSUME NEW n \in Nat, n \in C PROVE n + 1 \in C
    <3>1. CASE n + 1 <= Len(c)
      <4>1. n + 1 \in 1..Len(c) /\ (n + 1) - 1 = n /\ n \in 0..Len(c)
        BY <3>1, <1>1
      <4>2. h[n+1] = h[n] + PagesIn(c[n+1]) /\ PagesIn(c[n+1]) \in Nat /\ h[n] \in Nat
        BY <4>1, <1>5
      <4> DEFINE k == Len(a) + (n + 1)
      <4>3. k \in 1..Len(s) /\ s[k] = c[n+1] /\ k - 1 = Len(a) + n
        BY <4>1, <1>2, <1>1
      <4>4. f[k] = f[k-1] + PagesIn(s[k])
        BY <4>3, <1>3
      <4>5. f[k] = (Total(a) + h[n]) + PagesIn(c[n+1])
        BY <4>3, <4>4, <4>1, <2>2
      <4> HIDE DEF k
      <4>6. f[k] = Total(a) + h[n+1]
        BY <4>2, <4>5, <1>6
      <4>7. QED
        BY <4>6 DEF k
    <3>2. QED
      BY <3>1
  <2> HIDE DEF C
  <2>3. QED
    BY <2>1, <2>2, SetInduction
<1>10. \A j \in 0..Len(c) : f[Len(a) + j] = Total(a) + h[j]
  BY <1>9, <1>1
<1>11. Total(s) = Total(a) + Total(c)
  <2>1. Len(c) \in 0..Len(c)
    BY <1>1
  <2>2. f[Len(a) + Len(c)] = Total(a) + h[Len(c)]
    BY <2>1, <1>10
  <2>3. QED
    BY <2>2, <1>1, <1>6
<1>12. QED
  BY <1>6, <1>8, <1>10, <1>11 DEF f, g, h, s

(* Blocks further on do not count less.                                    *)
LEMMA CountsGrow ==
  ASSUME NEW S, \A b \in S : PagesIn(b) \in Nat, NEW bs \in Seq(S),
         NEW i \in 0..Len(bs), NEW j \in i..Len(bs)
  PROVE  PagesThrough(bs)[i] <= PagesThrough(bs)[j]
<1> DEFINE g == PagesThrough(bs)
           R == {n \in Nat : i + n <= Len(bs) => g[i] <= g[i + n]}
<1>1. /\ Len(bs) \in Nat /\ g \in [0..Len(bs) -> Nat]
      /\ \A k \in 1..Len(bs) : g[k] = g[k-1] + PagesIn(bs[k]) /\ PagesIn(bs[k]) \in Nat
  BY Counts
<1> HIDE DEF g
<1>2. Nat \subseteq R
  <2>1. 0 \in R
    <3>1. i \in 0..Len(bs) /\ i \in Nat
      OBVIOUS
    <3> g[i] \in Nat
      BY <3>1, <1>1
    <3>2. g[i] <= g[i + 0]
      BY <3>1
    <3>3. QED
      BY <3>2
  <2>2. ASSUME NEW n \in Nat, n \in R PROVE n + 1 \in R
    <3>1. CASE i + (n + 1) <= Len(bs)
      <4> DEFINE k == i + (n + 1)
      <4>1. k \in 1..Len(bs) /\ k - 1 = i + n /\ k - 1 \in 0..Len(bs) /\ i + n <= Len(bs)
        BY <3>1, <1>1
      <4>2. g[i] <= g[k-1]
        BY <4>1, <2>2
      <4> HIDE DEF k
      <4>3. g[k] = g[k-1] + PagesIn(bs[k]) /\ PagesIn(bs[k]) \in Nat /\ g[k-1] \in Nat /\ g[i] \in Nat
        BY <4>1, <1>1
      <4>4. g[i] <= g[k]
        BY <4>2, <4>3
      <4>5. QED
        BY <4>4 DEF k
    <3>2. QED
      BY <3>1
  <2> HIDE DEF R
  <2>3. QED
    BY <2>1, <2>2, SetInduction
<1>3. i \in Nat /\ j \in Nat /\ i <= j /\ j <= Len(bs)
  BY <1>1
<1>4. j - i \in Nat /\ i + (j - i) = j
  BY <1>3
<1>5. i + (j - i) <= Len(bs) => g[i] <= g[i + (j - i)]
  BY <1>2, <1>4
<1>6. g[i] <= g[j]
  BY <1>3, <1>4, <1>5
<1>7. QED
  BY <1>6 DEF g

-----------------------------------------------------------------------------
(* Finding and splitting blocks.                                           *)

(* BlockAt gives the block in whose pages the position lies.               *)
LEMMA BlockAtPosition ==
  ASSUME NEW S, \A b \in S : PagesIn(b) \in Nat,
         NEW a \in Seq(S), NEW x \in S, NEW c \in Seq(S),
         NEW bs, Around(bs, a, x, c),
         NEW p \in Nat, Total(a) <= p, p < Total(a) + PagesIn(x)
  PROVE  /\ BlockAt(bs, p) = Len(a) + 1
         /\ bs[BlockAt(bs, p)] = x
         /\ PagesThrough(bs)[BlockAt(bs, p) - 1] = Total(a)
<1> DEFINE i == Len(a) + 1
           g == PagesThrough(bs)
           T == {k \in DOMAIN bs : g[k] > p}
<1>1. /\ bs \in Seq(S) /\ i \in 1..Len(bs) /\ bs[i] = x /\ Len(a) \in Nat /\ DOMAIN bs = 1..Len(bs)
  BY SeqParts, LenProperties DEF Around
<1>2. /\ Len(bs) \in Nat /\ g \in [0..Len(bs) -> Nat] /\ g[i] = g[i-1] + PagesIn(x)
  BY <1>1, Counts
<1>3. g[Len(a)] = Total(a)
  <2> DEFINE zc == <<x>> \o c
  <2>2. zc \in Seq(S) /\ bs = a \o zc
    BY ConcatMiddle DEF Around
  <2> HIDE DEF zc
  <2>3. Len(a) \in 0..Len(a)
    BY <1>1
  <2>4. PagesThrough(a \o zc)[Len(a)] = PagesThrough(a)[Len(a)]
    BY <2>2, <2>3, CountsConcat
  <2>5. QED
    BY <2>2, <2>4 DEF Total
<1>4. \A k \in 0..Len(a) : g[k] <= g[Len(a)]
  <2>1. Len(a) \in 0..Len(bs) /\ \A k \in 0..Len(a) : k \in 0..Len(bs) /\ Len(a) \in k..Len(bs)
    BY <1>1
  <2>2. QED
    BY <2>1, <1>1, CountsGrow
<1> HIDE DEF g
<1>5. i - 1 = Len(a) /\ g[i] > p /\ i \in T
  BY <1>1, <1>2, <1>3
<1>6. ASSUME NEW k \in T PROVE i <= k
  <2>1. k \in 1..Len(bs) /\ g[k] > p /\ k \in Int /\ g[k] \in Nat
    BY <1>1, <1>2
  <2>2. ~(k <= Len(a))
    <3>1. SUFFICES ASSUME k <= Len(a) PROVE FALSE
      OBVIOUS
    <3>2. k \in 0..Len(a)
      BY <2>1, <3>1, <1>1
    <3>3. g[k] <= Total(a) /\ Total(a) \in Nat
      BY <3>2, <1>3, <1>4, <1>2, <1>1
    <3>4. QED
      BY <3>3, <2>1
  <2>3. QED
    BY <2>1, <2>2, <1>1
<1>7. T \subseteq Int
  BY <1>1
<1> HIDE DEF T
<1>8. \A k \in T : (\A m \in T : k <= m) => k = i
  BY <1>1, <1>5, <1>6, <1>7
<1>9. BlockAt(bs, p) = CHOOSE k \in T : \A m \in T : k <= m
  BY DEF BlockAt, Min, T, g
<1>10. BlockAt(bs, p) = i
  BY <1>5, <1>6, <1>8, <1>9
<1>11. QED
  BY <1>1, <1>3, <1>5, <1>10 DEF g

(* A position Within the list lies in the pages of some block.             *)
LEMMA BlockFound ==
  ASSUME NEW S, \A b \in S : PagesIn(b) \in Nat, NEW bs \in Seq(S),
         NEW p \in Nat, Within(bs, p)
  PROVE  \E a, c \in Seq(S) : \E x \in S :
           /\ Around(bs, a, x, c)
           /\ Total(a) <= p /\ p < Total(a) + PagesIn(x)
<1> DEFINE g == PagesThrough(bs)
           T == {k \in 1..Len(bs) : g[k] > p}
<1>1. /\ Len(bs) \in Nat /\ g \in [0..Len(bs) -> Nat] /\ g[0] = 0
      /\ \A i \in 1..Len(bs) : g[i] = g[i-1] + PagesIn(bs[i])
  BY Counts
<1>2. g[Len(bs)] > p
  BY <1>1 DEF Within, Total
<1> HIDE DEF g
<1>3. T # {} /\ T \subseteq Nat
  <2>1. Len(bs) # 0
    BY <1>1, <1>2
  <2>2. Len(bs) \in T
    BY <2>1, <1>1, <1>2
  <2>3. QED
    BY <2>2
<1>4. PICK i \in T : \A k \in T : i <= k
  <2> HIDE DEF T
  <2>1. QED
    BY <1>3, NatMin
<1>5. i \in 1..Len(bs) /\ g[i] > p /\ i - 1 \in 0..Len(bs) /\ i - 1 \notin T
  BY <1>1, <1>4
<1>6. g[i - 1] <= p
  <2>1. CASE i = 1
    BY <2>1, <1>1
  <2>2. CASE i # 1
    <3>1. i - 1 \in 1..Len(bs)
      BY <2>2, <1>1, <1>5
    <3>2. g[i - 1] \in Nat
      BY <1>1, <1>5
    <3>3. ~(g[i - 1] > p)
      BY <3>1, <1>5
    <3>4. QED
      BY <3>2, <3>3
  <2>3. QED
    BY <2>1, <2>2
<1> DEFINE a == SubSeq(bs, 1, i - 1)
           c == SubSeq(bs, i + 1, Len(bs))
           x == bs[i]
<1>7. /\ a \in Seq(S) /\ c \in Seq(S) /\ x \in S /\ Len(a) = i - 1
      /\ bs = (a \o <<x>>) \o c
  BY <1>5, SeqAround
<1> HIDE DEF a, c, x
<1>8. g[i - 1] = Total(a)
  <2> DEFINE zc == <<x>> \o c
  <2>2. zc \in Seq(S) /\ bs = a \o zc
    BY <1>7, ConcatMiddle, SMTT(30)
  <2> HIDE DEF zc
  <2>3. Len(a) \in 0..Len(a)
    BY <1>5, <1>7
  <2>4. PagesThrough(a \o zc)[Len(a)] = PagesThrough(a)[Len(a)]
    BY <2>2, <2>3, <1>7, CountsConcat
  <2>5. QED
    BY <2>2, <2>4, <1>7 DEF Total, g
<1>9. g[i] = Total(a) + PagesIn(x)
  BY <1>1, <1>5, <1>8 DEF x
<1>10. Around(bs, a, x, c)
  BY <1>7 DEF Around
<1>11. QED
  BY <1>5, <1>6, <1>7, <1>8, <1>9, <1>10

(* Blocks as they are in the list of a bitmap on a source of n pages.      *)
Block == [type : {"continueus", "reference"}, val1 : Nat, val2 : Int]
Blocks(n) == {b \in Block : b.type = "continueus" => b.val1 - 1 <= b.val2 /\ b.val2 < n}

(* They have a number of pages.                                            *)
LEMMA BlocksCount ==
  ASSUME NEW n \in Nat
  PROVE  /\ \A b \in Blocks(n) : PagesIn(b) \in Nat
         /\ \A b \in Blocks(n) : b \in Block
  BY DEF Blocks, Block, PagesIn

(* What becomes of a block that is split at page item of the source.       *)
Pieces(b, item) ==
  IF b.type = "reference" THEN <<b>>
  ELSE (Part(b.val1, item - 1) \o <<Span(item, item)>>) \o Part(item + 1, b.val2)

(* A block that is not split is its only piece.                            *)
LEMMA SinglePiece ==
  ASSUME NEW b \in Block, IsSinglePage(b)
  PROVE  Pieces(b, b.val1) = <<b>>
<1>1. CASE b.type = "reference"
  BY <1>1 DEF Pieces
<1>2. CASE b.type = "continueus"
  <2>1. b.val1 \in Nat /\ b.val1 = b.val2
    BY <1>2 DEF IsSinglePage, Block
  <2>2. b = Span(b.val1, b.val1)
    BY <1>2, <2>1 DEF Span, Block
  <2>3. Part(b.val1, b.val1 - 1) = << >> /\ Part(b.val1 + 1, b.val2) = << >>
    BY <2>1 DEF Part
  <2> DEFINE z == <<b>>
  <2>4. z \in Seq(Block)
    OBVIOUS
  <2>5. Pieces(b, b.val1) = (<< >> \o z) \o << >>
    BY <1>2, <2>2, <2>3 DEF Pieces
  <2> HIDE DEF z
  <2>6. << >> \o z = z
    BY <2>4, ConcatEmptySeq
  <2>7. z \o << >> = z
    BY <2>4, ConcatEmptySeq
  <2>8. QED
    BY <2>5, <2>6, <2>7 DEF z
<1>3. QED
  BY <1>1, <1>2 DEF Block

(* The pages of the source in a span, and pieces of it.                    *)
LEMMA PartsOfSpan ==
  ASSUME NEW n \in Nat, NEW b \in Blocks(n), b.type = "continueus",
         NEW item \in b.val1..b.val2
  PROVE  /\ b.val1 \in Nat /\ b.val2 \in Int /\ b.val2 < n
         /\ item \in Nat
         /\ Span(item, item) \in Blocks(n)
         /\ Part(b.val1, item - 1) \in Seq(Blocks(n))
         /\ Part(item + 1, b.val2) \in Seq(Blocks(n))
<1>1. b.val1 \in Nat /\ b.val2 \in Int /\ b.val2 < n
  BY DEF Blocks, Block
<1>2. item \in Nat /\ item <= b.val2 /\ b.val1 <= item
  BY <1>1
<1>3. \A s \in Nat, e \in Int : s <= e /\ e < n => Span(s, e) \in Blocks(n)
  BY DEF Span, Blocks, Block
<1>4. \A s \in Nat, e \in Int : e < n => Part(s, e) \in Seq(Blocks(n))
  <2> SUFFICES ASSUME NEW s \in Nat, NEW e \in Int, e < n PROVE Part(s, e) \in Seq(Blocks(n))
    OBVIOUS
  <2>1. CASE s <= e
    <3>1. Span(s, e) \in Blocks(n)
      BY <2>1, <1>3
    <3>2. QED
      BY <2>1, <3>1 DEF Part
  <2>2. CASE ~(s <= e)
    BY <2>2 DEF Part
  <2>3. QED
    BY <2>1, <2>2
<1>5. Span(item, item) \in Blocks(n)
  BY <1>1, <1>2, <1>3
<1>6. Part(b.val1, item - 1) \in Seq(Blocks(n))
  <2>1. item - 1 \in Int /\ item - 1 < n
    BY <1>1, <1>2
  <2>2. QED
    BY <1>1, <1>4, <2>1
<1>7. Part(item + 1, b.val2) \in Seq(Blocks(n))
  <2>1. item + 1 \in Nat
    BY <1>2
  <2>2. QED
    BY <1>1, <1>4, <2>1
<1>8. QED
  BY <1>1, <1>2, <1>5, <1>6, <1>7

(* Split takes the block at the position to pieces, and leaves the others. *)
LEMMA SplitIsPieces ==
  ASSUME NEW n \in Nat,
         NEW a \in Seq(Blocks(n)), NEW b \in Blocks(n), NEW c \in Seq(Blocks(n)),
         NEW bs, Around(bs, a, b, c),
         NEW p \in Nat, Total(a) <= p, p < Total(a) + PagesIn(b)
  PROVE  Split(bs, p) = (a \o Pieces(b, b.val1 + (p - Total(a)))) \o c
<1> DEFINE i == BlockAt(bs, p)
           item == b.val1 + (p - Total(a))
<1>1. i = Len(a) + 1 /\ bs[i] = b /\ PagesThrough(bs)[i - 1] = Total(a)
  <2> DEFINE S == Blocks(n)
  <2>1. \A y \in S : PagesIn(y) \in Nat
    BY BlocksCount
  <2>2. a \in Seq(S) /\ b \in S /\ c \in Seq(S)
    OBVIOUS
  <2> HIDE DEF S, i
  <2>3. BlockAt(bs, p) = Len(a) + 1 /\ bs[BlockAt(bs, p)] = b
        /\ PagesThrough(bs)[BlockAt(bs, p) - 1] = Total(a)
    BY <2>1, <2>2, BlockAtPosition
  <2>4. QED
    BY <2>3 DEF i
<1>2. Split(bs, p) = IF IsSinglePage(b) THEN bs
        ELSE SubSeq(bs, 1, i - 1)
             \o Part(b.val1, item - 1) \o <<Span(item, item)>> \o Part(item + 1, b.val2)
             \o SubSeq(bs, i + 1, Len(bs))
  BY <1>1 DEF Split, SplitAt
<1>3. b \in Block /\ PagesIn(b) \in Nat /\ Total(a) \in Nat
  BY BlocksCount, CountsConcat
<1>4. CASE IsSinglePage(b)
  <2>1. PagesIn(b) = 1
    BY <1>3, <1>4 DEF IsSinglePage, PagesIn, Block
  <2>2. item = b.val1
    BY <2>1, <1>3 DEF Block
  <2> HIDE DEF item
  <2>3. Pieces(b, item) = <<b>>
    BY <2>2, <1>3, <1>4, SinglePiece
  <2>4. Split(bs, p) = bs
    BY <1>2, <1>4
  <2>5. QED
    BY <2>3, <2>4 DEF item, Around
<1>5. CASE ~IsSinglePage(b)
  <2> DEFINE l == Part(b.val1, item - 1)
             x == <<Span(item, item)>>
             r == Part(item + 1, b.val2)
  <2>1. b.type = "continueus" /\ item \in b.val1..b.val2
    BY <1>3, <1>5 DEF Block, IsSinglePage, PagesIn
  <2> HIDE DEF item
  <2>2. l \in Seq(Blocks(n)) /\ x \in Seq(Blocks(n)) /\ r \in Seq(Blocks(n))
    BY <2>1, PartsOfSpan
  <2>3. SubSeq(bs, 1, i - 1) = a /\ SubSeq(bs, i + 1, Len(bs)) = c
    <3> HIDE DEF i
    <3>1. QED
      BY <1>1, SeqOutside DEF Around
  <2> HIDE DEF i, l, x, r
  <2>5. Split(bs, p) = (((a \o l) \o x) \o r) \o c
    BY <1>2, <1>5, <2>3 DEF l, x, r
  <2>6. ((a \o l) \o x) \o r = a \o ((l \o x) \o r)
    <3>1. Same(((a \o l) \o x) \o r, a \o ((l \o x) \o r))
      BY <2>2, ConcatFour
    <3>2. QED
      BY <3>1 DEF Same
  <2>9. Pieces(b, item) = (l \o x) \o r
    BY <1>5, <1>3 DEF Pieces, l, x, r, IsSinglePage, Block
  <2>10. QED
    BY <2>5, <2>6, <2>9 DEF item
<1>6. QED
  BY <1>4, <1>5

-----------------------------------------------------------------------------
(* What of a list the invariants speak about: the numbers it refers to, and *)
(* how its blocks are related in pairs.                                     *)
RefsAt(bs) == {k \in 1..Len(bs) : bs[k].type = "reference"}
Refs(bs) == {bs[k].val1 : k \in RefsAt(bs)}
IsSpan(b) == b.type = "continueus"
DisjointSpans ==
  {q \in Block \X Block : IsSpan(q[1]) /\ IsSpan(q[2]) =>
     q[1].val2 < q[2].val1 \/ q[2].val2 < q[1].val1}
DistinctRefs ==
  {q \in Block \X Block : ~IsSpan(q[1]) /\ ~IsSpan(q[2]) => q[1].val1 # q[2].val1}

Apart(bs) == Pairwise(bs, DisjointSpans) /\ Pairwise(bs, DistinctRefs)

(* The order of two blocks does not matter to either relation.              *)
LEMMA RelationsSymmetric == Symmetric(DisjointSpans) /\ Symmetric(DistinctRefs)
  BY DEF Symmetric, DisjointSpans, DistinctRefs

(* The numbers that two lists together refer to.                            *)
LEMMA RefsConcat ==
  ASSUME NEW S, NEW a \in Seq(S), NEW c \in Seq(S)
  PROVE  Refs(a \o c) = Refs(a) \cup Refs(c)
<1> DEFINE s == a \o c
<1>1. /\ \A i \in 1..Len(a) : i \in 1..Len(s) /\ s[i] = a[i]
      /\ \A j \in 1..Len(c) : Len(a) + j \in 1..Len(s) /\ s[Len(a) + j] = c[j]
      /\ \A k \in 1..Len(s) : \/ k \in 1..Len(a)
                              \/ \E j \in 1..Len(c) : k = Len(a) + j
  BY ConcatPositions
<1> HIDE DEF s
<1>2. ASSUME NEW r \in Refs(s) PROVE r \in Refs(a) \cup Refs(c)
  <2>1. PICK k \in 1..Len(s) : s[k].type = "reference" /\ r = s[k].val1
    BY DEF Refs, RefsAt
  <2>2. CASE k \in 1..Len(a)
    BY <2>1, <2>2, <1>1 DEF Refs, RefsAt
  <2>3. CASE k \notin 1..Len(a)
    <3>1. PICK j \in 1..Len(c) : k = Len(a) + j
      BY <2>3, <1>1
    <3>2. s[k] = c[j]
      BY <3>1, <1>1
    <3>3. QED
      BY <2>1, <3>2 DEF Refs, RefsAt
  <2>4. QED
    BY <2>2, <2>3
<1>3. Refs(a) \subseteq Refs(s)
  BY <1>1 DEF Refs, RefsAt
<1>4. ASSUME NEW r \in Refs(c) PROVE r \in Refs(s)
  <2>1. PICK j \in 1..Len(c) : c[j].type = "reference" /\ r = c[j].val1
    BY DEF Refs, RefsAt
  <2>2. Len(a) + j \in 1..Len(s) /\ s[Len(a) + j] = c[j]
    BY <1>1
  <2> DEFINE k == Len(a) + j
  <2>3. k \in 1..Len(s) /\ s[k] = c[j]
    BY <2>2
  <2> HIDE DEF k
  <2>4. QED
    BY <2>1, <2>3 DEF Refs, RefsAt
<1>5. QED
  BY <1>2, <1>3, <1>4 DEF s

(* ... and one block, and one more than a list.                             *)
LEMMA RefsOne ==
  ASSUME NEW b
  PROVE  Refs(<<b>>) = IF b.type = "reference" THEN {b.val1} ELSE {}
<1> DEFINE z == <<b>>
<1>1. Len(z) = 1 /\ z[1] = b /\ 1..1 = {1}
  OBVIOUS
<1> HIDE DEF z
<1>2. Refs(z) = {z[k].val1 : k \in {m \in {1} : z[m].type = "reference"}}
  BY <1>1 DEF Refs, RefsAt
<1>3. QED
  BY <1>1, <1>2 DEF z

(* Spans of the pages lo to hi refer to nothing; and they are disjoint from *)
(* spans of later pages.                                                    *)
SpansIn(lo, hi) == {c \in Block : IsSpan(c) /\ lo <= c.val1 /\ c.val2 <= hi}

(* A list of spans refers to nothing in the cache.                          *)
LEMMA SpansRefs ==
  ASSUME NEW lo, NEW hi, NEW q \in Seq(SpansIn(lo, hi))
  PROVE  Refs(q) = {}
<1>1. \A k \in 1..Len(q) : q[k] \in SpansIn(lo, hi)
  BY ElementOfSeq
<1>2. \A k \in 1..Len(q) : q[k].type = "continueus"
  BY <1>1 DEF SpansIn, IsSpan
<1>3. QED
  BY <1>2 DEF Refs, RefsAt

(* Spans of some pages are spans of any larger range of pages.              *)
LEMMA SpansWithin ==
  ASSUME NEW lo \in Int, NEW hi \in Int, NEW lo2 \in Int, NEW hi2 \in Int,
         lo2 <= lo, hi <= hi2
  PROVE  SpansIn(lo, hi) \subseteq SpansIn(lo2, hi2)
<1>1. ASSUME NEW c \in SpansIn(lo, hi) PROVE c \in SpansIn(lo2, hi2)
  <2>1. c \in Block /\ IsSpan(c) /\ lo <= c.val1 /\ c.val2 <= hi
    BY DEF SpansIn
  <2>2. c.val1 \in Int /\ c.val2 \in Int
    BY <2>1 DEF Block
  <2>3. QED
    BY <2>1, <2>2 DEF SpansIn
<1>2. QED
  BY <1>1

(* Spans of earlier pages are apart from spans of later ones.               *)
LEMMA SpansApart ==
  ASSUME NEW lo \in Int, NEW hi \in Int, NEW q \in Seq(SpansIn(lo, hi)),
         NEW lo2 \in Int, NEW hi2 \in Int, NEW t \in Seq(SpansIn(lo2, hi2)), hi < lo2
  PROVE  Across(q, t, DisjointSpans) /\ Across(q, t, DistinctRefs)
<1>1. ASSUME NEW i \in 1..Len(q), NEW j \in 1..Len(t)
      PROVE  <<q[i], t[j]>> \in DisjointSpans /\ <<q[i], t[j]>> \in DistinctRefs
  <2>1. q[i] \in SpansIn(lo, hi) /\ t[j] \in SpansIn(lo2, hi2)
    BY ElementOfSeq
  <2>2. \A u \in SpansIn(lo, hi), v \in SpansIn(lo2, hi2) :
          u \in Block /\ v \in Block /\ IsSpan(u) /\ IsSpan(v) /\ u.val2 < v.val1
    BY DEF SpansIn, Block
  <2>3. QED
    BY <2>1, <2>2 DEF DisjointSpans, DistinctRefs
<1>2. QED
  BY <1>1 DEF Across

(* A part has at most one block, a span; and its pages.                     *)
LEMMA PartFacts ==
  ASSUME NEW s \in Nat, NEW e \in Int, s - 1 <= e
  PROVE  /\ Part(s, e) \in Seq(SpansIn(s, e))
         /\ Apart(Part(s, e))
         /\ Total(Part(s, e)) = e - s + 1
<1> DEFINE q == Part(s, e)
<1>1. CASE s <= e
  <2> DEFINE x == Span(s, e)
             z == <<x>>
             S == {x}
  <2>1. q = z /\ Len(z) = 1 /\ 1..1 = {1}
    BY <1>1 DEF Part
  <2>2. x \in SpansIn(s, e) /\ PagesIn(x) = e - s + 1
    BY DEF Span, PagesIn, SpansIn, Block, IsSpan
  <2>3. x \in S /\ \A b \in S : PagesIn(b) \in Nat
    BY <1>1, <2>2
  <2>4. z \in Seq(SpansIn(s, e))
    BY <2>2
  <2> HIDE DEF x, S
  <2>5. Total(z) = PagesIn(x)
    BY <2>3, TotalSmall
  <2> HIDE DEF z, q
  <2>6. Apart(q)
    BY <2>1 DEF Pairwise, Apart
  <2>7. QED
    BY <2>1, <2>2, <2>4, <2>5, <2>6 DEF q
<1>2. CASE ~(s <= e)
  <2>1. q = << >> /\ Len(<< >>) = 0 /\ 1..0 = {} /\ e - s + 1 = 0
    BY <1>2 DEF Part
  <2> DEFINE S == {}
  <2>2. \A b \in S : PagesIn(b) \in Nat
    OBVIOUS
  <2> HIDE DEF S
  <2>3. Total(<< >>) = 0
    BY <2>2, TotalSmall
  <2>4. q \in Seq(SpansIn(s, e))
    BY <2>1
  <2> HIDE DEF q
  <2>5. Apart(q)
    BY <2>1 DEF Pairwise, Apart
  <2>6. QED
    BY <2>1, <2>3, <2>4, <2>5 DEF q
<1>3. QED
  BY <1>1, <1>2

(* Spans of pages below item, of item and of pages above it, together.      *)
LEMMA SpansTogether ==
  ASSUME NEW lo \in Int, NEW e \in Int, NEW item \in Int, NEW s \in Int, NEW hi \in Int,
         lo <= item, item <= hi, e < item, item < s,
         NEW l \in Seq(SpansIn(lo, e)), NEW z \in Seq(SpansIn(item, item)),
         NEW r \in Seq(SpansIn(s, hi)),
         Apart(l), Apart(z), Apart(r), NEW q, Joined(q, l, z, r)
  PROVE  q \in Seq(SpansIn(lo, hi)) /\ Apart(q)
<1> DEFINE Low == SpansIn(lo, item)
           All == SpansIn(lo, hi)
           lz == l \o z
<1>1. SpansIn(lo, e) \subseteq Low /\ SpansIn(item, item) \subseteq Low
      /\ Low \subseteq All /\ SpansIn(s, hi) \subseteq All
  <2>1. lo <= lo /\ e <= item /\ lo <= item /\ item <= item /\ lo <= s /\ hi <= hi
    OBVIOUS
  <2>2. QED
    BY <2>1, SpansWithin
<1>3. Across(l, z, DisjointSpans) /\ Across(l, z, DistinctRefs)
  BY SpansApart
<1>4. l \in Seq(Low) /\ z \in Seq(Low) /\ r \in Seq(All)
  BY <1>1
<1> HIDE DEF Low, All
<1>5. lz \in Seq(Low)
  BY <1>4, ConcatProperties
<1>6. Pairwise(lz, DisjointSpans) /\ Pairwise(lz, DistinctRefs)
  BY <1>3, <1>4, RelationsSymmetric, PairwiseConcat DEF Apart
<1> HIDE DEF lz
<1>7. Across(lz, r, DisjointSpans) /\ Across(lz, r, DistinctRefs)
  BY <1>5, SpansApart DEF Low
<1>8. lz \in Seq(All)
  BY <1>1, <1>5
<1>9. lz \o r \in Seq(All)
  BY <1>4, <1>8, ConcatProperties
<1>10. Pairwise(lz \o r, DisjointSpans) /\ Pairwise(lz \o r, DistinctRefs)
  BY <1>4, <1>6, <1>7, <1>8, RelationsSymmetric, PairwiseConcat DEF Apart
<1>11. QED
  BY <1>9, <1>10 DEF lz, All, Apart, Joined

(* The pieces of a span are spans within it, apart, and have its pages.     *)
LEMMA PiecesOfSpan ==
  ASSUME NEW n \in Nat, NEW b \in Blocks(n), IsSpan(b), NEW item \in b.val1..b.val2
  PROVE  \E l, r \in Seq(Blocks(n)) : \E x \in Blocks(n) :
           /\ Around(Pieces(b, item), l, x, r)
           /\ Total(l) = item - b.val1 /\ PagesIn(x) = 1
           /\ Pieces(b, item) \in Seq(Blocks(n))
           /\ Pieces(b, item) \in Seq(SpansIn(b.val1, b.val2))
           /\ Total(Pieces(b, item)) = PagesIn(b)
           /\ Apart(Pieces(b, item))
<1> DEFINE lo == b.val1
           hi == b.val2
           l == Part(lo, item - 1)
           x == Span(item, item)
           z == <<x>>
           r == Part(item + 1, hi)
           m == Pieces(b, item)
           S == Blocks(n)
<1>1. lo \in Nat /\ hi \in Int /\ item \in Nat /\ lo <= item /\ item <= hi
  BY PartsOfSpan DEF IsSpan
<1>2. x \in S /\ l \in Seq(S) /\ r \in Seq(S)
  BY PartsOfSpan DEF IsSpan
<1>3. PagesIn(b) = hi - lo + 1 /\ PagesIn(x) = 1
  BY <1>1 DEF IsSpan, PagesIn, Span
<1>4. x \in SpansIn(item, item)
  BY <1>1 DEF Span, SpansIn, Block, IsSpan
<1>5. m = (l \o z) \o r
  BY DEF Pieces, IsSpan
<1>6. l \in Seq(SpansIn(lo, item - 1)) /\ Apart(l) /\ Total(l) = item - lo
  <2> DEFINE e == item - 1
  <2>1. e \in Int /\ lo - 1 <= e /\ e - lo + 1 = item - lo
    BY <1>1
  <2> HIDE DEF e, lo
  <2>2. Part(lo, e) \in Seq(SpansIn(lo, e)) /\ Apart(Part(lo, e))
        /\ Total(Part(lo, e)) = e - lo + 1
    BY <1>1, <2>1, PartFacts
  <2>3. QED
    BY <2>1, <2>2 DEF e
<1>7. r \in Seq(SpansIn(item + 1, hi)) /\ Apart(r) /\ Total(r) = hi - item
  <2> DEFINE s == item + 1
  <2>1. s \in Nat /\ s - 1 <= hi /\ hi - s + 1 = hi - item
    BY <1>1
  <2> HIDE DEF s, hi
  <2>2. Part(s, hi) \in Seq(SpansIn(s, hi)) /\ Apart(Part(s, hi))
        /\ Total(Part(s, hi)) = hi - s + 1
    BY <1>1, <2>1, PartFacts
  <2>3. QED
    BY <2>1, <2>2 DEF s
<1> HIDE DEF l, r, m, x
<1>8. z \in Seq(SpansIn(item, item)) /\ z \in Seq(S) /\ Len(z) = 1 /\ 1..1 = {1}
  BY <1>2, <1>4
<1>9. \A y \in S : PagesIn(y) \in Nat
  BY BlocksCount
<1> HIDE DEF S
<1>10. Total(z) = 1
  BY <1>2, <1>3, <1>9, TotalSmall
<1> HIDE DEF z
<1>11. Apart(z)
  BY <1>8 DEF Pairwise, Apart
<1> HIDE DEF lo, hi
<1>12. m \in Seq(SpansIn(lo, hi)) /\ Apart(m)
  <2> DEFINE e == item - 1
             s == item + 1
  <2>1. /\ lo \in Int /\ e \in Int /\ item \in Int /\ s \in Int /\ hi \in Int
        /\ lo <= item /\ item <= hi /\ e < item /\ item < s
    BY <1>1
  <2>2. l \in Seq(SpansIn(lo, e)) /\ z \in Seq(SpansIn(item, item)) /\ r \in Seq(SpansIn(s, hi))
    BY <1>6, <1>7, <1>8
  <2>3. Apart(l) /\ Apart(z) /\ Apart(r)
    BY <1>6, <1>7, <1>11
  <2> HIDE DEF e, s
  <2>4. QED
    <3>1. Joined(m, l, z, r)
      BY <1>5 DEF Joined
    <3>2. QED
      BY <2>1, <2>2, <2>3, <3>1, SpansTogether
<1>14. l \o z \in Seq(S)
  BY <1>2, <1>8, ConcatProperties
<1>13. Total((l \o z) \o r) = Total(l) + Total(z) + Total(r)
  <2>1. Total(l \o z) = Total(l) + Total(z)
    BY <1>2, <1>8, <1>9, CountsConcat
  <2> DEFINE lz == l \o z
  <2>2. lz \in Seq(S)
    BY <1>14
  <2> HIDE DEF lz
  <2>3. Total(lz \o r) = Total(lz) + Total(r)
    BY <2>2, <1>2, <1>9, CountsConcat
  <2>4. QED
    BY <2>1, <2>3 DEF lz
<1>15. (l \o z) \o r \in Seq(S)
  BY <1>2, <1>14, ConcatProperties
<1>16. Total(m) = PagesIn(b)
  BY <1>1, <1>3, <1>5, <1>6, <1>7, <1>10, <1>13
<1>17. Around(m, l, x, r)
  BY <1>5 DEF Around, z
<1>18. QED
  BY <1>2, <1>3, <1>5, <1>6, <1>12, <1>15, <1>16, <1>17 DEF m, lo, hi, S
(* The page at position d of a list has a block of its own.                 *)
Single(n, s, d) ==
  \E a, c \in Seq(Blocks(n)) : \E x \in Blocks(n) :
    Around(s, a, x, c) /\ Total(a) = d /\ PagesIn(x) = 1

(* The pieces of a block: the page at d of the block is one of them; they   *)
(* have its pages and its numbers, and are apart from what it is apart from.*)
LEMMA PiecesOfBlock ==
  ASSUME NEW n \in Nat, NEW b \in Blocks(n), NEW d \in Nat, d < PagesIn(b),
         NEW m, m = Pieces(b, b.val1 + d)
  PROVE  /\ Single(n, m, d)
         /\ m \in Seq(Blocks(n))
         /\ Total(m) = PagesIn(b)
         /\ Refs(m) = Refs(<<b>>)
         /\ Apart(m)
         /\ \A k \in 1..Len(m) : \A y \in Blocks(n) :
              /\ <<b, y>> \in DisjointSpans => <<m[k], y>> \in DisjointSpans
              /\ <<b, y>> \in DistinctRefs => <<m[k], y>> \in DistinctRefs
<1> DEFINE S == Blocks(n)
<1>1. \A y \in S : PagesIn(y) \in Nat /\ y \in Block
  BY BlocksCount
<1>2. CASE IsSpan(b)
  <2> DEFINE item == b.val1 + d
  <2>1. b.val1 \in Nat /\ b.val2 \in Int /\ item \in b.val1..b.val2 /\ item - b.val1 = d
    BY <1>1, <1>2 DEF Block, PagesIn, IsSpan
  <2> HIDE DEF item, S
  <2>2. m = Pieces(b, item)
    BY DEF item
  <2>3. PICK l \in Seq(Blocks(n)), r \in Seq(Blocks(n)), x \in Blocks(n) :
           /\ Around(m, l, x, r)
           /\ Total(l) = item - b.val1 /\ PagesIn(x) = 1
           /\ m \in Seq(Blocks(n))
           /\ m \in Seq(SpansIn(b.val1, b.val2))
           /\ Total(m) = PagesIn(b)
           /\ Apart(m)
    BY <1>2, <2>1, <2>2, PiecesOfSpan
  <2>4. Refs(m) = {} /\ Refs(<<b>>) = {}
    <3>1. Refs(m) = {}
      BY <2>3, SpansRefs
    <3>2. Refs(<<b>>) = {}
      BY <1>2, RefsOne DEF IsSpan
    <3>3. QED
      BY <3>1, <3>2
  <2>5. ASSUME NEW k \in 1..Len(m), NEW y \in Blocks(n)
        PROVE  /\ <<b, y>> \in DisjointSpans => <<m[k], y>> \in DisjointSpans
               /\ <<b, y>> \in DistinctRefs => <<m[k], y>> \in DistinctRefs
    <3>1. m[k] \in SpansIn(b.val1, b.val2)
      BY <2>3, ElementOfSeq
    <3>2. \A u \in SpansIn(b.val1, b.val2) :
            u \in Block /\ IsSpan(u) /\ b.val1 <= u.val1 /\ u.val2 <= b.val2
      BY DEF SpansIn
    <3>3. y \in Block
      BY <1>1 DEF S
    <3>4. \A u \in Block : u.val1 \in Int /\ u.val2 \in Int
      BY DEF Block
    <3>5. <<m[k], y>> \in DistinctRefs
      BY <3>1, <3>2, <3>3 DEF DistinctRefs
    <3>6. ASSUME <<b, y>> \in DisjointSpans PROVE <<m[k], y>> \in DisjointSpans
      <4>1. IsSpan(y) => b.val2 < y.val1 \/ y.val2 < b.val1
        BY <1>2, <3>6 DEF DisjointSpans
      <4> DEFINE u == m[k]
      <4>2. u \in Block /\ u.val1 \in Int /\ u.val2 \in Int /\ b.val1 <= u.val1 /\ u.val2 <= b.val2
        BY <3>1, <3>2, <3>4
      <4> HIDE DEF u
      <4>a. y.val1 \in Int /\ y.val2 \in Int
        BY <3>3, <3>4
      <4>3. IsSpan(y) => u.val2 < y.val1 \/ y.val2 < u.val1
        <5>1. b.val1 \in Int /\ b.val2 \in Int
          BY <2>1
        <5>2. SUFFICES ASSUME IsSpan(y) PROVE u.val2 < y.val1 \/ y.val2 < u.val1
          OBVIOUS
        <5>3. b.val2 < y.val1 \/ y.val2 < b.val1
          BY <4>1, <5>2
        <5>4. QED
          BY ONLY <4>2, <4>a, <5>1, <5>3, RangeApart
      <4>4. <<u, y>> \in DisjointSpans
        BY <4>2, <4>3, <3>3 DEF DisjointSpans
      <4>5. QED
        BY <4>4 DEF u
    <3>7. QED
      BY <3>5, <3>6
  <2>6. Single(n, m, d)
    BY <2>1, <2>3 DEF Single
  <2>7. QED
    BY <2>3, <2>4, <2>5, <2>6
<1>3. CASE ~IsSpan(b)
  <2>1. b \in Block /\ b.type = "reference" /\ PagesIn(b) = 1 /\ d = 0
    BY <1>1, <1>3 DEF IsSpan, Block, PagesIn
  <2> DEFINE e == << >>
             z == <<b>>
  <2>2. m = z
    BY <2>1 DEF Pieces
  <2>3. e \in Seq(S) /\ z \in Seq(S) /\ Len(z) = 1 /\ z[1] = b /\ 1..1 = {1}
    BY <2>1
  <2> HIDE DEF S
  <2>4. Total(e) = 0 /\ Total(z) = PagesIn(b)
    BY <1>1, TotalSmall DEF S
  <2>5. Around(z, e, b, e)
    <3> HIDE DEF z
    <3>1. e \o z = z
      BY <2>3, ConcatEmptySeq
    <3>2. z \o e = z
      BY <2>3, ConcatEmptySeq
    <3>3. z = (e \o z) \o e
      BY <3>1, <3>2
    <3>4. QED
      BY <3>3 DEF Around, z
  <2> HIDE DEF z, e
  <2>6. Apart(m)
    BY <2>2, <2>3 DEF Apart, Pairwise
  <2>7. m \in Seq(Blocks(n)) /\ Total(m) = PagesIn(b) /\ Refs(m) = Refs(<<b>>)
    BY <2>2, <2>3, <2>4 DEF S, z
  <2>8. \A k \in 1..Len(m) : m[k] = b
    BY <2>2, <2>3
  <2>9. Single(n, m, d)
    BY <2>1, <2>2, <2>3, <2>4, <2>5 DEF S, Single
  <2>10. QED
    BY <2>6, <2>7, <2>8, <2>9
<1>4. QED
  BY <1>2, <1>3

-----------------------------------------------------------------------------
(* A list that stands for the same pages as another, with the same numbers, *)
(* and whose blocks are apart where the other's are.                        *)
Alike(n, s, t) ==
  /\ t \in Seq(Blocks(n))
  /\ Total(t) = Total(s)
  /\ Refs(t) = Refs(s)
  /\ Pairwise(s, DisjointSpans) => Pairwise(t, DisjointSpans)
  /\ Pairwise(s, DistinctRefs) => Pairwise(t, DistinctRefs)

(* A block replaced by its pieces.                                          *)
LEMMA PiecesAlike ==
  ASSUME NEW n \in Nat,
         NEW a \in Seq(Blocks(n)), NEW b \in Blocks(n), NEW c \in Seq(Blocks(n)),
         NEW bs, Around(bs, a, b, c),
         NEW m \in Seq(Blocks(n)), Total(m) = PagesIn(b), Refs(m) = Refs(<<b>>), Apart(m),
         \A k \in 1..Len(m) : \A y \in Blocks(n) :
           /\ <<b, y>> \in DisjointSpans => <<m[k], y>> \in DisjointSpans
           /\ <<b, y>> \in DistinctRefs => <<m[k], y>> \in DistinctRefs,
         NEW t, Joined(t, a, m, c)
  PROVE  Alike(n, bs, t)
<1> DEFINE S == Blocks(n)
           z == <<b>>
           am == a \o m
           az == a \o z
<1>1. \A y \in S : PagesIn(y) \in Nat
  BY BlocksCount
<1>2. z \in Seq(S)
  OBVIOUS
<1>3. a \in Seq(S) /\ m \in Seq(S) /\ c \in Seq(S) /\ b \in S
  OBVIOUS
<1>4. (Pairwise((a \o z) \o c, DisjointSpans) => Pairwise((a \o m) \o c, DisjointSpans))
      /\ (Pairwise((a \o z) \o c, DistinctRefs) => Pairwise((a \o m) \o c, DistinctRefs))
  <2>1. Pairwise(m, DisjointSpans) /\ Pairwise(m, DistinctRefs)
    BY DEF Apart
  <2>2. ASSUME Pairwise((a \o <<b>>) \o c, DisjointSpans) PROVE Pairwise((a \o m) \o c, DisjointSpans)
    <3>1. \A k \in 1..Len(m) : \A y \in S : <<b, y>> \in DisjointSpans => <<m[k], y>> \in DisjointSpans
      OBVIOUS
    <3> HIDE DEF S
    <3>2. QED
      BY <1>3, <2>1, <2>2, <3>1, RelationsSymmetric, PairwiseReplace
  <2>3. ASSUME Pairwise((a \o <<b>>) \o c, DistinctRefs) PROVE Pairwise((a \o m) \o c, DistinctRefs)
    <3>1. \A k \in 1..Len(m) : \A y \in S : <<b, y>> \in DistinctRefs => <<m[k], y>> \in DistinctRefs
      OBVIOUS
    <3> HIDE DEF S
    <3>2. QED
      BY <1>3, <2>1, <2>3, <3>1, RelationsSymmetric, PairwiseReplace
  <2>4. QED
    BY <2>2, <2>3
<1> HIDE DEF S
<1>5. Total(z) = PagesIn(b)
  BY <1>1, <1>3, TotalSmall
<1>6. Refs(z) = Refs(m)
  OBVIOUS
<1> HIDE DEF z
<1>7. am \in Seq(S) /\ az \in Seq(S)
  BY <1>2, <1>3, ConcatProperties
<1>8. Total(am) = Total(a) + Total(m) /\ Total(az) = Total(a) + Total(z)
  BY <1>1, <1>2, <1>3, CountsConcat
<1>9. Refs(am) = Refs(a) \cup Refs(m) /\ Refs(az) = Refs(a) \cup Refs(z)
  BY <1>2, <1>3, RefsConcat
<1> HIDE DEF am, az
<1>10. am \o c \in Seq(S)
  BY <1>3, <1>7, ConcatProperties
<1>11. Total(am \o c) = Total(am) + Total(c) /\ Total(az \o c) = Total(az) + Total(c)
  BY <1>1, <1>3, <1>7, CountsConcat
<1>12. Refs(am \o c) = Refs(am) \cup Refs(c) /\ Refs(az \o c) = Refs(az) \cup Refs(c)
  BY <1>3, <1>7, RefsConcat
<1>13. t = am \o c /\ bs = az \o c
  BY DEF Joined, Around, am, az, z
<1>14. Total(t) = Total(bs)
  BY <1>5, <1>8, <1>11, <1>13
<1>15. Refs(t) = Refs(bs)
  BY <1>6, <1>9, <1>12, <1>13
<1>16. (Pairwise(bs, DisjointSpans) => Pairwise(t, DisjointSpans))
       /\ (Pairwise(bs, DistinctRefs) => Pairwise(t, DistinctRefs))
  BY <1>4, <1>13 DEF am, az
<1>17. QED
  BY <1>10, <1>13, <1>14, <1>15, <1>16 DEF Alike, S

(* FindBlock: the page at p is a block of its own afterwards, with the      *)
(* pages before it, and the list is alike.                                  *)
LEMMA SplitFacts ==
  ASSUME NEW n \in Nat, NEW bs \in Seq(Blocks(n)), NEW p \in Nat, Within(bs, p)
  PROVE  /\ Alike(n, bs, Split(bs, p))
         /\ Single(n, Split(bs, p), p)
<1> DEFINE S == Blocks(n)
           t == Split(bs, p)
<1>1. \A y \in S : PagesIn(y) \in Nat
  BY BlocksCount
<1>2. PICK a \in Seq(S), c \in Seq(S), b \in S :
        Around(bs, a, b, c) /\ Total(a) <= p /\ p < Total(a) + PagesIn(b)
  <2>1. bs \in Seq(S)
    OBVIOUS
  <2> HIDE DEF S
  <2>2. QED
    BY <1>1, <2>1, BlockFound
<1>3. Total(a) \in Nat
  <2> HIDE DEF S
  <2>1. QED
    BY <1>1, CountsConcat
<1> DEFINE d == p - Total(a)
           m == Pieces(b, b.val1 + d)
<1>4. d \in Nat /\ d < PagesIn(b)
  BY <1>1, <1>2, <1>3
<1>5. t = (a \o m) \o c
  BY <1>2, SplitIsPieces
<1> HIDE DEF d, t
<1>6. PICK l \in Seq(S), r \in Seq(S), x \in S :
        Around(m, l, x, r) /\ Total(l) = d /\ PagesIn(x) = 1
  <2>1. Single(n, m, d)
    BY <1>4, PiecesOfBlock
  <2> HIDE DEF m
  <2>2. QED
    BY <2>1 DEF Single
<1>7. /\ m \in Seq(Blocks(n)) /\ Total(m) = PagesIn(b) /\ Refs(m) = Refs(<<b>>) /\ Apart(m)
      /\ \A k \in 1..Len(m) : \A y \in Blocks(n) :
           /\ <<b, y>> \in DisjointSpans => <<m[k], y>> \in DisjointSpans
           /\ <<b, y>> \in DistinctRefs => <<m[k], y>> \in DistinctRefs
  BY <1>4, PiecesOfBlock
<1> HIDE DEF m
<1>8. Joined(t, a, m, c)
  BY <1>5 DEF Joined
<1>9. Alike(n, bs, t)
  BY <1>2, <1>7, <1>8, PiecesAlike
<1> DEFINE a2 == a \o l
           c2 == r \o c
<1>10. a2 \in Seq(S) /\ c2 \in Seq(S) /\ Around(t, a2, x, c2)
  <2> HIDE DEF S
  <2>1. QED
    BY <1>6, <1>8, AroundInside
<1>11. Total(a2) = p
  <2>1. Total(a \o l) = Total(a) + Total(l)
    <3> HIDE DEF S
    <3>1. QED
      BY <1>1, CountsConcat
  <2>2. QED
    BY <2>1, <1>3, <1>6 DEF d
<1> HIDE DEF a2, c2
<1>12. Single(n, t, p)
  BY <1>6, <1>10, <1>11 DEF Single
<1>13. QED
  BY <1>9, <1>12 DEF t

-----------------------------------------------------------------------------
(* t is s with the block e put in somewhere.                                *)
PutIn(n, s, e, t) ==
  \E a, c \in Seq(Blocks(n)) : Same(s, a \o c) /\ Around(t, a, e, c)

(* The number a block refers to, and its being apart from those of a list.  *)
RefsOf(e) == IF e.type = "reference" THEN {e.val1} ELSE {}
ApartFrom(e, s, R) == Across(<<e>>, s, R)

(* A reference is apart from spans, and from other references by its number.*)
LEMMA ReferenceAcross ==
  ASSUME NEW n \in Nat, NEW e \in Blocks(n), ~IsSpan(e), NEW s \in Seq(Blocks(n))
  PROVE  /\ ApartFrom(e, s, DisjointSpans)
         /\ ApartFrom(e, s, DistinctRefs) <=> e.val1 \notin Refs(s)
<1> DEFINE z == <<e>>
<1>1. Len(z) = 1 /\ z[1] = e /\ 1..1 = {1}
  OBVIOUS
<1> HIDE DEF z
<1>2. \A j \in 1..Len(s) : s[j] \in Blocks(n)
  BY ElementOfSeq
<1>3. \A y \in Blocks(n) : y \in Block
  BY BlocksCount
<1>4. \A R : Across(z, s, R) <=> \A j \in 1..Len(s) : <<e, s[j]>> \in R
  BY <1>1 DEF Across
<1>5. \A y \in Block : IsSpan(y) <=> y.type # "reference"
  BY DEF Block, IsSpan
<1>6. \A y \in Blocks(n) : <<e, y>> \in DistinctRefs <=> (IsSpan(y) \/ e.val1 # y.val1)
  BY <1>3 DEF DistinctRefs
<1>7. \A y \in Blocks(n) : <<e, y>> \in DisjointSpans
  BY <1>3 DEF DisjointSpans
<1>8. Across(z, s, DisjointSpans)
  BY <1>2, <1>4, <1>7
<1>9. Across(z, s, DistinctRefs) <=> \A j \in 1..Len(s) : IsSpan(s[j]) \/ e.val1 # s[j].val1
  BY <1>2, <1>4, <1>6
<1>10. e.val1 \in Refs(s) <=> \E j \in 1..Len(s) : ~IsSpan(s[j]) /\ e.val1 = s[j].val1
  BY <1>2, <1>3, <1>5 DEF Refs, RefsAt
<1>11. QED
  BY <1>8, <1>9, <1>10 DEF z, ApartFrom

(* What a block put in adds to a list, and what it has to be apart from.    *)
LEMMA PutInFacts ==
  ASSUME NEW n \in Nat, NEW s, NEW e \in Blocks(n), NEW t, PutIn(n, s, e, t)
  PROVE  /\ s \in Seq(Blocks(n)) /\ t \in Seq(Blocks(n))
         /\ Total(t) = Total(s) + PagesIn(e) /\ Total(s) \in Nat
         /\ Refs(t) = Refs(s) \cup RefsOf(e)
         /\ Pairwise(t, DisjointSpans)
              <=> Pairwise(s, DisjointSpans) /\ ApartFrom(e, s, DisjointSpans)
         /\ Pairwise(t, DistinctRefs)
              <=> Pairwise(s, DistinctRefs) /\ ApartFrom(e, s, DistinctRefs)
<1> DEFINE S == Blocks(n)
           z == <<e>>
<1>1. PICK a \in Seq(S), c \in Seq(S) : Same(s, a \o c) /\ Around(t, a, e, c)
  BY DEF PutIn
<1>2. \A y \in S : PagesIn(y) \in Nat
  BY BlocksCount
<1>3. z \in Seq(S) /\ e \in S
  OBVIOUS
<1> HIDE DEF S
<1>4. Total(z) = PagesIn(e)
  BY <1>2, <1>3, TotalSmall
<1>5. /\ Pairwise((a \o <<e>>) \o c, DisjointSpans)
           <=> Pairwise(a \o c, DisjointSpans) /\ Across(<<e>>, a \o c, DisjointSpans)
      /\ Pairwise((a \o <<e>>) \o c, DistinctRefs)
           <=> Pairwise(a \o c, DistinctRefs) /\ Across(<<e>>, a \o c, DistinctRefs)
  BY <1>3, RelationsSymmetric, PairwiseInsert
<1>6. s = a \o c /\ t = (a \o z) \o c
  BY <1>1 DEF Same, Around
<1>7. /\ Pairwise(t, DisjointSpans)
           <=> Pairwise(s, DisjointSpans) /\ Across(z, s, DisjointSpans)
      /\ Pairwise(t, DistinctRefs)
           <=> Pairwise(s, DistinctRefs) /\ Across(z, s, DistinctRefs)
  BY <1>5, <1>6
<1> HIDE DEF z
<1> DEFINE ac == a \o c
           az == a \o z
<1>8. ac \in Seq(S) /\ az \in Seq(S)
  BY <1>3, ConcatProperties
<1>9. Total(ac) = Total(a) + Total(c) /\ Total(az) = Total(a) + Total(z)
      /\ Total(a) \in Nat
  BY <1>2, <1>3, CountsConcat
<1>10. Total(c) \in Nat /\ Total(z) \in Nat
  BY <1>2, <1>3, CountsConcat
<1>11. Refs(ac) = Refs(a) \cup Refs(c) /\ Refs(az) = Refs(a) \cup Refs(z)
  BY <1>3, RefsConcat
<1> HIDE DEF ac, az
<1>12. az \o c \in Seq(S)
  BY <1>8, ConcatProperties
<1>13. Total(az \o c) = Total(az) + Total(c)
  BY <1>2, <1>8, CountsConcat
<1>14. Refs(az \o c) = Refs(az) \cup Refs(c)
  BY <1>8, RefsConcat
<1>15. s = ac /\ t = az \o c
  BY <1>6 DEF ac, az
<1>16. Total(t) = Total(s) + PagesIn(e) /\ Total(s) \in Nat
  BY <1>4, <1>9, <1>10, <1>13, <1>15
<1>17. Refs(t) = Refs(s) \cup Refs(z)
  BY <1>11, <1>14, <1>15
<1>18. s \in Seq(S) /\ t \in Seq(S)
  BY <1>8, <1>12, <1>15
<1>19. QED
  BY <1>7, <1>16, <1>17, <1>18, RefsOne DEF S, z, RefsOf, ApartFrom

(* The edits of the list put a block in or take one out: Append, before the *)
(* first, InsertAt, RemoveAt, ReplaceAt.                                    *)
LEMMA EndsPutIn ==
  ASSUME NEW n \in Nat, NEW bs \in Seq(Blocks(n)), NEW e \in Blocks(n)
  PROVE  PutIn(n, bs, e, Append(bs, e)) /\ PutIn(n, bs, e, <<e>> \o bs)
<1> DEFINE S == Blocks(n)
           z == <<e>>
           o == << >>
<1>1. o \in Seq(S) /\ z \in Seq(S) /\ bs \in Seq(S) /\ e \in S
  OBVIOUS
<1>2. Append(bs, e) = bs \o z
  BY <1>1, AppendIsConcat
<1> HIDE DEF S, z
<1>3. bs \o z \in Seq(S)
  BY <1>1, ConcatProperties
<1>4. bs \o o = bs
  BY <1>1, ConcatEmptySeq
<1>5. o \o bs = bs
  BY <1>1, ConcatEmptySeq
<1>6. o \o z = z
  BY <1>1, ConcatEmptySeq
<1>7. (bs \o z) \o o = bs \o z
  BY <1>3, ConcatEmptySeq
<1>8. Around(Append(bs, e), bs, e, o)
  BY <1>2, <1>7 DEF Around, z
<1>9. Around(z \o bs, o, e, bs)
  BY <1>6 DEF Around, z
<1>10. Same(bs, bs \o o) /\ Same(bs, o \o bs)
  BY <1>4, <1>5 DEF Same
<1> HIDE DEF o
<1>11. PutIn(n, bs, e, Append(bs, e))
  BY <1>1, <1>8, <1>10 DEF PutIn, S
<1>12. PutIn(n, bs, e, z \o bs)
  BY <1>1, <1>9, <1>10 DEF PutIn, S
<1>13. QED
  BY <1>11, <1>12 DEF z

(* InsertPage: InsertAt puts the block into the list.                       *)
LEMMA InsertPutIn ==
  ASSUME NEW n \in Nat, NEW bs \in Seq(Blocks(n)), NEW e \in Blocks(n),
         NEW k \in 1..(Len(bs) + 1)
  PROVE  PutIn(n, bs, e, InsertAt(bs, k, e))
<1> DEFINE S == Blocks(n)
<1>1. bs \in Seq(S) /\ e \in S
  OBVIOUS
<1> HIDE DEF S
<1>2. Inserted(S, bs, k, e)
  BY <1>1, SeqInsert
<1>3. PICK a \in Seq(S), c \in Seq(S) : Same(bs, a \o c) /\ Around(InsertAt(bs, k, e), a, e, c)
  BY <1>2 DEF Inserted
<1>4. QED
  BY <1>3 DEF PutIn, S

(* DeletePage, UnlockPage: the list without a block, and with another.      *)
LEMMA RemovePutIn ==
  ASSUME NEW n \in Nat, NEW bs \in Seq(Blocks(n)), NEW e \in Blocks(n),
         NEW i \in 1..Len(bs)
  PROVE  /\ bs[i] \in Blocks(n)
         /\ PutIn(n, RemoveAt(bs, i), bs[i], bs)
         /\ PutIn(n, RemoveAt(bs, i), e, ReplaceAt(bs, i, e))
<1> DEFINE S == Blocks(n)
           x == bs[i]
           a == SubSeq(bs, 1, i - 1)
           c == SubSeq(bs, i + 1, Len(bs))
<1>1. bs \in Seq(S) /\ e \in S
  OBVIOUS
<1> HIDE DEF S
<1>2. a \in Seq(S) /\ Len(a) = i - 1 /\ c \in Seq(S) /\ x \in S /\ bs = (a \o <<x>>) \o c
  BY <1>1, SeqAround
<1> HIDE DEF x, a, c
<1>3. i = Len(a) + 1 /\ Around(bs, a, x, c)
  BY <1>2 DEF Around
<1>5. Same(RemoveAt(bs, i), a \o c) /\ Around(ReplaceAt(bs, i, e), a, e, c)
  BY <1>1, <1>2, <1>3, SeqEdits
<1>6. PutIn(n, RemoveAt(bs, i), x, bs) /\ PutIn(n, RemoveAt(bs, i), e, ReplaceAt(bs, i, e))
  BY <1>2, <1>3, <1>5 DEF PutIn, S
<1>7. QED
  BY <1>2, <1>6 DEF x, S

(* What a reference put in adds to a list, and what it needs.               *)
LEMMA PutReference ==
  ASSUME NEW n \in Nat, NEW s, NEW e \in Blocks(n), ~IsSpan(e), NEW t, PutIn(n, s, e, t)
  PROVE  /\ s \in Seq(Blocks(n)) /\ t \in Seq(Blocks(n))
         /\ Total(t) = Total(s) + 1 /\ Total(s) \in Nat
         /\ Refs(t) = Refs(s) \cup {e.val1}
         /\ Pairwise(t, DisjointSpans) <=> Pairwise(s, DisjointSpans)
         /\ Pairwise(t, DistinctRefs) <=> Pairwise(s, DistinctRefs) /\ e.val1 \notin Refs(s)
<1>1. /\ s \in Seq(Blocks(n)) /\ t \in Seq(Blocks(n))
      /\ Total(t) = Total(s) + PagesIn(e) /\ Total(s) \in Nat
      /\ Refs(t) = Refs(s) \cup RefsOf(e)
      /\ Pairwise(t, DisjointSpans)
           <=> Pairwise(s, DisjointSpans) /\ ApartFrom(e, s, DisjointSpans)
      /\ Pairwise(t, DistinctRefs)
           <=> Pairwise(s, DistinctRefs) /\ ApartFrom(e, s, DistinctRefs)
  BY PutInFacts
<1>2. /\ ApartFrom(e, s, DisjointSpans)
      /\ ApartFrom(e, s, DistinctRefs) <=> e.val1 \notin Refs(s)
  BY <1>1, ReferenceAcross
<1>3. e.type = "reference"
  BY BlocksCount DEF IsSpan, Block
<1>4. PagesIn(e) = 1
  BY <1>3 DEF PagesIn
<1>5. RefsOf(e) = {e.val1}
  BY <1>3 DEF RefsOf
<1>6. QED
  BY <1>1, <1>2, <1>4, <1>5

(* What is left when a single page is taken out.                            *)
LEMMA TakePage ==
  ASSUME NEW n \in Nat, NEW s, NEW e \in Blocks(n), PagesIn(e) = 1, NEW t, PutIn(n, s, e, t)
  PROVE  /\ s \in Seq(Blocks(n))
         /\ Total(s) = Total(t) - 1
         /\ Pairwise(t, DisjointSpans) => Pairwise(s, DisjointSpans)
         /\ Pairwise(t, DistinctRefs) =>
              /\ Pairwise(s, DistinctRefs)
              /\ Refs(s) = IF IsSpan(e) THEN Refs(t) ELSE Refs(t) \ {e.val1}
<1>1. /\ s \in Seq(Blocks(n)) /\ t \in Seq(Blocks(n))
      /\ Total(t) = Total(s) + PagesIn(e) /\ Total(s) \in Nat
      /\ Refs(t) = Refs(s) \cup RefsOf(e)
      /\ Pairwise(t, DisjointSpans)
           <=> Pairwise(s, DisjointSpans) /\ ApartFrom(e, s, DisjointSpans)
      /\ Pairwise(t, DistinctRefs)
           <=> Pairwise(s, DistinctRefs) /\ ApartFrom(e, s, DistinctRefs)
  BY PutInFacts
<1>2. CASE IsSpan(e)
  <2>1. RefsOf(e) = {}
    BY <1>2 DEF RefsOf, IsSpan
  <2>2. QED
    BY <1>1, <1>2, <2>1
<1>3. CASE ~IsSpan(e)
  <2>1. /\ Refs(t) = Refs(s) \cup {e.val1}
        /\ Pairwise(t, DistinctRefs) => e.val1 \notin Refs(s)
    BY <1>3, PutReference
  <2>2. QED
    BY <1>1, <1>3, <2>1
<1>4. QED
  BY <1>2, <1>3

(* The block that FindBlock returns.                                        *)
LEMMA BlockFoundAt ==
  ASSUME NEW n \in Nat, NEW bs \in Seq(Blocks(n)), NEW p \in Nat, Within(bs, p)
  PROVE  BlockAt(bs, p) \in 1..Len(bs)
<1> DEFINE S == Blocks(n)
<1>1. \A y \in S : PagesIn(y) \in Nat
  BY BlocksCount
<1>2. bs \in Seq(S)
  OBVIOUS
<1> HIDE DEF S
<1>3. PICK a \in Seq(S), c \in Seq(S), x \in S :
        Around(bs, a, x, c) /\ Total(a) <= p /\ p < Total(a) + PagesIn(x)
  BY <1>1, <1>2, BlockFound
<1>4. /\ BlockAt(bs, p) = Len(a) + 1
      /\ bs[BlockAt(bs, p)] = x
      /\ PagesThrough(bs)[BlockAt(bs, p) - 1] = Total(a)
  BY <1>1, <1>3, BlockAtPosition, SMTT(30)
<1>6. Len(a) + 1 \in 1..Len(bs)
  BY <1>3, AroundPosition
<1>7. QED
  BY <1>4, <1>6

(* FindBlock: after the split the block of a page holds that page alone.    *)
LEMMA PageFound ==
  ASSUME NEW n \in Nat, NEW bs \in Seq(Blocks(n)), NEW p \in Nat, Within(bs, p),
         NEW t, t = Split(bs, p), NEW i, i = BlockAt(t, p)
  PROVE  /\ Alike(n, bs, t) /\ t \in Seq(Blocks(n))
         /\ i \in 1..Len(t) /\ t[i] \in Blocks(n) /\ PagesIn(t[i]) = 1
<1> DEFINE S == Blocks(n)
<1>1. Alike(n, bs, t) /\ Single(n, t, p)
  BY SplitFacts
<1>2. PICK a \in Seq(S), c \in Seq(S), x \in S :
        Around(t, a, x, c) /\ Total(a) = p /\ PagesIn(x) = 1
  BY <1>1 DEF Single
<1>3. \A y \in S : PagesIn(y) \in Nat
  BY BlocksCount
<1>4. t \in Seq(S)
  BY <1>1 DEF Alike
<1> HIDE DEF S
<1>5. Total(a) <= p /\ p < Total(a) + PagesIn(x)
  BY <1>2
<1>6. i = Len(a) + 1 /\ t[i] = x
  BY <1>2, <1>3, <1>5, BlockAtPosition, SMTT(30)
<1>8. Len(a) + 1 \in 1..Len(t)
  BY <1>2, AroundPosition
<1>9. QED
  BY <1>1, <1>2, <1>4, <1>6, <1>8 DEF S

-----------------------------------------------------------------------------
(* The cache file and its numbers: those that are free are used by nothing, *)
(* and none is free twice.                                                  *)
Caches == [images : UNION {[D -> Image] : D \in SUBSET Nat}, free : Seq(Nat), count : Nat]
Numbers(c) ==
  /\ \A i, j \in 1..Len(c.free) : i # j => c.free[i] # c.free[j]
  /\ \A i \in 1..Len(c.free) : c.free[i] < c.count /\ c.free[i] \notin DOMAIN c.images
  /\ \A r \in DOMAIN c.images : r < c.count

(* A cache is the record of its three parts.                                *)
LEMMA CachesForm ==
  ASSUME NEW c \in Caches
  PROVE  /\ c = [images |-> c.images, free |-> c.free, count |-> c.count]
         /\ DOMAIN c.images \subseteq Nat /\ \A r \in DOMAIN c.images : c.images[r] \in Image
         /\ c.free \in Seq(Nat) /\ c.count \in Nat
  BY DEF Caches

(* Three parts of the right types make a cache.                             *)
LEMMA CachesMade ==
  ASSUME NEW D, D \subseteq Nat, NEW f \in [D -> Image], NEW free \in Seq(Nat), NEW count \in Nat
  PROVE  [images |-> f, free |-> free, count |-> count] \in Caches
  BY DEF Caches

(* writeFile stores under a number that nothing used.                       *)
LEMMA WriteFacts ==
  ASSUME NEW c \in Caches, Numbers(c), NEW image \in Image
  PROVE  /\ WriteFile(c, image) \in Caches /\ Numbers(WriteFile(c, image))
         /\ NewRef(c) \in Nat \ DOMAIN c.images
         /\ DOMAIN WriteFile(c, image).images = DOMAIN c.images \cup {NewRef(c)}
<1> DEFINE ref == NewRef(c)
           D == DOMAIN c.images \cup {ref}
           f == [r \in D |-> IF r = ref THEN image ELSE c.images[r]]
           fr == IF c.free # << >> THEN Tail(c.free) ELSE c.free
           ct == IF c.free # << >> THEN c.count ELSE c.count + 1
           w == WriteFile(c, image)
<1>1. /\ DOMAIN c.images \subseteq Nat /\ \A r \in DOMAIN c.images : c.images[r] \in Image
      /\ c.free \in Seq(Nat) /\ c.count \in Nat /\ Len(c.free) \in Nat
  BY CachesForm, LenProperties
<1>2. w = [images |-> f, free |-> fr, count |-> ct]
  BY DEF WriteFile, WriteAs
<1>3. /\ ref \in Nat \ DOMAIN c.images
      /\ fr \in Seq(Nat) /\ ct \in Nat
      /\ ref < ct /\ c.count <= ct
      /\ \A i \in 1..Len(fr) : fr[i] # ref
      /\ \A i \in 1..Len(fr) : fr[i] < ct /\ fr[i] \notin DOMAIN c.images
      /\ \A i, j \in 1..Len(fr) : i # j => fr[i] # fr[j]
  <2>1. CASE c.free = << >>
    <3>1. ref = c.count /\ fr = << >> /\ ct = c.count + 1 /\ Len(fr) = 0 /\ 1..0 = {}
      BY <2>1 DEF NewRef
    <3>2. c.count \notin DOMAIN c.images
      BY <1>1 DEF Numbers
    <3> HIDE DEF fr, ref, ct
    <3>3. QED
      BY <1>1, <3>1, <3>2
  <2>2. CASE c.free # << >>
    <3> DEFINE q == c.free
    <3>1. ref = Head(q) /\ fr = Tail(q) /\ ct = c.count
      BY <2>2 DEF NewRef
    <3> HIDE DEF fr, ref, ct
    <3>2. Len(q) \in Nat \ {0} /\ Head(q) = q[1] /\ q[1] \in Nat
      BY <1>1, <2>2
    <3>3. fr \in Seq(Nat) /\ Len(fr) = Len(q) - 1 /\ \A i \in 1..Len(fr) : fr[i] = q[i + 1]
      BY <1>1, <2>2, <3>1
    <3>4. \A i \in 1..Len(fr) : i + 1 \in 1..Len(q) /\ i + 1 # 1
      BY <3>2, <3>3
    <3>5. /\ \A i, j \in 1..Len(q) : i # j => q[i] # q[j]
          /\ \A i \in 1..Len(q) : q[i] < c.count /\ q[i] \notin DOMAIN c.images
      BY DEF Numbers
    <3> HIDE DEF q
    <3>6. 1 \in 1..Len(q)
      BY <3>2
    <3>7. ref \in Nat \ DOMAIN c.images /\ ref < ct /\ ct \in Nat /\ c.count <= ct
      BY <1>1, <3>1, <3>2, <3>5, <3>6
    <3>8. \A i \in 1..Len(fr) : fr[i] # ref /\ fr[i] < ct /\ fr[i] \notin DOMAIN c.images
      BY <3>1, <3>2, <3>3, <3>4, <3>5, <3>6
    <3>9. ASSUME NEW i \in 1..Len(fr), NEW j \in 1..Len(fr), i # j PROVE fr[i] # fr[j]
      <4>1. i + 1 # j + 1
        BY <3>9
      <4>2. QED
        BY <4>1, <3>3, <3>4, <3>5
    <3>10. QED
      BY <3>3, <3>7, <3>8, <3>9
  <2>3. QED
    BY <2>1, <2>2
<1> HIDE DEF ref, fr, ct, w
<1>4. f \in [D -> Image] /\ D \subseteq Nat
  BY <1>1, <1>3
<1> HIDE DEF f, D
<1>5. w \in Caches
  BY <1>2, <1>3, <1>4, CachesMade
<1>6. w.images = f /\ w.free = fr /\ w.count = ct /\ DOMAIN f = D
  BY <1>2, <1>4
<1>7. \A r \in D : r < ct /\ r \in Nat
  <2>1. \A r \in DOMAIN c.images : r < c.count
    BY DEF Numbers
  <2>2. QED
    BY <1>1, <1>3, <2>1 DEF D
<1>8. Numbers(w)
  <2>1. \A i \in 1..Len(fr) : fr[i] \notin D
    BY <1>3 DEF D
  <2>2. QED
    BY <1>3, <1>6, <1>7, <2>1 DEF Numbers
<1>9. QED
  BY <1>3, <1>5, <1>6, <1>8 DEF ref, D, w

(* deleteFile frees a number.                                               *)
LEMMA DeleteFacts ==
  ASSUME NEW c \in Caches, Numbers(c), NEW ref \in Nat
  PROVE  /\ DeleteFile(c, ref) \in Caches /\ Numbers(DeleteFile(c, ref))
         /\ DOMAIN DeleteFile(c, ref).images = DOMAIN c.images \ {ref}
<1> DEFINE w == DeleteFile(c, ref)
<1>1. /\ c = [images |-> c.images, free |-> c.free, count |-> c.count]
      /\ DOMAIN c.images \subseteq Nat /\ \A r \in DOMAIN c.images : c.images[r] \in Image
      /\ c.free \in Seq(Nat) /\ c.count \in Nat /\ Len(c.free) \in Nat
  BY CachesForm, LenProperties
<1>2. CASE ref \notin DOMAIN c.images
  <2>1. w = c
    BY <1>2 DEF DeleteFile
  <2>2. QED
    BY <1>2, <2>1
<1>3. CASE ref \in DOMAIN c.images
  <2> DEFINE D == DOMAIN c.images \ {ref}
             f == [r \in D |-> c.images[r]]
             q == c.free
             fr == Append(q, ref)
  <2>1. w = [c EXCEPT !.images = f, !.free = fr]
    BY <1>3 DEF DeleteFile
  <2>2. f \in [D -> Image] /\ D \subseteq Nat
    BY <1>1
  <2>3. /\ fr \in Seq(Nat) /\ Len(fr) = Len(q) + 1
        /\ \A i \in 1..Len(q) : fr[i] = q[i]
        /\ fr[Len(q) + 1] = ref
    BY <1>1
  <2>4. DOMAIN f = D
    OBVIOUS
  <2> HIDE DEF f, fr
  <2>5. w = [images |-> f, free |-> fr, count |-> c.count]
    BY <1>1, <2>1
  <2>6. w \in Caches
    <3> HIDE DEF D
    <3>1. QED
      BY <1>1, <2>2, <2>3, <2>5, CachesMade
  <2>7. w.images = f /\ w.free = fr /\ w.count = c.count
    BY <2>5
  <2>8. /\ \A i, j \in 1..Len(q) : i # j => q[i] # q[j]
        /\ \A i \in 1..Len(q) : q[i] < c.count /\ q[i] \notin DOMAIN c.images
        /\ \A r \in DOMAIN c.images : r < c.count
    BY DEF Numbers
  <2>9. \A i \in 1..Len(fr) : i \in 1..Len(q) \/ i = Len(q) + 1
    BY <1>1, <2>3
  <2>10. \A i \in 1..Len(fr) : fr[i] < c.count /\ fr[i] \notin D
    BY <1>3, <2>3, <2>8, <2>9
  <2>11. \A i, j \in 1..Len(fr) : i # j => fr[i] # fr[j]
    BY <1>3, <2>3, <2>8, <2>9
  <2>12. \A r \in D : r < c.count
    BY <2>8
  <2>13. Numbers(w)
    BY <2>4, <2>7, <2>10, <2>11, <2>12 DEF Numbers
  <2>14. QED
    BY <2>4, <2>6, <2>7, <2>13
<1>4. QED
  BY <1>2, <1>3

-----------------------------------------------------------------------------
(* List and cache file belong together: spans are within the source file    *)
(* and apart, and, as long as compressing an image does not fail, the cache *)
(* holds one image for each reference and no other.                         *)
Owned(bs, c) == Pairwise(bs, DistinctRefs) /\ DOMAIN c.images = Refs(bs)
Listed(n, bs, c) ==
  /\ bs \in Seq(Blocks(n)) /\ Pairwise(bs, DisjointSpans)
  /\ c \in Caches /\ Numbers(c)
  /\ "encode" \notin Failures => Owned(bs, c)

(* A reference to a stored image is a block of the list.                    *)
LEMMA ReferencesAreBlocks ==
  ASSUME NEW n \in Nat, NEW ref \in Nat, NEW size \in Nat
  PROVE  /\ Reference(ref, size) \in Blocks(n)
         /\ ~IsSpan(Reference(ref, size)) /\ Reference(ref, size).val1 = ref
  BY DEF Reference, Blocks, Block, IsSpan

(* An alike list belongs to the cache as well.                              *)
LEMMA AlikeListed ==
  ASSUME NEW n, NEW s, NEW c, Listed(n, s, c), NEW t, Alike(n, s, t)
  PROVE  Listed(n, t, c) /\ Total(t) = Total(s)
  BY DEF Listed, Alike, Owned

(* What is alike to an alike list is alike to the first.                    *)
LEMMA AlikeTwice ==
  ASSUME NEW n, NEW s, NEW t, Alike(n, s, t), NEW u, Alike(n, t, u)
  PROVE  Alike(n, s, u)
  BY DEF Alike

(* AppendPage, InsertPage: a new image in the cache and a block for it.     *)
LEMMA PutInListed ==
  ASSUME NEW n \in Nat, NEW s, NEW c, Listed(n, s, c), NEW image \in Image,
         NEW t, PutIn(n, s, Reference(NewRef(c), 1), t)
  PROVE  Listed(n, t, WriteFile(c, image)) /\ Total(t) = Total(s) + 1
<1> DEFINE ref == NewRef(c)
           e == Reference(ref, 1)
           w == WriteFile(c, image)
<1>1. c \in Caches /\ Numbers(c) /\ s \in Seq(Blocks(n)) /\ Pairwise(s, DisjointSpans)
  BY DEF Listed
<1>2. /\ w \in Caches /\ Numbers(w)
      /\ ref \in Nat \ DOMAIN c.images
      /\ DOMAIN w.images = DOMAIN c.images \cup {ref}
  BY <1>1, WriteFacts
<1> HIDE DEF ref, w
<1>3. e \in Blocks(n) /\ ~IsSpan(e) /\ e.val1 = ref
  BY <1>2, ReferencesAreBlocks
<1>4. PutIn(n, s, e, t)
  BY DEF ref
<1> HIDE DEF e
<1>5. /\ t \in Seq(Blocks(n))
      /\ Total(t) = Total(s) + 1
      /\ Refs(t) = Refs(s) \cup {e.val1}
      /\ Pairwise(t, DisjointSpans) <=> Pairwise(s, DisjointSpans)
      /\ Pairwise(t, DistinctRefs) <=> Pairwise(s, DistinctRefs) /\ e.val1 \notin Refs(s)
  BY <1>3, <1>4, PutReference
<1>6. "encode" \notin Failures => Owned(t, w)
  BY <1>2, <1>3, <1>5 DEF Listed, Owned
<1>7. QED
  BY <1>1, <1>2, <1>5, <1>6 DEF Listed, w

(* The cache without the image of a block, the list without the block.      *)
Without(c, e) == IF e.type = "reference" THEN DeleteFile(c, e.val1) ELSE c

(* DeletePage: both the block and its stored image are gone.                *)
LEMMA TakenListed ==
  ASSUME NEW n \in Nat, NEW t, NEW c, Listed(n, t, c),
         NEW e \in Blocks(n), PagesIn(e) = 1, NEW s, PutIn(n, s, e, t)
  PROVE  Listed(n, s, Without(c, e)) /\ Total(s) = Total(t) - 1
<1>1. c \in Caches /\ Numbers(c) /\ Pairwise(t, DisjointSpans)
  BY DEF Listed
<1>2. /\ s \in Seq(Blocks(n))
      /\ Total(s) = Total(t) - 1
      /\ Pairwise(t, DisjointSpans) => Pairwise(s, DisjointSpans)
      /\ Pairwise(t, DistinctRefs) =>
           /\ Pairwise(s, DistinctRefs)
           /\ Refs(s) = IF IsSpan(e) THEN Refs(t) ELSE Refs(t) \ {e.val1}
  BY TakePage
<1>3. e.val1 \in Nat /\ (IsSpan(e) <=> e.type # "reference")
  BY DEF Blocks, Block, IsSpan
<1> DEFINE w == Without(c, e)
<1>4. /\ w \in Caches /\ Numbers(w)
      /\ DOMAIN w.images = IF IsSpan(e) THEN DOMAIN c.images ELSE DOMAIN c.images \ {e.val1}
  <2>1. CASE IsSpan(e)
    BY <1>1, <1>3, <2>1 DEF Without
  <2>2. CASE ~IsSpan(e)
    <3>1. w = DeleteFile(c, e.val1)
      BY <1>3, <2>2 DEF Without
    <3>2. /\ DeleteFile(c, e.val1) \in Caches /\ Numbers(DeleteFile(c, e.val1))
          /\ DOMAIN DeleteFile(c, e.val1).images = DOMAIN c.images \ {e.val1}
      BY <1>1, <1>3, DeleteFacts
    <3>3. QED
      BY <2>2, <3>1, <3>2
  <2>3. QED
    BY <2>1, <2>2
<1> HIDE DEF w
<1>5. "encode" \notin Failures => Owned(s, w)
  BY <1>2, <1>4 DEF Listed, Owned
<1>6. QED
  BY <1>1, <1>2, <1>4, <1>5 DEF Listed, w

(* A reference to no image, which compressing leaves when it fails.         *)
LEMMA PutEmptyListed ==
  ASSUME NEW n \in Nat, NEW s, NEW c, Listed(n, s, c), "encode" \in Failures,
         NEW t, PutIn(n, s, Reference(0, 0), t)
  PROVE  Listed(n, t, c) /\ Total(t) = Total(s) + 1
<1> DEFINE e == Reference(0, 0)
<1>1. e \in Blocks(n) /\ ~IsSpan(e)
  BY ReferencesAreBlocks
<1> HIDE DEF e
<1>2. /\ t \in Seq(Blocks(n))
      /\ Total(t) = Total(s) + 1
      /\ Pairwise(t, DisjointSpans) <=> Pairwise(s, DisjointSpans)
  BY <1>1, PutReference DEF e
<1>3. QED
  BY <1>2 DEF Listed

(* MovePage: the block goes somewhere else.                                 *)
LEMMA MovedAlike ==
  ASSUME NEW n \in Nat, NEW bs \in Seq(Blocks(n)), NEW i \in 1..Len(bs), NEW k \in 1..Len(bs)
  PROVE  Alike(n, bs, InsertAt(RemoveAt(bs, i), k, bs[i]))
<1> DEFINE x == bs[i]
           s == RemoveAt(bs, i)
           t == InsertAt(s, k, x)
<1>1. x \in Blocks(n) /\ PutIn(n, s, x, bs)
  <2>1. x \in Blocks(n)
    BY ElementOfSeq
  <2>2. QED
    BY <2>1, RemovePutIn
<1>2. s \in Seq(Blocks(n)) /\ Len(s) = Len(bs) - 1
  <2>1. s \in Seq(Blocks(n))
    <3> HIDE DEF x, s
    <3>1. QED
      BY <1>1, PutInFacts
  <2>2. Len(s) = Len(bs) - 1
    BY RemovedLength
  <2>3. QED
    BY <2>1, <2>2
<1> HIDE DEF x, s
<1>3. k \in 1..(Len(s) + 1)
  BY <1>2, LenProperties
<1>4. PutIn(n, s, x, t)
  BY <1>1, <1>2, <1>3, InsertPutIn
<1> HIDE DEF t
<1>5. /\ s \in Seq(Blocks(n)) /\ t \in Seq(Blocks(n))
      /\ Total(t) = Total(s) + PagesIn(x) /\ Total(s) \in Nat
      /\ Refs(t) = Refs(s) \cup RefsOf(x)
      /\ Pairwise(t, DisjointSpans)
           <=> Pairwise(s, DisjointSpans) /\ ApartFrom(x, s, DisjointSpans)
      /\ Pairwise(t, DistinctRefs)
           <=> Pairwise(s, DistinctRefs) /\ ApartFrom(x, s, DistinctRefs)
  BY <1>1, <1>4, PutInFacts
<1>6. /\ s \in Seq(Blocks(n)) /\ bs \in Seq(Blocks(n))
      /\ Total(bs) = Total(s) + PagesIn(x) /\ Total(s) \in Nat
      /\ Refs(bs) = Refs(s) \cup RefsOf(x)
      /\ Pairwise(bs, DisjointSpans)
           <=> Pairwise(s, DisjointSpans) /\ ApartFrom(x, s, DisjointSpans)
      /\ Pairwise(bs, DistinctRefs)
           <=> Pairwise(s, DistinctRefs) /\ ApartFrom(x, s, DistinctRefs)
  BY <1>1, PutInFacts
<1>7. Alike(n, bs, t)
  BY <1>5, <1>6 DEF Alike
<1>8. QED
  BY <1>7 DEF t, s, x

-----------------------------------------------------------------------------
(* The invariant.  Beside what is to be proved it says that spans stay in   *)
(* the source file, that free numbers are free, where saving stands in the  *)
(* list, and when there may be a spool file.                                *)
Saves ==
  [target : {"none", "spool", "elsewhere"}, block : Nat \ {0}, page : Nat,
   success : BOOLEAN, out : Files]
ListInv == Listed(Len(source), blocks, cache) /\ pageCount \in {-1, Total(blocks)}
LockInv ==
  /\ DOMAIN locked \subseteq 0..(Len(source) - 1)
  /\ "beyond" \in Habits \/ \A p \in DOMAIN locked : Within(blocks, p)
SaveInv ==
  phase = "saving" =>
    /\ save.target # "none"
    /\ save.page = 0 \/ (save.block <= Len(blocks) /\ save.page < PagesIn(blocks[save.block]))
SpoolInv ==
  /\ phase \in {"open", "assert"} => spool = Absent
  /\ (phase = "saving" /\ save.target = "elsewhere") => spool = Absent
FaultInv == phase = "fault" => "encode" \in Failures \/ "moved" \in Habits
Inv ==
  /\ VariablesOK
  /\ save \in Saves
  /\ ListInv
  /\ LockInv
  /\ SaveInv
  /\ SpoolInv
  /\ FaultInv

(* A list in the source file has a number of pages, and blocks.             *)
LEMMA ListedTypes ==
  ASSUME NEW n \in Nat, NEW bs, NEW c, Listed(n, bs, c)
  PROVE  /\ bs \in Seq(Blocks(n)) /\ Len(bs) \in Nat /\ Total(bs) \in Nat
         /\ \A i \in 1..Len(bs) : bs[i] \in Blocks(n) /\ PagesIn(bs[i]) \in Nat
         /\ bs \in Seq([type : {"continueus", "reference"}, val1 : Nat, val2 : Int])
<1> DEFINE S == Blocks(n)
<1>1. \A y \in S : PagesIn(y) \in Nat /\ y \in Block
  BY BlocksCount
<1>2. bs \in Seq(S)
  BY DEF Listed
<1>3. bs \in Seq(Block)
  <2> HIDE DEF S
  <2>1. S \subseteq Block
    BY <1>1
  <2>2. QED
    BY <1>2, <2>1
<1> HIDE DEF S
<1>4. Len(bs) \in Nat /\ \A i \in 1..Len(bs) : bs[i] \in S /\ PagesIn(bs[i]) \in Nat
  BY <1>1, <1>2, Counts
<1>5. PagesThrough(bs) \in [0..Len(bs) -> Nat]
  BY <1>1, <1>2, Counts
<1>6. Total(bs) \in Nat
  BY <1>4, <1>5 DEF Total
<1>7. QED
  BY <1>2, <1>3, <1>4, <1>6 DEF S, Block

(* The file the bitmap was opened from has a number of pages.               *)
LEMMA SourceLength ==
  ASSUME VariablesOK
  PROVE  Len(source) \in Nat
<1>1. source \in Seq(Image)
  BY DEF VariablesOK, Pages
<1>2. QED
  BY <1>1, LenProperties

(* FreeImage_InternalGetPageCount adds up the pages of the blocks.          *)
LEMMA CountIsTotal ==
  ASSUME ListInv
  PROVE  CountPages = Total(blocks)
  BY DEF ListInv, CountPages

(* An edit of an open bitmap.                                               *)
LEMMA Edited ==
  ASSUME Inv, phase = "open",
         UNCHANGED <<diskVars, mode, closeVars, answer, crashed>>,
         Listed(Len(source), blocks', cache'), pageCount' \in {-1, Total(blocks')},
         changed' \in BOOLEAN, images' \in 0..MaxImages,
         DOMAIN locked' \subseteq DOMAIN locked,
         \A p \in DOMAIN locked' : locked'[p] = locked[p],
         DOMAIN locked' = {} \/ Total(blocks') = Total(blocks)
  PROVE  Inv'
<1>1. /\ UNCHANGED <<source, file, spool, mode, phase, save, result, answer, crashed>>
      /\ phase' = "open"
  BY DEF diskVars, closeVars
<1>2. Len(source) \in Nat
  BY SourceLength DEF Inv
<1>3. ListInv'
  BY <1>1 DEF ListInv
<1>4. LockInv'
  BY <1>1 DEF Inv, LockInv, Within
<1>5. SaveInv'
  BY <1>1 DEF SaveInv
<1>6. SpoolInv'
  BY <1>1 DEF Inv, SpoolInv
<1>7. FaultInv'
  BY <1>1 DEF FaultInv
<1>8. VariablesOK'
  <2>1. /\ blocks' \in Seq([type : {"continueus", "reference"}, val1 : Nat, val2 : Int])
        /\ Total(blocks') \in Nat
    BY <1>2, ListedTypes
  <2>2. cache' \in Caches
    BY DEF Listed
  <2>3. /\ DOMAIN cache'.images \subseteq Nat /\ \A r \in DOMAIN cache'.images : cache'.images[r] \in Image
        /\ cache'.free \in Seq(Nat) /\ cache'.count \in Nat
    BY <2>2, CachesForm
  <2>4. pageCount' \in Nat \cup {-1}
    BY <2>1
  <2>5. DOMAIN locked' \subseteq Nat /\ \A p \in DOMAIN locked' : locked'[p] \in Image
    BY DEF Inv, VariablesOK
  <2>6. QED
    BY <1>1, <2>1, <2>3, <2>4, <2>5 DEF Inv, VariablesOK
<1>9. (save \in Saves)'
  BY <1>1 DEF Inv
<1>10. QED
  BY <1>3, <1>4, <1>5, <1>6, <1>7, <1>8, <1>9 DEF Inv

(* A step that leaves the list, the cache and the count alone.              *)
LEMMA ListKept ==
  ASSUME Inv, UNCHANGED <<source, mode, bitmapVars>>
  PROVE  ListInv' /\ UNCHANGED <<blocks, cache, changed, pageCount>>
  BY DEF Inv, ListInv, bitmapVars

-----------------------------------------------------------------------------
(* What an edit may start from, and the image it makes.                     *)
LEMMA EditStart ==
  ASSUME Inv
  PROVE  /\ Len(source) \in Nat
         /\ Listed(Len(source), blocks, cache)
         /\ blocks \in Seq(Blocks(Len(source))) /\ Total(blocks) \in Nat
         /\ cache \in Caches /\ Numbers(cache)
         /\ CountPages = Total(blocks)
         /\ images \in 0..MaxImages
<1>1. Len(source) \in Nat
  BY SourceLength DEF Inv
<1>2. Listed(Len(source), blocks, cache) /\ CountPages = Total(blocks)
  BY CountIsTotal DEF Inv, ListInv
<1>3. blocks \in Seq(Blocks(Len(source))) /\ Total(blocks) \in Nat
  BY <1>1, <1>2, ListedTypes
<1>4. cache \in Caches /\ Numbers(cache)
  BY <1>2 DEF Listed
<1>5. QED
  BY <1>1, <1>2, <1>3, <1>4 DEF Inv, VariablesOK

(* A new image is one of the images of the model.                           *)
LEMMA ImageMade ==
  ASSUME images \in 0..MaxImages, NewImage
  PROVE  images' \in 0..MaxImages /\ New(images') \in Image
<1>1. MaxImages \in Nat
  BY BoundAssumption
<1>2. images' \in 0..MaxImages /\ images' \in 1..MaxImages
  BY <1>1 DEF NewImage
<1>3. QED
  BY <1>2 DEF Image

(* The block of an image just stored is a block of the list.                *)
LEMMA NewBlock ==
  ASSUME NEW n \in Nat, NEW c \in Caches, Numbers(c)
  PROVE  Reference(NewRef(c), 1) \in Blocks(n)
<1>2. NewRef(c) \in Nat
  <2>1. c.free \in Seq(Nat) /\ c.count \in Nat
    BY CachesForm
  <2>2. QED
    BY <2>1 DEF NewRef
<1>3. QED
  BY <1>2, ReferencesAreBlocks

(* AppendPage.                                                              *)
LEMMA AppendPageInv ==
  ASSUME Inv, AppendPage
  PROVE  Inv'
<1> DEFINE n == Len(source)
           e == Reference(NewRef(cache), 1)
           t == Append(blocks, e)
<1>1. /\ n \in Nat /\ Listed(n, blocks, cache) /\ blocks \in Seq(Blocks(n))
      /\ cache \in Caches /\ Numbers(cache) /\ images \in 0..MaxImages
  BY EditStart
<1>2. images' \in 0..MaxImages /\ New(images') \in Image
  BY <1>1, ImageMade DEF AppendPage
<1>3. blocks' = t /\ cache' = WriteFile(cache, New(images')) /\ changed' = TRUE /\ pageCount' = -1
      /\ phase = "open" /\ DOMAIN locked = {} /\ locked' = locked
      /\ UNCHANGED <<diskVars, mode, closeVars, answer, crashed>>
  BY DEF AppendPage, Open, MayStore, SavePageToBlock, Restructure
<1> HIDE DEF n
<1>4. e \in Blocks(n)
  BY <1>1, NewBlock
<1>5. PutIn(n, blocks, e, t)
  BY <1>1, <1>4, EndsPutIn
<1> HIDE DEF t
<1>6. Listed(n, t, WriteFile(cache, New(images')))
  BY <1>1, <1>2, <1>5, PutInListed
<1> HIDE DEF e
<1>7. Listed(n, blocks', cache')
  BY <1>3, <1>6
<1>8. QED
  BY <1>2, <1>3, <1>7, Edited DEF n

(* InsertPage.                                                              *)
LEMMA InsertPageInv ==
  ASSUME Inv, NEW page \in Positions, InsertPage(page)
  PROVE  Inv'
<1> DEFINE n == Len(source)
           e == Reference(NewRef(cache), 1)
           bs == Split(blocks, page)
           i == BlockAt(bs, page)
           t == IF page > 0 THEN InsertAt(bs, i, e) ELSE <<e>> \o blocks
<1>1. /\ n \in Nat /\ Listed(n, blocks, cache) /\ blocks \in Seq(Blocks(n))
      /\ cache \in Caches /\ Numbers(cache) /\ images \in 0..MaxImages
      /\ Total(blocks) \in Nat
  BY EditStart
<1>2. images' \in 0..MaxImages /\ New(images') \in Image
  BY <1>1, ImageMade DEF InsertPage
<1>3. blocks' = t /\ cache' = WriteFile(cache, New(images')) /\ changed' = TRUE /\ pageCount' = -1
      /\ phase = "open" /\ DOMAIN locked = {} /\ locked' = locked
      /\ UNCHANGED <<diskVars, mode, closeVars, answer, crashed>>
  BY DEF InsertPage, Open, MayStore, SavePageToBlock, Restructure
<1>4. page \in Nat /\ Within(blocks, page)
  BY <1>1 DEF Positions, Within
<1> HIDE DEF n
<1>5. e \in Blocks(n)
  BY <1>1, NewBlock
<1> HIDE DEF i, bs
<1>6. /\ Alike(n, blocks, bs) /\ bs \in Seq(Blocks(n)) /\ i \in 1..Len(bs)
  BY <1>1, <1>4, PageFound DEF bs, i
<1>7. Listed(n, t, WriteFile(cache, New(images')))
  <2>1. CASE page > 0
    <3>1. Listed(n, bs, cache)
      BY <1>1, <1>6, AlikeListed
    <3>2. i \in 1..(Len(bs) + 1)
      BY <1>6, LenProperties
    <3>3. PutIn(n, bs, e, InsertAt(bs, i, e))
      BY <1>1, <1>5, <1>6, <3>2, InsertPutIn
    <3>4. PutIn(n, bs, e, t)
      BY <2>1, <3>3
    <3> HIDE DEF t
    <3>5. QED
      BY <1>1, <1>2, <3>1, <3>4, PutInListed
  <2>2. CASE ~(page > 0)
    <3>1. PutIn(n, blocks, e, <<e>> \o blocks)
      BY <1>1, <1>5, EndsPutIn
    <3>2. PutIn(n, blocks, e, t)
      BY <2>2, <3>1
    <3> HIDE DEF t
    <3>3. QED
      BY <1>1, <1>2, <3>2, PutInListed
  <2>3. QED
    BY <2>1, <2>2
<1> HIDE DEF e, t
<1>8. Listed(n, blocks', cache')
  BY <1>3, <1>7
<1>9. QED
  BY <1>2, <1>3, <1>8, Edited DEF n

(* DeletePage.                                                              *)
LEMMA DeletePageInv ==
  ASSUME Inv, NEW page \in Positions, DeletePage(page)
  PROVE  Inv'
<1> DEFINE n == Len(source)
           bs == Split(blocks, page)
           i == BlockAt(bs, page)
           x == bs[i]
           t == RemoveAt(bs, i)
<1>1. /\ n \in Nat /\ Listed(n, blocks, cache) /\ blocks \in Seq(Blocks(n))
      /\ images \in 0..MaxImages /\ Total(blocks) \in Nat
  BY EditStart
<1>2. page \in Nat /\ Within(blocks, page)
  BY <1>1 DEF Positions, Within
<1>3. blocks' = t /\ cache' = Without(cache, x) /\ changed' = TRUE /\ pageCount' = -1
      /\ phase = "open" /\ DOMAIN locked = {} /\ locked' = locked /\ images' = images
      /\ UNCHANGED <<diskVars, mode, closeVars, answer, crashed>>
  BY DEF DeletePage, Open, MayStore, Restructure, Without
<1> HIDE DEF n, bs, i
<1>4. /\ Alike(n, blocks, bs) /\ bs \in Seq(Blocks(n))
      /\ i \in 1..Len(bs) /\ x \in Blocks(n) /\ PagesIn(x) = 1
  BY <1>1, <1>2, PageFound DEF bs, i
<1>5. Listed(n, bs, cache)
  BY <1>1, <1>4, AlikeListed
<1>6. PutIn(n, t, x, bs)
  BY <1>1, <1>4, RemovePutIn
<1> HIDE DEF x, t
<1>7. Listed(n, t, Without(cache, x))
  BY <1>1, <1>4, <1>5, <1>6, TakenListed
<1>8. Listed(n, blocks', cache')
  BY <1>3, <1>7
<1>9. QED
  BY <1>1, <1>3, <1>8, Edited DEF n

(* MovePage.                                                                *)
LEMMA MovePageInv ==
  ASSUME Inv, NEW target \in Positions, NEW page \in Positions, MovePage(target, page)
  PROVE  Inv'
<1> DEFINE n == Len(source)
           s == Split(blocks, target)
           bs == Split(s, page)
           i == BlockAt(bs, target)
           j == BlockAt(bs, page)
           k == IF i < j THEN j - 1 ELSE j
           t == InsertAt(RemoveAt(bs, i), k, bs[i])
<1>1. /\ n \in Nat /\ Listed(n, blocks, cache) /\ blocks \in Seq(Blocks(n))
      /\ images \in 0..MaxImages /\ Total(blocks) \in Nat /\ CountPages = Total(blocks)
  BY EditStart
<1>2. /\ target \in Nat /\ target < Total(blocks) /\ Within(blocks, target)
      /\ page \in Nat /\ page < Total(blocks)
  BY <1>1 DEF Positions, Within
<1>3. blocks' = t /\ cache' = cache /\ changed' = TRUE /\ pageCount' = Total(blocks)
      /\ phase = "open" /\ DOMAIN locked = {} /\ locked' = locked /\ images' = images
      /\ UNCHANGED <<diskVars, mode, closeVars, answer, crashed>>
  BY <1>1 DEF MovePage, Open, MayStore, Moved, MoveBefore
<1> HIDE DEF n, t
<1>4. Alike(n, blocks, s) /\ s \in Seq(Blocks(n))
  BY <1>1, <1>2, PageFound
<1>5. Total(s) = Total(blocks)
  BY <1>4 DEF Alike
<1> HIDE DEF s
<1>6. Within(s, page)
  BY <1>2, <1>5 DEF Within
<1>7. Alike(n, s, bs) /\ bs \in Seq(Blocks(n)) /\ j \in 1..Len(bs)
  <2> HIDE DEF j, bs
  <2>1. QED
    BY <1>1, <1>2, <1>4, <1>6, PageFound DEF j, bs
<1>8. Alike(n, blocks, bs)
  <2> HIDE DEF bs
  <2>1. QED
    BY <1>4, <1>7, AlikeTwice
<1>9. Total(bs) = Total(blocks)
  BY <1>8 DEF Alike
<1> HIDE DEF bs
<1>10. Within(bs, target)
  BY <1>2, <1>9 DEF Within
<1>11. i \in 1..Len(bs)
  BY <1>1, <1>2, <1>7, <1>10, BlockFoundAt
<1>12. Len(bs) \in Nat
  BY <1>7, LenProperties
<1> HIDE DEF i, j
<1>13. k \in 1..Len(bs)
  BY <1>7, <1>11, <1>12
<1> HIDE DEF k
<1>14. Alike(n, bs, t)
  BY <1>1, <1>7, <1>11, <1>13, MovedAlike DEF t
<1>15. Alike(n, blocks, t)
  BY <1>8, <1>14, AlikeTwice
<1>16. Listed(n, t, cache) /\ Total(t) = Total(blocks)
  BY <1>1, <1>15, AlikeListed
<1>17. Listed(n, blocks', cache') /\ pageCount' = Total(blocks')
  BY <1>3, <1>16
<1>18. QED
  BY <1>1, <1>3, <1>17, Edited DEF n

(* UnlockPage of a changed page.                                            *)
LEMMA UnlockChangedPageInv ==
  ASSUME Inv, NEW page \in DOMAIN locked, UnlockChangedPage(page)
  PROVE  Inv'
<1> DEFINE n == Len(source)
           bs == Split(blocks, page)
           i == BlockAt(bs, page)
           x == bs[i]
           s == RemoveAt(bs, i)
           rest == Without(cache, x)
           e == Reference(NewRef(rest), 1)
           o == Reference(0, 0)
           t == ReplaceAt(bs, i, e)
           u == ReplaceAt(bs, i, o)
<1>1. /\ n \in Nat /\ Listed(n, blocks, cache) /\ blocks \in Seq(Blocks(n))
      /\ images \in 0..MaxImages /\ Total(blocks) \in Nat
  BY EditStart
<1>2. page \in Nat /\ Within(blocks, page)
  BY DEF Inv, VariablesOK, UnlockChangedPage
<1>3. images' \in 0..MaxImages /\ New(images') \in Image
  BY <1>1, ImageMade DEF UnlockChangedPage
<1>4. /\ changed' = TRUE /\ pageCount' = pageCount /\ phase = "open"
      /\ UNCHANGED <<diskVars, mode, closeVars, answer, crashed>>
      /\ Forget(page)
  BY DEF UnlockChangedPage, Open
<1>5. \/ cache' = WriteFile(rest, New(images')) /\ blocks' = t
      \/ "encode" \in Failures /\ cache' = rest /\ blocks' = u
  BY DEF UnlockChangedPage, Without
<1>6. DOMAIN locked' \subseteq DOMAIN locked /\ \A p \in DOMAIN locked' : locked'[p] = locked[p]
  BY <1>4 DEF Forget
<1> HIDE DEF n, bs, i
<1>7. /\ Alike(n, blocks, bs) /\ bs \in Seq(Blocks(n))
      /\ i \in 1..Len(bs) /\ x \in Blocks(n) /\ PagesIn(x) = 1
  BY <1>1, <1>2, PageFound DEF bs, i
<1>8. Listed(n, bs, cache) /\ Total(bs) = Total(blocks)
  BY <1>1, <1>7, AlikeListed
<1>9. Total(bs) \in Nat
  BY <1>1, <1>8
<1>10. PutIn(n, s, x, bs)
  BY <1>1, <1>7, RemovePutIn
<1> HIDE DEF x
<1>11. Listed(n, s, rest) /\ Total(s) = Total(bs) - 1
  <2> HIDE DEF s, rest
  <2>1. QED
    BY <1>1, <1>7, <1>8, <1>10, TakenListed DEF rest
<1> HIDE DEF rest
<1>12. ASSUME cache' = WriteFile(rest, New(images')), blocks' = t
       PROVE  Listed(n, blocks', cache') /\ Total(blocks') = Total(blocks)
  <2>1. rest \in Caches /\ Numbers(rest)
    BY <1>11 DEF Listed
  <2>2. e \in Blocks(n)
    BY <1>1, <2>1, NewBlock
  <2>3. PutIn(n, s, e, t)
    <3> HIDE DEF e
    <3>1. QED
      BY <1>1, <1>7, <2>2, RemovePutIn
  <2> HIDE DEF s, t
  <2>4. Listed(n, t, WriteFile(rest, New(images'))) /\ Total(t) = Total(s) + 1
    BY <1>1, <1>3, <1>11, <2>3, PutInListed
  <2>5. Listed(n, blocks', cache') /\ Total(blocks') = Total(blocks)
    BY <1>8, <1>9, <1>11, <1>12, <2>4
  <2>6. QED
    BY <2>5
<1>13. ASSUME "encode" \in Failures, cache' = rest, blocks' = u
       PROVE  Listed(n, blocks', cache') /\ Total(blocks') = Total(blocks)
  <2>1. o \in Blocks(n)
    BY ReferencesAreBlocks, <1>1
  <2>2. PutIn(n, s, o, u)
    <3> HIDE DEF o
    <3>1. QED
      BY <1>1, <1>7, <2>1, RemovePutIn
  <2> HIDE DEF s, u
  <2>3. Listed(n, u, rest) /\ Total(u) = Total(s) + 1
    BY <1>1, <1>11, <1>13, <2>2, PutEmptyListed
  <2>4. Listed(n, blocks', cache') /\ Total(blocks') = Total(blocks)
    BY <1>8, <1>9, <1>11, <1>13, <2>3
  <2>5. QED
    BY <2>4
<1>14. Listed(n, blocks', cache') /\ Total(blocks') = Total(blocks)
  BY <1>5, <1>12, <1>13
<1>15. pageCount' \in {-1, Total(blocks')}
  BY <1>4, <1>14 DEF Inv, ListInv
<1>16. QED
  BY <1>3, <1>4, <1>6, <1>14, <1>15, Edited DEF n

-----------------------------------------------------------------------------
(* Steps that leave the list alone: the type of what they change, and the   *)
(* parts of the invariant that look at it.                                  *)
LEMMA Steady ==
  ASSUME Inv, UNCHANGED <<source, mode, bitmapVars, images>>,
         file' \in Files \cup {Absent}, spool' \in Files \cup {Absent},
         DOMAIN locked' \subseteq Nat, \A p \in DOMAIN locked' : locked'[p] \in Image,
         phase' \in {"open", "saving", "spooled", "removed", "closed", "assert", "fault"},
         save' \in Saves,
         answer'.page \in Nat \cup {-1}, answer'.images \in Files,
         result' \in {"none", "success", "failure"}, crashed' \in BOOLEAN
  PROVE  VariablesOK' /\ ListInv' /\ (save \in Saves)'
<1>1. ListInv' /\ UNCHANGED <<blocks, cache, changed, pageCount>>
  BY ListKept
<1>2. /\ save'.target \in {"none", "spool", "elsewhere"}
      /\ save'.block \in Nat \ {0} /\ save'.page \in Nat /\ save'.success \in BOOLEAN
      /\ save'.out \in Files
  BY DEF Saves
<1>3. VariablesOK'
  BY <1>1, <1>2 DEF Inv, VariablesOK
<1>4. QED
  BY <1>1, <1>3

(* What the invariant says of types.                                        *)
LEMMA StartTypes ==
  ASSUME Inv
  PROVE  /\ source \in Seq(Image)
         /\ file \in Files \cup {Absent} /\ spool \in Files \cup {Absent}
         /\ DOMAIN locked \subseteq Nat /\ \A p \in DOMAIN locked : locked[p] \in Image
         /\ save \in Saves
         /\ answer.page \in Nat \cup {-1} /\ answer.images \in Files
         /\ result \in {"none", "success", "failure"} /\ crashed \in BOOLEAN
         /\ phase \in {"open", "saving", "spooled", "removed", "closed", "assert", "fault"}
         /\ images \in 0..MaxImages /\ pageCount \in Nat \cup {-1}
  BY DEF Inv, VariablesOK, Pages

(* FreeImage_GetPageCount refreshes the cached count.                       *)
LEMMA GetPageCountInv ==
  ASSUME Inv, GetPageCount
  PROVE  Inv'
<1>1. /\ phase = "open" /\ pageCount' = Total(blocks)
      /\ UNCHANGED <<diskVars, mode, blocks, cache, changed, locked, closeVars, images,
                     answer, crashed>>
  BY CountIsTotal DEF GetPageCount, Open, Inv
<1>2. Listed(Len(source), blocks', cache') /\ pageCount' = Total(blocks')
  BY <1>1 DEF Inv, ListInv
<1>3. changed' \in BOOLEAN /\ images' \in 0..MaxImages
  BY <1>1 DEF Inv, VariablesOK
<1>4. QED
  BY <1>1, <1>2, <1>3, Edited

(* FreeImage_UnlockPage without changes only forgets the lock.              *)
LEMMA UnlockPageInv ==
  ASSUME Inv, NEW page \in DOMAIN locked, UnlockPage(page)
  PROVE  Inv'
<1>1. /\ phase = "open" /\ Forget(page)
      /\ UNCHANGED <<diskVars, mode, blocks, cache, changed, pageCount, closeVars, images,
                     answer, crashed>>
  BY DEF UnlockPage, Open, bitmapVars
<1>2. DOMAIN locked' \subseteq DOMAIN locked /\ \A p \in DOMAIN locked' : locked'[p] = locked[p]
  BY <1>1 DEF Forget
<1>3. Listed(Len(source), blocks', cache') /\ pageCount' \in {-1, Total(blocks')}
  BY <1>1 DEF Inv, ListInv
<1>4. changed' \in BOOLEAN /\ images' \in 0..MaxImages /\ Total(blocks') = Total(blocks)
  BY <1>1 DEF Inv, VariablesOK
<1>5. QED
  BY <1>1, <1>2, <1>3, <1>4, Edited

(* FreeImage_LockPage hands out a page that was not locked.                 *)
LEMMA LockPageInv ==
  ASSUME Inv, NEW page, LockPage(page)
  PROVE  Inv'
<1>1. /\ phase = "open" /\ phase' = phase
      /\ page \in 0..(Len(source) - 1) \ DOMAIN locked
      /\ locked' = [p \in DOMAIN locked \cup {page} |->
                      IF p = page THEN source[page + 1] ELSE locked[p]]
      /\ answer' = [page |-> page, images |-> <<source[page + 1]>>]
      /\ UNCHANGED <<source, file, spool, mode, bitmapVars, save, result, images, crashed>>
  BY DEF LockPage, Open, diskVars, closeVars
<1>2. Len(source) \in Nat
  BY SourceLength DEF Inv
<1>3. page \in Nat /\ page + 1 \in 1..Len(source)
  BY <1>1, <1>2
<1>4. source[page + 1] \in Image /\ \A p \in 0..(Len(source) - 1) : source[p + 1] \in Image
  <2>1. \A p \in 0..(Len(source) - 1) : p + 1 \in 1..Len(source)
    BY <1>2
  <2>2. \A k \in 1..Len(source) : source[k] \in Image
    BY StartTypes, ElementOfSeq
  <2>3. QED
    BY <1>3, <2>1, <2>2
<1>5. DOMAIN locked \subseteq 0..(Len(source) - 1)
  BY DEF Inv, LockInv
<1>6. /\ DOMAIN locked' = DOMAIN locked \cup {page}
      /\ \A p \in DOMAIN locked' : locked'[p] \in Image
  <2>1. source[page + 1] \in Image /\ \A p \in DOMAIN locked : locked[p] \in Image
    BY <1>1, <1>4 DEF Inv, VariablesOK
  <2>2. QED
    BY <1>1, <2>1
<1>7. answer'.page \in Nat \cup {-1} /\ answer'.images \in Files
  <2>1. answer'.page = page /\ answer'.images = <<source[page + 1]>>
    BY <1>1
  <2>2. <<source[page + 1]>> \in Seq(Image \cup {Missing})
    BY <1>4
  <2>3. QED
    BY <1>3, <2>1, <2>2 DEF Files
<1>8. result' \in {"none", "success", "failure"} /\ result' = result
  BY StartTypes, <1>1 DEF LockPage, closeVars
<1>9. VariablesOK' /\ ListInv' /\ (save \in Saves)'
  <2>1. DOMAIN locked' \subseteq Nat
    BY <1>3, <1>6, StartTypes
  <2>2. QED
    BY <1>1, <1>6, <1>7, <1>8, <2>1, StartTypes, Steady
<1>10. UNCHANGED <<blocks, cache>>
  BY <1>1 DEF bitmapVars
<1>11. LockInv'
  <2>1. DOMAIN locked' \subseteq 0..(Len(source') - 1)
    BY <1>1, <1>5, <1>6
  <2>2. "beyond" \notin Habits => Within(blocks, page)
    BY DEF LockPage, MayLock, AtHome
  <2>3. QED
    BY <1>6, <1>10, <2>1, <2>2 DEF Inv, LockInv
<1>12. SaveInv' /\ SpoolInv' /\ FaultInv'
  BY <1>1 DEF Inv, SaveInv, SpoolInv, FaultInv
<1>13. QED
  BY <1>9, <1>11, <1>12 DEF Inv

(* Steps that end or begin something: no page is locked that was not.       *)
LEMMA Stepped ==
  ASSUME Inv, UNCHANGED <<source, mode, bitmapVars, images>>,
         file' \in Files \cup {Absent}, spool' \in Files \cup {Absent},
         locked' = locked \/ locked' = << >>,
         phase' \in {"open", "saving", "spooled", "removed", "closed", "assert", "fault"},
         save' \in Saves,
         answer'.page \in Nat \cup {-1}, answer'.images \in Files,
         result' \in {"none", "success", "failure"}, crashed' \in BOOLEAN,
         SaveInv', SpoolInv', FaultInv'
  PROVE  Inv'
<1>1. DOMAIN locked' \subseteq DOMAIN locked /\ \A p \in DOMAIN locked' : locked'[p] = locked[p]
  <2>1. DOMAIN << >> = {}
    OBVIOUS
  <2>2. QED
    BY <2>1
<1>2. DOMAIN locked' \subseteq Nat /\ \A p \in DOMAIN locked' : locked'[p] \in Image
  BY <1>1, StartTypes
<1>3. VariablesOK' /\ ListInv' /\ (save \in Saves)'
  BY <1>2, Steady
<1>4. UNCHANGED <<source, blocks>>
  BY DEF bitmapVars
<1>5. LockInv'
  BY <1>1, <1>4 DEF Inv, LockInv
<1>6. QED
  BY <1>3, <1>5 DEF Inv

(* FreeImage_FindBlock: the assertion ends the program.                     *)
LEMMA FindBlockFailsInv ==
  ASSUME Inv, FindBlockFails
  PROVE  Inv'
<1>1. /\ phase = "open" /\ phase' = "assert"
      /\ UNCHANGED <<source, file, spool, mode, bitmapVars, locked, save, result, images,
                     answer, crashed>>
  BY DEF FindBlockFails, Open, diskVars
<1>2. SaveInv' /\ SpoolInv' /\ FaultInv'
  BY <1>1 DEF Inv, SaveInv, SpoolInv, FaultInv
<1>3. QED
  BY <1>1, <1>2, StartTypes, Stepped

(* FreeImage_FindBlock: in a release build NULL is read.                    *)
LEMMA NullPointerInv ==
  ASSUME Inv, NullPointer
  PROVE  Inv'
<1>1. /\ phase' = "fault"
      /\ UNCHANGED <<source, file, spool, mode, bitmapVars, locked, save, result, images,
                     answer, crashed>>
  BY DEF NullPointer, diskVars
<1>2. SaveInv' /\ SpoolInv'
  BY <1>1 DEF SaveInv, SpoolInv
<1>3. FaultInv'
  <2>1. CASE "moved" \in Habits
    BY <2>1 DEF FaultInv
  <2>2. CASE "encode" \in Failures
    BY <2>2 DEF FaultInv
  <2>3. CASE "moved" \notin Habits /\ "encode" \notin Failures
    <3>1. MorePages /\ Dangling(blocks[save.block])
      BY <2>3 DEF NullPointer
    <3>2. Len(source) \in Nat /\ Listed(Len(source), blocks, cache)
      BY SourceLength DEF Inv, ListInv
    <3>3. Len(blocks) \in Nat
      BY <3>2, ListedTypes
    <3>4. save.block \in 1..Len(blocks)
      BY <3>1, <3>3 DEF MorePages, Inv, VariablesOK
    <3>5. DOMAIN cache.images = Refs(blocks)
      BY <3>2, <2>3 DEF Listed, Owned
    <3>6. blocks[save.block].val1 \in Refs(blocks)
      BY <3>1, <3>4 DEF Dangling, Refs, RefsAt
    <3>7. QED
      BY <3>1, <3>5, <3>6 DEF Dangling
  <2>4. QED
    BY <2>1, <2>2, <2>3
<1>4. QED
  BY <1>1, <1>2, <1>3, StartTypes, Stepped

(* FreeImage_SaveMultiBitmapToHandle begins.                                *)
LEMMA SaveElsewhereInv ==
  ASSUME Inv, SaveElsewhere
  PROVE  Inv'
<1>1. /\ phase = "open" /\ phase' = "saving"
      /\ save' = [NoSave EXCEPT !.target = "elsewhere"]
      /\ UNCHANGED <<source, file, spool, mode, bitmapVars, locked, result, images,
                     answer, crashed>>
  BY DEF SaveElsewhere, Open, diskVars
<1>2. save' = [target |-> "elsewhere", block |-> 1, page |-> 0, success |-> TRUE, out |-> << >>]
  BY <1>1 DEF NoSave
<1>3. save' \in Saves
  BY <1>2 DEF Saves, Files
<1>4. SaveInv' /\ SpoolInv' /\ FaultInv'
  BY <1>1, <1>2 DEF Inv, SaveInv, SpoolInv, FaultInv
<1>5. QED
  BY <1>1, <1>3, <1>4, StartTypes, Stepped

(* The program ends; the files stay as they are.                            *)
LEMMA CrashInv ==
  ASSUME Inv, Crash
  PROVE  Inv'
<1>1. /\ crashed' = TRUE
      /\ UNCHANGED <<source, file, spool, mode, bitmapVars, locked, phase, save, result,
                     images, answer>>
  BY DEF Crash, diskVars, closeVars
<1>2. UNCHANGED <<blocks, file>>
  BY <1>1 DEF bitmapVars
<1>3. SaveInv' /\ SpoolInv' /\ FaultInv'
  BY <1>1, <1>2 DEF Inv, SaveInv, SpoolInv, FaultInv
<1>4. QED
  BY <1>1, <1>3, StartTypes, Stepped

(* Closing and saving.                                                      *)
LEMMA CloseMultiBitmapInv ==
  ASSUME Inv, CloseMultiBitmap
  PROVE  Inv'
<1>1. /\ phase = "open" /\ spool = Absent
      /\ UNCHANGED <<source, file, mode, bitmapVars, images, answer, crashed>>
  BY DEF CloseMultiBitmap, Open, Inv, SpoolInv
<1>2. CASE /\ phase' = "closed" /\ result' \in {"success", "failure"} /\ locked' = << >>
           /\ UNCHANGED <<spool, save>>
  <2>1. SaveInv' /\ SpoolInv' /\ FaultInv'
    BY <1>1, <1>2 DEF SaveInv, SpoolInv, FaultInv
  <2>2. QED
    BY <1>1, <1>2, <2>1, StartTypes, Stepped
<1>3. CASE /\ spool' = << >> /\ phase' = "saving" /\ save' = [NoSave EXCEPT !.target = "spool"]
           /\ UNCHANGED <<locked, result>>
  <2>1. save' = [target |-> "spool", block |-> 1, page |-> 0, success |-> TRUE, out |-> << >>]
    BY <1>3 DEF NoSave
  <2>2. save' \in Saves /\ spool' \in Files \cup {Absent}
    <3>1. << >> \in Files
      BY DEF Files
    <3>2. save' \in Saves
      BY <2>1, <3>1 DEF Saves
    <3>3. QED
      BY <1>3, <3>1, <3>2
  <2>3. SaveInv' /\ SpoolInv' /\ FaultInv'
    BY <1>1, <1>3, <2>1 DEF SaveInv, SpoolInv, FaultInv
  <2>4. QED
    BY <1>1, <1>3, <2>2, <2>3, StartTypes, Stepped
<1>4. QED
  BY <1>2, <1>3 DEF CloseMultiBitmap, Closed

(* The image that is read for a page is one there is, or missing.           *)
LEMMA PageRead ==
  ASSUME Inv, NEW b \in Blocks(Len(source)), NEW k \in Nat, k < PagesIn(b)
  PROVE  BlockPages(b)[k + 1] \in Image \cup {Missing}
<1>1. Len(source) \in Nat /\ \A i \in 1..Len(source) : source[i] \in Image
  BY StartTypes, ElementOfSeq, LenProperties
<1>2. CASE b.type = "continueus"
  <2>1. /\ b.val1 \in Nat /\ b.val2 \in Int /\ b.val2 < Len(source)
        /\ PagesIn(b) = b.val2 - b.val1 + 1
    BY <1>2 DEF Blocks, Block, PagesIn
  <2>2. k + 1 \in 1..PagesIn(b) /\ b.val1 + (k + 1) \in 1..Len(source)
    BY <1>1, <2>1
  <2>3. BlockPages(b)[k + 1] = source[b.val1 + (k + 1)]
    BY <1>2, <2>2 DEF BlockPages
  <2>4. QED
    BY <1>1, <2>2, <2>3
<1>3. CASE b.type = "reference"
  <2>1. k = 0 /\ BlockPages(b) = <<ReadFile(cache, b)>>
    BY <1>3 DEF PagesIn, BlockPages
  <2>2. \A r \in DOMAIN cache.images : cache.images[r] \in Image
    BY DEF Inv, VariablesOK
  <2>3. ReadFile(cache, b) \in Image \cup {Missing}
    BY <2>2 DEF ReadFile
  <2>4. QED
    BY <2>1, <2>3
<1>4. QED
  BY <1>2, <1>3 DEF Blocks, Block

(* One page is written to the target.                                       *)
LEMMA SavePageInv ==
  ASSUME Inv, SavePage
  PROVE  Inv'
<1> DEFINE b == blocks[save.block]
           image == BlockPages(b)[save.page + 1]
           last == save.page + 1 >= PagesIn(b)
           out(ok) == IF PagesIn(b) = 0 THEN save.out
                                        ELSE Append(save.out, IF ok THEN image ELSE Missing)
           block == IF last THEN save.block + 1 ELSE save.block
           page == IF last THEN 0 ELSE save.page + 1
<1>1. /\ phase = "saving"
      /\ MorePages
      /\ spool' = IF save.target = "spool" THEN save'.out ELSE spool
      /\ UNCHANGED <<source, file, mode, bitmapVars, locked, phase, result, images, answer,
                     crashed>>
  BY DEF SavePage, Saving
<1>2. /\ save.target \in {"none", "spool", "elsewhere"}
      /\ save.block \in Nat \ {0} /\ save.page \in Nat /\ save.success \in BOOLEAN
      /\ save.out \in Files /\ save \in Saves
      /\ save = [target |-> save.target, block |-> save.block, page |-> save.page,
                 success |-> save.success, out |-> save.out]
  BY DEF Inv, Saves
<1>3. Len(source) \in Nat /\ Listed(Len(source), blocks, cache)
  BY SourceLength DEF Inv, ListInv
<1>4. Len(blocks) \in Nat
  BY <1>3, ListedTypes
<1>5. save.block \in 1..Len(blocks)
  BY <1>1, <1>2, <1>4 DEF MorePages
<1>6. b \in Blocks(Len(source)) /\ PagesIn(b) \in Nat
  BY <1>3, <1>5, ListedTypes
<1>7. PICK ok \in BOOLEAN :
        save' = [save EXCEPT !.success = ok, !.out = out(ok), !.block = block, !.page = page]
  BY DEF SavePage
<1> HIDE DEF image
<1>8. out(ok) \in Files
  <2>1. CASE PagesIn(b) # 0
    <3>1. save.page < PagesIn(b)
      BY <1>1, <1>2, <1>6, <2>1 DEF Inv, SaveInv
    <3>2. image \in Image \cup {Missing}
      <4> HIDE DEF b
      <4>1. QED
        BY <1>2, <1>6, <3>1, PageRead DEF image
    <3>3. QED
      BY <1>2, <2>1, <3>2 DEF Files
  <2>2. CASE PagesIn(b) = 0
    BY <1>2, <2>2
  <2>3. QED
    BY <2>1, <2>2
<1>9. /\ block \in Nat \ {0} /\ page \in Nat
      /\ page = 0 \/ (block = save.block /\ page < PagesIn(b))
  BY <1>2, <1>6
<1> DEFINE o == out(ok)
<1>10. o \in Files
  BY <1>8
<1>11. save' = [save EXCEPT !.success = ok, !.out = o, !.block = block, !.page = page]
  BY <1>7
<1> HIDE DEF o, block, page
<1>12. save' = [target |-> save.target, block |-> block, page |-> page, success |-> ok, out |-> o]
  BY <1>2, <1>11
<1>13. save' \in Saves
  BY <1>2, <1>9, <1>10, <1>12 DEF Saves
<1>14. UNCHANGED <<blocks, file>>
  BY <1>1 DEF bitmapVars
<1>15. SaveInv'
  <2>1. save'.target = save.target /\ save'.block = block /\ save'.page = page
    BY <1>12
  <2>2. save.target # "none"
    BY <1>1 DEF Inv, SaveInv
  <2>3. page = 0 \/ (block <= Len(blocks) /\ page < PagesIn(blocks[block]))
    BY <1>5, <1>9
  <2>4. QED
    BY <1>14, <2>1, <2>2, <2>3 DEF SaveInv
<1>16. spool' \in Files \cup {Absent}
  <2>1. save'.out = o
    BY <1>12
  <2>2. QED
    BY <1>1, <1>10, <2>1, StartTypes
<1>17. SpoolInv' /\ FaultInv'
  <2>1. save'.target = save.target
    BY <1>12
  <2>2. QED
    BY <1>1, <2>1 DEF Inv, SpoolInv, FaultInv
<1>18. QED
  BY <1>1, <1>13, <1>15, <1>16, <1>17, StartTypes, Stepped

(* The save ends: the spool is complete, or removed after a failure.        *)
LEMMA EndSaveInv ==
  ASSUME Inv, EndSave
  PROVE  Inv'
<1>1. /\ phase = "saving"
      /\ save' = NoSave \/ save' = [NoSave EXCEPT !.target = "spool"]
      /\ UNCHANGED <<source, file, mode, bitmapVars, images, crashed>>
  BY DEF EndSave, Saving
<1>2. save' \in Saves
  <2>1. PICK target \in {"none", "spool"} :
          save' = [target |-> target, block |-> 1, page |-> 0, success |-> TRUE, out |-> << >>]
    BY <1>1 DEF NoSave
  <2>2. << >> \in Files
    BY DEF Files
  <2>3. QED
    BY <2>1, <2>2 DEF Saves
<1>3. CASE /\ save.target = "elsewhere" /\ phase' = "open"
           /\ answer' = IF save.success THEN [page |-> -1, images |-> save.out] ELSE answer
           /\ UNCHANGED <<spool, locked, result>>
  <2>1. SaveInv' /\ SpoolInv' /\ FaultInv'
    BY <1>1, <1>3 DEF Inv, SaveInv, SpoolInv, FaultInv
  <2>2. answer'.page \in Nat \cup {-1} /\ answer'.images \in Files
    BY <1>3, StartTypes DEF Saves
  <2>3. QED
    BY <1>1, <1>2, <1>3, <2>1, <2>2, StartTypes, Stepped
<1>4. CASE /\ phase' = "spooled"
           /\ UNCHANGED <<spool, locked, result, answer>>
  <2>1. SaveInv' /\ SpoolInv' /\ FaultInv'
    BY <1>4 DEF SaveInv, SpoolInv, FaultInv
  <2>2. QED
    BY <1>1, <1>2, <1>4, <2>1, StartTypes, Stepped
<1>5. CASE /\ phase' = "closed" /\ result' \in {"success", "failure"} /\ locked' = << >>
           /\ spool' = Absent \/ spool' = spool
           /\ UNCHANGED answer
  <2>1. SaveInv' /\ SpoolInv' /\ FaultInv'
    BY <1>5 DEF SaveInv, SpoolInv, FaultInv
  <2>2. QED
    BY <1>1, <1>2, <1>5, <2>1, StartTypes, Stepped
<1>6. QED
  BY <1>3, <1>4, <1>5 DEF EndSave, Closed, TryRemove

(* FreeImage_CloseMultiBitmap removes the old file.                         *)
LEMMA RemoveFileInv ==
  ASSUME Inv, RemoveFile
  PROVE  Inv'
<1>1. /\ phase' = "removed" /\ (file' = Absent \/ file' = file)
      /\ UNCHANGED <<source, spool, mode, bitmapVars, locked, save, result, images, answer,
                     crashed>>
  BY DEF RemoveFile, TryRemove
<1>2. SaveInv' /\ SpoolInv' /\ FaultInv'
  BY <1>1 DEF SaveInv, SpoolInv, FaultInv
<1>3. QED
  BY <1>1, <1>2, StartTypes, Stepped

(* FreeImage_CloseMultiBitmap renames the spool, or fails to.               *)
LEMMA RenameSpoolInv ==
  ASSUME Inv, RenameSpool
  PROVE  Inv'
<1>1. /\ phase = "removed"
      /\ phase' = "closed" /\ result' \in {"success", "failure"} /\ locked' = << >>
      /\ \/ file' = spool /\ spool' = Absent
         \/ UNCHANGED <<file, spool>>
      /\ UNCHANGED <<source, mode, bitmapVars, save, images, answer, crashed>>
  BY DEF RenameSpool, Closed
<1>2. SaveInv' /\ SpoolInv' /\ FaultInv'
  BY <1>1 DEF SaveInv, SpoolInv, FaultInv
<1>3. file' \in Files \cup {Absent} /\ spool' \in Files \cup {Absent}
  BY <1>1, StartTypes
<1>4. QED
  BY <1>1, <1>2, <1>3, StartTypes, Stepped

-----------------------------------------------------------------------------
(* Opening.                                                                 *)
LEMMA InitInv == Init => Inv
<1> SUFFICES ASSUME Init PROVE Inv
  OBVIOUS
<1>1. PICK n \in SourceSizes : source = IF HasHandle THEN [k \in 1..n |-> Source(k)] ELSE << >>
  BY DEF Init
<1>2. n \in Nat /\ \A k \in 1..n : Source(k) \in Image
  BY <1>1, BoundAssumption DEF Image
<1>3. source \in Seq(Image) /\ Len(source) \in Nat
  BY <1>1, <1>2
<1> DEFINE m == Len(source)
           x == Span(0, m - 1)
<1>4. x \in Blocks(m) /\ PagesIn(x) = m /\ IsSpan(x)
  BY <1>3 DEF Span, Blocks, Block, PagesIn, IsSpan
<1>5. EmptyCache \in Caches /\ Numbers(EmptyCache) /\ DOMAIN EmptyCache.images = {}
  <2> DEFINE f == << >>
  <2>1. EmptyCache = [images |-> f, free |-> f, count |-> 0] /\ f \in Seq(Nat)
        /\ DOMAIN f = {} /\ f \in [{} -> Image] /\ Len(f) = 0 /\ 1..0 = {}
    BY DEF EmptyCache
  <2> HIDE DEF f
  <2>2. EmptyCache \in Caches
    BY <2>1, CachesMade
  <2>3. EmptyCache.images = f /\ EmptyCache.free = f
    BY <2>1
  <2>4. QED
    BY <2>1, <2>2, <2>3 DEF Numbers
<1>6. \A y \in Blocks(m) : PagesIn(y) \in Nat
  BY <1>3, BlocksCount
<1>7. /\ blocks \in Seq(Blocks(m)) /\ Total(blocks) = m
      /\ Pairwise(blocks, DisjointSpans) /\ Pairwise(blocks, DistinctRefs)
      /\ Refs(blocks) = {}
  <2>1. CASE HasHandle
    <3> DEFINE z == <<x>>
    <3>1. blocks = z
      BY <2>1 DEF Init
    <3>2. z \in Seq(Blocks(m)) /\ Len(z) = 1 /\ 1..1 = {1}
      BY <1>4
    <3> HIDE DEF m, x
    <3>3. Total(z) = m
      BY <1>4, <1>6, TotalSmall
    <3>4. Refs(z) = {}
      BY <1>4, RefsOne DEF IsSpan
    <3> HIDE DEF z
    <3>5. QED
      BY <3>1, <3>2, <3>3, <3>4 DEF Pairwise
  <2>2. CASE ~HasHandle
    <3> DEFINE z == << >>
    <3>1. blocks = z /\ m = 0
      BY <2>2 DEF Init
    <3>2. z \in Seq(Blocks(m)) /\ Len(z) = 0 /\ 1..0 = {}
      OBVIOUS
    <3> HIDE DEF m, x
    <3>3. Total(z) = 0
      BY <1>6, TotalSmall
    <3> HIDE DEF z
    <3>4. QED
      BY <3>1, <3>2, <3>3 DEF Pairwise, Refs, RefsAt
  <2>3. QED
    BY <2>1, <2>2
<1>8. cache = EmptyCache /\ pageCount = m
  BY DEF Init
<1> HIDE DEF x
<1>9. Listed(m, blocks, cache)
  BY <1>5, <1>7, <1>8 DEF Listed, Owned
<1>10. ListInv
  BY <1>7, <1>8, <1>9 DEF ListInv
<1>11. locked = << >> /\ DOMAIN << >> = {}
  BY DEF Init
<1>12. LockInv
  BY <1>11 DEF LockInv
<1>13. SaveInv /\ SpoolInv /\ FaultInv
  BY DEF Init, SaveInv, SpoolInv, FaultInv
<1>14. save = [target |-> "none", block |-> 1, page |-> 0, success |-> TRUE, out |-> << >>]
  BY DEF Init, NoSave
<1>15. << >> \in Files
  BY DEF Files
<1>16. save \in Saves
  BY <1>14, <1>15 DEF Saves
<1>17. VariablesOK
  <2>1. /\ blocks \in Seq([type : {"continueus", "reference"}, val1 : Nat, val2 : Int])
    BY <1>3, <1>9, ListedTypes
  <2>2. /\ DOMAIN cache.images \subseteq Nat /\ \A r \in DOMAIN cache.images : cache.images[r] \in Image
        /\ cache.free \in Seq(Nat) /\ cache.count \in Nat
    BY <1>5, <1>8, CachesForm
  <2>3. /\ source \in Pages /\ file \in Files \cup {Absent}
    BY <1>3, SeqMonotonic DEF Init, Pages, Files
  <2>4. /\ DOMAIN locked \subseteq Nat /\ \A p \in DOMAIN locked : locked[p] \in Image
    BY <1>11
  <2>5. pageCount \in Nat \cup {-1}
    BY <1>3, <1>8
  <2>6. images \in 0..MaxImages
    BY BoundAssumption DEF Init
  <2>7. answer.page \in Nat \cup {-1} /\ answer.images \in Files
    BY <1>15 DEF Init
  <2>8. /\ spool \in Files \cup {Absent} /\ mode \in Modes
        /\ phase \in {"open", "saving", "spooled", "removed", "closed", "assert", "fault"}
        /\ result \in {"none", "success", "failure"}
    BY DEF Init
  <2>9. changed \in BOOLEAN /\ crashed \in BOOLEAN
    BY DEF Init
  <2>11. /\ save.target \in {"none", "spool", "elsewhere"} /\ save.block \in Nat \ {0}
         /\ save.page \in Nat /\ save.success \in BOOLEAN /\ save.out \in Files
    BY <1>16 DEF Saves
  <2>12. QED
    BY <2>1, <2>2, <2>3, <2>4, <2>5, <2>6, <2>7, <2>8, <2>9, <2>11, Zenon DEF VariablesOK
<1>18. QED
  BY <1>10, <1>12, <1>13, <1>16, <1>17 DEF Inv

(* Every operation, failure and crash keeps the invariant.                  *)
LEMMA NextInv == Inv /\ [Next]_vars => Inv'
<1> SUFFICES ASSUME Inv, [Next]_vars PROVE Inv'
  OBVIOUS
<1>1. CASE UNCHANGED vars
  <2>1. UNCHANGED <<source, file, spool, mode, bitmapVars, locked, phase, save, result, images,
                    answer, crashed>>
    BY <1>1 DEF vars, diskVars, closeVars
  <2>2. UNCHANGED blocks
    BY <2>1 DEF bitmapVars
  <2>3. SaveInv' /\ SpoolInv' /\ FaultInv'
    BY <2>1, <2>2 DEF Inv, SaveInv, SpoolInv, FaultInv
  <2>4. QED
    BY <2>1, <2>3, StartTypes, Stepped
<1>2. CASE AppendPage
  BY <1>2, AppendPageInv
<1>3. ASSUME NEW page \in Positions, InsertPage(page) PROVE Inv'
  BY <1>3, InsertPageInv
<1>4. ASSUME NEW page \in Positions, DeletePage(page) PROVE Inv'
  BY <1>4, DeletePageInv
<1>5. ASSUME NEW page \in Positions, NEW target \in Positions, MovePage(target, page) PROVE Inv'
  BY <1>5, MovePageInv
<1>6. ASSUME NEW page \in DOMAIN source, LockPage(page - 1) PROVE Inv'
  BY <1>6, LockPageInv
<1>7. ASSUME NEW page \in DOMAIN locked, UnlockPage(page) PROVE Inv'
  BY <1>7, UnlockPageInv
<1>8. ASSUME NEW page \in DOMAIN locked, UnlockChangedPage(page) PROVE Inv'
  BY <1>8, UnlockChangedPageInv
<1>9. CASE GetPageCount
  BY <1>9, GetPageCountInv
<1>10. CASE FindBlockFails
  BY <1>10, FindBlockFailsInv
<1>11. CASE NullPointer
  BY <1>11, NullPointerInv
<1>12. CASE SaveElsewhere
  BY <1>12, SaveElsewhereInv
<1>13. CASE CloseMultiBitmap
  BY <1>13, CloseMultiBitmapInv
<1>14. CASE SaveStep
  BY <1>14, SavePageInv, EndSaveInv, RemoveFileInv, RenameSpoolInv DEF SaveStep
<1>15. CASE Crash
  BY <1>15, CrashInv
<1>16. QED
  BY <1>1, <1>2, <1>3, <1>4, <1>5, <1>6, <1>7, <1>8, <1>9, <1>10, <1>11, <1>12, <1>13, <1>14,
     <1>15 DEF Next

(* The inductive invariant holds in every reachable state.                  *)
LEMMA InvAlways == Spec => []Inv
<1>1. QED
  BY InitInv, NextInv, PTL DEF Spec

-----------------------------------------------------------------------------
(* The variables hold what the code lets them hold.                         *)
THEOREM TypeCorrect == Spec => []TypeOK
<1>1. Init => call.op \in Calls
  BY DEF Init, Calls
<1>2. call.op \in Calls /\ [Next]_vars => (call.op \in Calls)'
  <2> SUFFICES ASSUME call.op \in Calls, [Next]_vars PROVE call'.op \in Calls
    OBVIOUS
  <2>1. CASE call' = call
    BY <2>1
  <2>2. CASE \/ AppendPage \/ SaveElsewhere \/ CloseMultiBitmap
    <3>1. \E op \in Calls :
            call' = [op |-> op] \/ \E image : call' = [op |-> op, image |-> image]
      BY <2>2, Zenon DEF AppendPage, SaveElsewhere, CloseMultiBitmap, Calls
    <3>2. QED
      BY <3>1
  <2>3. ASSUME NEW page, NEW target,
               \/ InsertPage(page) \/ DeletePage(page) \/ MovePage(target, page)
               \/ LockPage(page) \/ UnlockChangedPage(page)
        PROVE  call'.op \in Calls
    BY <2>3 DEF InsertPage, DeletePage, MovePage, LockPage, UnlockChangedPage, Calls
  <2>4. QED
    BY <2>1, <2>2, <2>3
       DEF Next, SaveStep, vars, UnlockPage, GetPageCount, FindBlockFails, NullPointer,
           SavePage, EndSave, RemoveFile, RenameSpool, Crash
<1>3. Inv => VariablesOK
  BY DEF Inv
<1>4. QED
  BY <1>1, <1>2, <1>3, InvAlways, PTL DEF Spec, TypeOK

(* page_count is what the list has, or is marked to be counted again.       *)
THEOREM CountStaysCurrent == Spec => []CountIsCurrent
<1>1. Inv => CountIsCurrent
  BY DEF Inv, ListInv, CountIsCurrent
<1>2. QED
  BY <1>1, InvAlways, PTL

(* Whatever is split, moved, inserted and deleted, no page of the source    *)
(* file stands in two spans.                                                *)
THEOREM SourcePagesStayOnce == Spec => []SourcePagesOnce
<1>1. Inv => SourcePagesOnce
  <2> SUFFICES ASSUME Inv PROVE SourcePagesOnce
    OBVIOUS
  <2>1. Len(source) \in Nat /\ Listed(Len(source), blocks, cache)
    BY SourceLength DEF Inv, ListInv
  <2>2. Pairwise(blocks, DisjointSpans)
    BY <2>1 DEF Listed
  <2>3. DOMAIN blocks = 1..Len(blocks) /\ \A i \in 1..Len(blocks) : blocks[i] \in Blocks(Len(source))
    BY <2>1, ListedTypes
  <2>4. \A y \in Blocks(Len(source)) : y.type = "continueus" \/ y.type = "reference"
    BY DEF Blocks, Block
  <2>5. \A i \in DOMAIN blocks \ References : i \in 1..Len(blocks) /\ IsSpan(blocks[i])
    BY <2>3, <2>4 DEF References, IsSpan
  <2>6. ASSUME NEW i \in DOMAIN blocks \ References, NEW j \in DOMAIN blocks \ References, i # j
        PROVE  blocks[i].val2 < blocks[j].val1 \/ blocks[j].val2 < blocks[i].val1
    <3>1. <<blocks[i], blocks[j]>> \in DisjointSpans
      BY <2>2, <2>5, <2>6 DEF Pairwise
    <3>2. QED
      BY <2>5, <3>1 DEF DisjointSpans
  <2>7. QED
    BY <2>6 DEF SourcePagesOnce
<1>2. QED
  BY <1>1, InvAlways, PTL

(* As long as compressing does not fail, each image in the cache file is    *)
(* the one of exactly one block.                                            *)
THEOREM ImagesStayOwned ==
  ASSUME "encode" \notin Failures
  PROVE  Spec => []EachImageOnce
<1>1. Inv => EachImageOnce
  <2> SUFFICES ASSUME Inv PROVE EachImageOnce
    OBVIOUS
  <2>1. Len(source) \in Nat /\ Listed(Len(source), blocks, cache)
    BY SourceLength DEF Inv, ListInv
  <2>2. Pairwise(blocks, DistinctRefs) /\ DOMAIN cache.images = Refs(blocks)
    BY <2>1 DEF Listed, Owned
  <2>3. DOMAIN blocks = 1..Len(blocks)
    BY <2>1, ListedTypes
  <2>4. References = RefsAt(blocks)
    BY <2>3 DEF References, RefsAt
  <2>5. ASSUME NEW i \in References, NEW j \in References, blocks[i].val1 = blocks[j].val1
        PROVE  i = j
    <3>1. i \in 1..Len(blocks) /\ j \in 1..Len(blocks) /\ ~IsSpan(blocks[i]) /\ ~IsSpan(blocks[j])
      BY <2>4 DEF RefsAt, IsSpan
    <3>2. i # j => <<blocks[i], blocks[j]>> \in DistinctRefs
      BY <2>2, <3>1 DEF Pairwise
    <3>3. QED
      BY <2>5, <3>1, <3>2 DEF DistinctRefs
  <2>6. DOMAIN cache.images = {blocks[i].val1 : i \in References}
    BY <2>2, <2>4 DEF Refs
  <2>7. QED
    BY <2>5, <2>6 DEF EachImageOnce
<1>2. QED
  BY <1>1, InvAlways, PTL

(* Clients that lock positions of the list only find their pages there when *)
(* they unlock them.                                                        *)
THEOREM LockedStaysWithin ==
  ASSUME "beyond" \notin Habits
  PROVE  Spec => []LockedWithin
<1>1. Inv => LockedWithin
  BY DEF Inv, LockInv, LockedWithin
<1>2. QED
  BY <1>1, InvAlways, PTL

(* Without failures to compress, and clients that lock moved pages, neither *)
(* the missing handle nor a missing cached image is used.                   *)
THEOREM NoNullPointer ==
  ASSUME "encode" \notin Failures, "moved" \notin Habits
  PROVE  Spec => [](phase # "fault")
<1>1. Inv => phase # "fault"
  BY DEF Inv, FaultInv
<1>2. QED
  BY <1>1, InvAlways, PTL

-----------------------------------------------------------------------------
(* The pages a list of blocks stands for.                                  *)
Shown == Image \cup {Missing}
Run(src, lo, hi) == [k \in 1..(hi - lo + 1) |-> src[lo + k]]
View(src, c) ==
  [b \in Blocks(Len(src)) |-> IF IsSpan(b) THEN Run(src, b.val1, b.val2)
                                           ELSE One(ReadFile(c, b))]

(* A view v of the blocks in a source file src.                            *)
Views(v, src) ==
  /\ Lists(v, Blocks(Len(src)), Shown)
  /\ \A b \in Blocks(Len(src)) : Len(v[b]) = PagesIn(b)
  /\ \A b \in Blocks(Len(src)) : IsSpan(b) => v[b] = Run(src, b.val1, b.val2)

(* Pages lo to hi of the source file, and a run of them cut in two.        *)
LEMMA RunFacts ==
  ASSUME NEW S, NEW src \in Seq(S), NEW lo \in Nat, NEW hi \in Int,
         lo - 1 <= hi, hi < Len(src)
  PROVE  Run(src, lo, hi) \in Seq(S) /\ Len(Run(src, lo, hi)) = hi - lo + 1
<1>1. Len(src) \in Nat /\ \A k \in 1..Len(src) : src[k] \in S
  BY LenProperties, ElementOfSeq
<1>2. \A k \in 1..(hi - lo + 1) : lo + k \in 1..Len(src)
  BY <1>1
<1>3. hi - lo + 1 \in Nat
  OBVIOUS
<1>4. QED
  BY <1>1, <1>2, <1>3 DEF Run

(* A run of pages is two shorter runs in a row.                            *)
LEMMA RunCut ==
  ASSUME NEW S, NEW src \in Seq(S), NEW lo \in Nat, NEW mid \in Int, NEW hi \in Int,
         lo - 1 <= mid, mid <= hi, hi < Len(src), NEW next, next = mid + 1
  PROVE  Cat(Run(src, lo, mid), Run(src, next, hi)) = Run(src, lo, hi)
<1> DEFINE a == Run(src, lo, mid)
           b == Run(src, next, hi)
           s == Run(src, lo, hi)
<1>1. next \in Nat /\ Len(src) \in Nat /\ mid < Len(src) /\ next - 1 <= hi /\ lo - 1 <= hi
  BY LenProperties
<1>2. /\ a \in Seq(S) /\ Len(a) = mid - lo + 1
      /\ b \in Seq(S) /\ Len(b) = hi - mid
      /\ s \in Seq(S) /\ Len(s) = hi - lo + 1
  <2>1. a \in Seq(S) /\ Len(a) = mid - lo + 1
    BY <1>1, RunFacts
  <2>2. b \in Seq(S) /\ Len(b) = hi - next + 1
    BY <1>1, RunFacts
  <2>3. s \in Seq(S) /\ Len(s) = hi - lo + 1
    BY <1>1, RunFacts
  <2> HIDE DEF a, b, s
  <2>4. QED
    BY <2>1, <2>2, <2>3
<1>3. /\ \A k \in 1..(mid - lo + 1) : a[k] = src[lo + k]
      /\ \A k \in 1..(hi - mid) : b[k] = src[next + k]
      /\ \A k \in 1..(hi - lo + 1) : s[k] = src[lo + k]
  BY <1>1 DEF Run
<1> HIDE DEF a, b, s
<1>4. /\ a \o b \in Seq(S) /\ Len(a \o b) = Len(a) + Len(b)
      /\ \A k \in 1..(Len(a) + Len(b)) :
           (a \o b)[k] = IF k <= Len(a) THEN a[k] ELSE b[k - Len(a)]
  BY <1>2, ConcatProperties
<1> DEFINE t == a \o b
<1>5. t \in Seq(S) /\ Len(t) = hi - lo + 1
  BY <1>2, <1>4
<1>6. ASSUME NEW k \in 1..(hi - lo + 1) PROVE t[k] = s[k]
  <2>1. t[k] = IF k <= Len(a) THEN a[k] ELSE b[k - Len(a)]
    BY <1>2, <1>4
  <2> HIDE DEF t
  <2>2. CASE k <= Len(a)
    <3>1. k \in 1..(mid - lo + 1)
      BY <1>2, <2>2
    <3>2. QED
      BY <1>3, <2>1, <2>2, <3>1
  <2>3. CASE ~(k <= Len(a))
    <3> DEFINE j == k - Len(a)
    <3>1. j \in 1..(hi - mid) /\ next + j = lo + k
      BY <1>2, <2>3
    <3>2. t[k] = b[j]
      BY <2>1, <2>3
    <3> HIDE DEF j
    <3>3. b[j] = src[lo + k]
      BY <1>3, <3>1
    <3>4. QED
      BY <1>3, <3>2, <3>3
  <2>4. QED
    BY <2>2, <2>3
<1> HIDE DEF t
<1>7. t = s
  BY <1>2, <1>5, <1>6, SeqEqual
<1>8. QED
  BY <1>7, Zenon DEF Cat, a, b, s, t

(* The bitmap's own view: spans show the source file, references the cache. *)
LEMMA ViewFacts ==
  ASSUME NEW src \in Seq(Image), NEW c \in Caches, NEW v, v = View(src, c)
  PROVE  /\ Views(v, src)
         /\ \A b \in Blocks(Len(src)) : ~IsSpan(b) => v[b] = One(ReadFile(c, b))
<1> DEFINE n == Len(src)
<1>1. n \in Nat
  BY LenProperties
<1>2. ASSUME NEW b \in Blocks(n), IsSpan(b)
      PROVE  /\ v[b] = Run(src, b.val1, b.val2)
             /\ v[b] \in Seq(Shown) /\ Len(v[b]) = PagesIn(b)
  <2>1. v[b] = Run(src, b.val1, b.val2)
    BY <1>2 DEF View
  <2>2. /\ b.val1 \in Nat /\ b.val2 \in Int /\ b.val1 - 1 <= b.val2 /\ b.val2 < n
        /\ PagesIn(b) = b.val2 - b.val1 + 1
    BY <1>2 DEF Blocks, Block, IsSpan, PagesIn
  <2>3. src \in Seq(Shown)
    <3>1. Image \subseteq Shown
      BY DEF Shown
    <3>2. QED
      BY <3>1, SeqMonotonic
  <2>4. Run(src, b.val1, b.val2) \in Seq(Shown)
        /\ Len(Run(src, b.val1, b.val2)) = b.val2 - b.val1 + 1
    BY <2>2, <2>3, RunFacts
  <2>5. QED
    BY <2>1, <2>2, <2>4
<1>3. ASSUME NEW b \in Blocks(n), ~IsSpan(b)
      PROVE  /\ v[b] = One(ReadFile(c, b))
             /\ v[b] \in Seq(Shown) /\ Len(v[b]) = PagesIn(b)
  <2>1. v[b] = One(ReadFile(c, b))
    BY <1>3 DEF View
  <2>2. ReadFile(c, b) \in Shown
    BY CachesForm DEF ReadFile, Shown
  <2>3. PagesIn(b) = 1
    BY <1>3 DEF IsSpan, PagesIn
  <2>4. One(ReadFile(c, b)) \in Seq(Shown) /\ Len(One(ReadFile(c, b))) = 1
    BY <2>2, OneFacts
  <2>5. QED
    BY <2>1, <2>3, <2>4
<1>4. v = [b \in Blocks(n) |-> v[b]]
  BY DEF View
<1> HIDE DEF n
<1>5. \A b \in Blocks(n) : v[b] \in Seq(Shown) /\ Len(v[b]) = PagesIn(b)
  BY <1>2, <1>3
<1>6. Lists(v, Blocks(n), Shown)
  BY <1>4, <1>5 DEF Lists
<1>7. QED
  BY <1>2, <1>3, <1>5, <1>6 DEF Views, n

(* The pages of a list are as many as its blocks have.                     *)
LEMMA SpreadLength ==
  ASSUME NEW src \in Seq(Image), NEW v, Views(v, src), NEW bs \in Seq(Blocks(Len(src)))
  PROVE  Spread(v, bs) \in Seq(Shown) /\ Len(Spread(v, bs)) = Total(bs)
<1> DEFINE n == Len(src)
           B == Blocks(n)
           I == {t \in Seq(B) : Len(Spread(v, t)) = Total(t)}
<1>1. n \in Nat
  BY LenProperties
<1>2. /\ Lists(v, B, Shown)
      /\ \A b \in B : PagesIn(b) \in Nat /\ Len(v[b]) = PagesIn(b) /\ v[b] \in Seq(Shown)
  BY <1>1, BlocksCount DEF Views, Lists
<1> HIDE DEF B
<1>3. << >> \in I
  <2>1. Spread(v, << >>) = << >> /\ << >> \in Seq(B) /\ Len(<< >>) = 0
    BY SpreadEmpty, EmptySeq
  <2>2. Total(<< >>) = 0
    BY <1>2, TotalSmall
  <2>3. QED
    BY <2>1, <2>2
<1>4. ASSUME NEW t \in Seq(B), NEW x \in B, t \in I PROVE Cat(t, One(x)) \in I
  <2>1. Spread(v, Cat(t, One(x))) = Cat(Spread(v, t), v[x])
    BY <1>2, SpreadMore
  <2>2. Spread(v, t) \in Seq(Shown)
    BY <1>2, SpreadType
  <2>3. Len(Cat(Spread(v, t), v[x])) = Len(Spread(v, t)) + Len(v[x])
    BY <1>2, <2>2, CatFacts
  <2>4. One(x) \in Seq(B)
    BY OneFacts
  <2>5. Cat(t, One(x)) \in Seq(B)
    BY <2>4, CatFacts
  <2>6. Total(Cat(t, One(x))) = Total(t) + Total(One(x))
    <3>1. Total(t \o One(x)) = Total(t) + Total(One(x))
      BY <1>2, <2>4, CountsConcat
    <3>2. QED
      BY <3>1, Zenon DEF Cat
  <2>7. Total(One(x)) = PagesIn(x)
    BY <1>2, TotalSmall DEF One
  <2>8. Len(Spread(v, t)) = Total(t)
    BY <1>4
  <2>9. QED
    BY <1>2, <2>1, <2>3, <2>5, <2>6, <2>7, <2>8
<1> HIDE DEF I
<1>5. Seq(B) \subseteq I
  BY <1>3, <1>4, ListInduction
<1>6. bs \in I
  BY <1>5 DEF B
<1>7. Spread(v, bs) \in Seq(Shown)
  <2>1. bs \in Seq(B)
    BY DEF B
  <2>2. QED
    BY <1>2, <2>1, SpreadType
<1>8. QED
  BY <1>6, <1>7 DEF I

(* The part of a span, if there is one, shows its pages.                   *)
LEMMA PartSpread ==
  ASSUME NEW src \in Seq(Image), NEW v, Views(v, src),
         NEW lo \in Nat, NEW hi \in Int, lo - 1 <= hi, hi < Len(src)
  PROVE  /\ Part(lo, hi) \in Seq(Blocks(Len(src)))
         /\ Spread(v, Part(lo, hi)) = Run(src, lo, hi)
<1> DEFINE B == Blocks(Len(src))
<1>1. Lists(v, B, Shown)
  BY DEF Views
<1>2. CASE lo <= hi
  <2>1. Part(lo, hi) = One(Span(lo, hi))
    BY <1>2 DEF Part, One
  <2>2. /\ Span(lo, hi) \in B /\ IsSpan(Span(lo, hi))
        /\ Span(lo, hi).val1 = lo /\ Span(lo, hi).val2 = hi
    BY DEF Span, Blocks, Block, IsSpan
  <2>3. v[Span(lo, hi)] = Run(src, lo, hi)
    BY <2>2 DEF Views
  <2> DEFINE x == Span(lo, hi)
  <2> HIDE DEF x, B
  <2>4. Spread(v, One(x)) = v[x] /\ One(x) \in Seq(B)
    BY <1>1, <2>2, SpreadOne, OneFacts DEF x
  <2>5. QED
    BY <2>1, <2>3, <2>4 DEF x, B
<1>3. CASE ~(lo <= hi)
  <2>1. Part(lo, hi) = << >>
    BY <1>3 DEF Part
  <2>2. hi - lo + 1 = 0
    BY <1>3
  <2>3. Run(src, lo, hi) = << >>
    BY <2>2 DEF Run
  <2>4. QED
    BY <2>1, <2>3, SpreadEmpty, EmptySeq
<1>4. QED
  BY <1>2, <1>3

(* The pieces of a block show what the block shows.                        *)
LEMMA PiecesSpread ==
  ASSUME NEW src \in Seq(Image), NEW v, Views(v, src), NEW b \in Blocks(Len(src)),
         NEW d \in Nat, d < PagesIn(b), NEW item, item = b.val1 + d
  PROVE  Pieces(b, item) \in Seq(Blocks(Len(src))) /\ Spread(v, Pieces(b, item)) = v[b]
<1> DEFINE B == Blocks(Len(src))
<1>1. Lists(v, B, Shown)
  BY DEF Views
<1>2. CASE ~IsSpan(b)
  <2>1. b.type = "reference"
    BY <1>2 DEF Blocks, Block, IsSpan
  <2>2. Pieces(b, item) = One(b)
    BY <2>1 DEF Pieces, One
  <2> HIDE DEF B
  <2>3. b \in B
    BY DEF B
  <2>4. Spread(v, One(b)) = v[b] /\ One(b) \in Seq(B)
    BY <1>1, <2>3, SpreadOne, OneFacts
  <2>5. QED
    BY <2>2, <2>4 DEF B
<1>3. CASE IsSpan(b)
  <2> DEFINE before == item - 1
             next == item + 1
             l == Part(b.val1, before)
             x == Span(item, item)
             r == Part(next, b.val2)
  <2>1. /\ b.val1 \in Nat /\ b.val2 \in Int /\ b.val2 < Len(src)
        /\ item \in Nat /\ b.val1 <= item /\ item <= b.val2 /\ Len(src) \in Nat
    BY <1>3, LenProperties DEF Blocks, Block, IsSpan, PagesIn
  <2>2. /\ before \in Int /\ b.val1 - 1 <= before /\ before < Len(src) /\ before < item
        /\ next \in Nat /\ next - 1 <= b.val2 /\ item - 1 <= item /\ item < Len(src)
        /\ item = before + 1 /\ next = item + 1 /\ b.val1 - 1 <= item
    <3> DEFINE lo == b.val1
               hi == b.val2
               length == Len(src)
    <3>1. lo \in Nat /\ hi \in Int /\ length \in Nat /\ hi < length /\ item \in Nat
          /\ lo <= item /\ item <= hi
      BY <2>1
    <3> HIDE DEF lo, hi, length
    <3>2. /\ before \in Int /\ lo - 1 <= before /\ before < length /\ before < item
          /\ next \in Nat /\ next - 1 <= hi /\ item - 1 <= item /\ item < length
          /\ item = before + 1 /\ next = item + 1 /\ lo - 1 <= item
      BY <3>1, SMTT(30)
    <3>3. QED
      BY <3>2 DEF lo, hi, length
  <2>3. Pieces(b, item) = Cat(Cat(l, One(x)), r)
    <3>1. Pieces(b, item) = (l \o <<x>>) \o r
      BY <1>3 DEF Pieces, IsSpan
    <3>2. QED
      BY <3>1, Zenon DEF Cat, One
  <2>4. Part(item, item) = One(x)
    BY <2>1 DEF Part, One
  <2> HIDE DEF before, next
  <2>5. /\ l \in Seq(B) /\ Spread(v, l) = Run(src, b.val1, before)
        /\ r \in Seq(B) /\ Spread(v, r) = Run(src, next, b.val2)
        /\ One(x) \in Seq(B) /\ Spread(v, One(x)) = Run(src, item, item)
    <3>1. l \in Seq(B) /\ Spread(v, l) = Run(src, b.val1, before)
      BY <2>1, <2>2, PartSpread
    <3>2. r \in Seq(B) /\ Spread(v, r) = Run(src, next, b.val2)
      BY <2>1, <2>2, PartSpread
    <3>3. Part(item, item) \in Seq(B) /\ Spread(v, Part(item, item)) = Run(src, item, item)
      BY <2>1, <2>2, PartSpread, SMTT(30)
    <3>4. QED
      BY <3>1, <3>2, <3>3, <2>4
  <2> HIDE DEF l, x, r, B
  <2>6. Cat(l, One(x)) \in Seq(B) /\ Cat(Cat(l, One(x)), r) \in Seq(B)
    BY <2>5, CatFacts
  <2>7. Spread(v, Cat(Cat(l, One(x)), r)) = Cat(Spread(v, Cat(l, One(x))), Spread(v, r))
    BY <1>1, <2>5, <2>6, SpreadCat
  <2>8. Spread(v, Cat(l, One(x))) = Cat(Spread(v, l), Spread(v, One(x)))
    BY <1>1, <2>5, SpreadCat
  <2>9. Cat(Run(src, b.val1, before), Run(src, item, item)) = Run(src, b.val1, item)
    BY <2>1, <2>2, RunCut
  <2>10. Cat(Run(src, b.val1, item), Run(src, next, b.val2)) = Run(src, b.val1, b.val2)
    BY <2>1, <2>2, RunCut, SMTT(30)
  <2>11. v[b] = Run(src, b.val1, b.val2)
    BY <1>3 DEF Views
  <2>12. QED
    BY <2>3, <2>5, <2>6, <2>7, <2>8, <2>9, <2>10, <2>11 DEF B
<1>4. QED
  BY <1>2, <1>3

(* FindBlock: splitting a block changes no page.                           *)
LEMMA SplitSpread ==
  ASSUME NEW src \in Seq(Image), NEW v, Views(v, src),
         NEW bs \in Seq(Blocks(Len(src))), NEW p \in Nat, Within(bs, p)
  PROVE  Spread(v, Split(bs, p)) = Spread(v, bs)
<1> DEFINE n == Len(src)
           S == Blocks(n)
<1>1. n \in Nat
  BY LenProperties
<1>2. Lists(v, S, Shown) /\ \A b \in S : PagesIn(b) \in Nat
  BY <1>1, BlocksCount DEF Views
<1>3. PICK a \in Seq(S), c \in Seq(S), b \in S :
        Around(bs, a, b, c) /\ Total(a) <= p /\ p < Total(a) + PagesIn(b)
  <2> HIDE DEF S
  <2>1. bs \in Seq(S)
    BY DEF S
  <2>2. \E aa, cc \in Seq(S) : \E x \in S :
           /\ Around(bs, aa, x, cc)
           /\ Total(aa) <= p /\ p < Total(aa) + PagesIn(x)
    BY <1>2, <2>1, BlockFound
  <2>3. QED
    BY <2>2
<1> DEFINE d == p - Total(a)
           item == b.val1 + d
           m == Pieces(b, item)
<1>4. d \in Nat /\ d < PagesIn(b)
  <2>1. Total(a) \in Nat
    BY <1>2, CountsConcat
  <2>2. QED
    BY <1>2, <1>3, <2>1
<1>5. Split(bs, p) = Cat(Cat(a, m), c)
  <2>1. Split(bs, p) = (a \o Pieces(b, b.val1 + (p - Total(a)))) \o c
    BY <1>1, <1>3, SplitIsPieces
  <2>2. QED
    BY <2>1, Zenon DEF Cat
<1>6. m \in Seq(S) /\ Spread(v, m) = v[b]
  <2> HIDE DEF d
  <2>1. QED
    BY <1>4, PiecesSpread
<1> HIDE DEF m, S
<1>7. Cat(a, m) \in Seq(S)
  BY <1>6, CatFacts
<1>8. Spread(v, Cat(Cat(a, m), c)) = Cat(Spread(v, Cat(a, m)), Spread(v, c))
  BY <1>2, <1>7, SpreadCat
<1>9. Spread(v, Cat(a, m)) = Cat(Spread(v, a), Spread(v, m))
  BY <1>2, <1>6, SpreadCat
<1>10. Spread(v, bs) = Cat(Cat(Spread(v, a), v[b]), Spread(v, c))
  BY <1>2, <1>3, SpreadAround
<1>11. QED
  BY <1>5, <1>6, <1>8, <1>9, <1>10

-----------------------------------------------------------------------------
(* Finding a page in the list.                                             *)

(* Block x at index i of the list t holds the one page at position p.      *)
Holds(n, t, p, i, x) ==
  \E a, c \in Seq(Blocks(n)) :
    t = Cat(Cat(a, One(x)), c) /\ Total(a) = p /\ Len(a) + 1 = i

(* s is the list t without the block e, which holds the page at p.         *)
PutAt(n, s, e, t, p) ==
  \E a, c \in Seq(Blocks(n)) : s = Cat(a, c) /\ t = Cat(Cat(a, One(e)), c) /\ Total(a) = p

(* BlockAt finds the block that holds a page alone.                        *)
LEMMA SingleFound ==
  ASSUME NEW n \in Nat, NEW t, NEW p \in Nat, Single(n, t, p)
  PROVE  \E x \in Blocks(n) : PagesIn(x) = 1 /\ Holds(n, t, p, BlockAt(t, p), x)
<1> DEFINE S == Blocks(n)
<1>1. PICK a \in Seq(S), c \in Seq(S), x \in S :
        Around(t, a, x, c) /\ Total(a) = p /\ PagesIn(x) = 1
  BY DEF Single
<1>2. \A b \in S : PagesIn(b) \in Nat
  BY BlocksCount
<1> HIDE DEF S
<1>3. Total(a) <= p /\ p < Total(a) + PagesIn(x)
  BY <1>1
<1>4. BlockAt(t, p) = Len(a) + 1 /\ t[BlockAt(t, p)] = x
      /\ PagesThrough(t)[BlockAt(t, p) - 1] = Total(a)
  BY <1>1, <1>2, <1>3, BlockAtPosition
<1>5. t = Cat(Cat(a, One(x)), c)
  BY <1>1, CatNames
<1>6. QED
  BY <1>1, <1>4, <1>5 DEF Holds, S

(* What two lists in a row have in pages, they have together.              *)
LEMMA TotalCat ==
  ASSUME NEW n \in Nat, NEW a \in Seq(Blocks(n)), NEW c \in Seq(Blocks(n))
  PROVE  /\ Total(Cat(a, c)) = Total(a) + Total(c)
         /\ Total(a) \in Nat /\ Total(c) \in Nat
         /\ Cat(a, c) \in Seq(Blocks(n))
<1> DEFINE S == Blocks(n)
<1>1. \A b \in S : PagesIn(b) \in Nat
  BY BlocksCount
<1> HIDE DEF S
<1>2. a \in Seq(S) /\ c \in Seq(S)
  BY DEF S
<1>3. Total(a \o c) = Total(a) + Total(c) /\ Total(a) \in Nat
  BY <1>1, <1>2, CountsConcat
<1>4. Total(c) \in Nat
  BY <1>1, <1>2, CountsConcat
<1>5. Cat(a, c) \in Seq(S)
  BY <1>2, CatFacts
<1>6. QED
  BY <1>3, <1>4, <1>5, Zenon DEF Cat, S

(* A single block is a list with its pages.                                *)
LEMMA TotalOne ==
  ASSUME NEW n \in Nat, NEW x \in Blocks(n)
  PROVE  Total(One(x)) = PagesIn(x) /\ One(x) \in Seq(Blocks(n)) /\ PagesIn(x) \in Nat
<1> DEFINE S == Blocks(n)
<1>1. \A b \in S : PagesIn(b) \in Nat
  BY BlocksCount
<1> HIDE DEF S
<1>2. x \in S
  BY DEF S
<1>3. Total(<<x>>) = PagesIn(x)
  BY <1>1, <1>2, TotalSmall
<1>4. One(x) \in Seq(S)
  BY <1>2, OneFacts
<1>5. QED
  BY <1>1, <1>2, <1>3, <1>4, Zenon DEF One, S

(* FindBlock: splitting at one position keeps a page that is alone alone.   *)
LEMMA SplitKeepsSingle ==
  ASSUME NEW n \in Nat, NEW bs \in Seq(Blocks(n)), NEW p \in Nat, Single(n, bs, p),
         NEW q \in Nat, Within(bs, q)
  PROVE  Single(n, Split(bs, q), p)
<1> DEFINE S == Blocks(n)
<1>1. PICK a \in Seq(S), c \in Seq(S), x \in S :
        Around(bs, a, x, c) /\ Total(a) = p /\ PagesIn(x) = 1
  BY DEF Single
<1>2. PICK aa \in Seq(S), cc \in Seq(S), b \in S :
        Around(bs, aa, b, cc) /\ Total(aa) <= q /\ q < Total(aa) + PagesIn(b)
  <2>1. \A y \in S : PagesIn(y) \in Nat
    BY BlocksCount
  <2> HIDE DEF S
  <2>2. bs \in Seq(S)
    BY DEF S
  <2>3. \E g, h \in Seq(S) : \E y \in S :
           /\ Around(bs, g, y, h)
           /\ Total(g) <= q /\ q < Total(g) + PagesIn(y)
    BY <2>1, <2>2, BlockFound
  <2>4. QED
    BY <2>3
<1> DEFINE d == q - Total(aa)
           item == b.val1 + d
           m == Pieces(b, item)
           t == Split(bs, q)
<1>3. d \in Nat /\ d < PagesIn(b) /\ PagesIn(b) \in Nat /\ Total(aa) \in Nat
  <2>1. Total(aa) \in Nat /\ PagesIn(b) \in Nat
    BY TotalCat, TotalOne
  <2>2. QED
    BY <1>2, <2>1
<1>4. t = Cat(Cat(aa, m), cc)
  <2>1. Split(bs, q) = (aa \o Pieces(b, b.val1 + (q - Total(aa)))) \o cc
    BY <1>2, SplitIsPieces
  <2>2. QED
    BY <2>1, Zenon DEF Cat
<1>5. m \in Seq(S) /\ Total(m) = PagesIn(b)
  <2> HIDE DEF d
  <2>1. QED
    BY <1>3, PiecesOfBlock
<1>6. bs = Cat(Cat(a, One(x)), c) /\ bs = Cat(Cat(aa, One(b)), cc)
  BY <1>1, <1>2, CatNames
<1>7. Len(a) \in Nat /\ Len(aa) \in Nat
  BY LenProperties
<1>8. One(x) \in Seq(S) /\ One(b) \in Seq(S) /\ Total(One(b)) = PagesIn(b)
  BY TotalOne
<1> HIDE DEF m, S, t
<1>9. CASE Len(a) < Len(aa)
  <2>1. PICK e \in Seq(S) : aa = Cat(Cat(a, One(x)), e) /\ c = Cat(Cat(e, One(b)), cc)
    <3>1. Cat(Cat(a, One(x)), c) = Cat(Cat(aa, One(b)), cc)
      BY <1>6
    <3>2. QED
      BY <3>1, <1>9, CatTwice
  <2> DEFINE ax == Cat(a, One(x))
  <2>2. ax \in Seq(S)
    BY <1>8, CatFacts
  <2> HIDE DEF ax
  <2>3. Cat(e, m) \in Seq(S) /\ Cat(Cat(e, m), cc) \in Seq(S)
    BY <1>5, CatFacts
  <2>4. Cat(aa, m) = Cat(ax, Cat(e, m))
    <3>1. aa = Cat(ax, e)
      BY <2>1 DEF ax
    <3>2. QED
      BY <1>5, <2>2, <3>1, CatThree
  <2>5. t = Cat(ax, Cat(Cat(e, m), cc))
    <3>1. Cat(Cat(ax, Cat(e, m)), cc) = Cat(ax, Cat(Cat(e, m), cc))
      BY <2>2, <2>3, CatThree
    <3>2. QED
      BY <1>4, <2>4, <3>1
  <2>6. Around(t, a, x, Cat(Cat(e, m), cc))
    BY <2>5, CatNames DEF ax
  <2>7. QED
    BY <1>1, <2>3, <2>6 DEF Single, S, t
<1>10. CASE Len(a) = Len(aa)
  <2>1. One(x) = One(b) /\ a = aa
    <3>1. Cat(Cat(a, One(x)), c) = Cat(a, Cat(One(x), c))
      BY <1>8, CatThree
    <3>2. Cat(Cat(aa, One(b)), cc) = Cat(aa, Cat(One(b), cc))
      BY <1>8, CatThree
    <3>3. Cat(One(x), c) \in Seq(S) /\ Cat(One(b), cc) \in Seq(S)
      BY <1>8, CatFacts
    <3>4. a = aa /\ Cat(One(x), c) = Cat(One(b), cc)
      BY <1>6, <1>10, <3>1, <3>2, <3>3, CatCancel
    <3>5. Len(One(x)) = Len(One(b))
      BY OneFacts
    <3>6. One(x) = One(b)
      BY <1>8, <3>4, <3>5, CatCancel
    <3>7. QED
      BY <3>4, <3>6
  <2>2. x = b
    BY <2>1, OneFacts
  <2>3. d = 0 /\ item = b.val1
    <3>1. PagesIn(b) = 1 /\ Total(aa) = p
      BY <1>1, <2>1, <2>2
    <3>2. d = 0
      BY <1>3, <3>1
    <3>3. b.val1 \in Nat
      BY DEF S, Blocks, Block
    <3>4. QED
      BY <3>2, <3>3
  <2>4. b \in Block /\ IsSinglePage(b)
    BY <1>1, <2>2 DEF S, Blocks, Block, IsSinglePage, PagesIn
  <2>5. m = One(b)
    <3>1. Pieces(b, b.val1) = <<b>>
      BY <2>4, SinglePiece
    <3>2. Pieces(b, item) = Pieces(b, b.val1)
      BY <2>3
    <3>3. QED
      BY <3>1, <3>2, Zenon DEF m, One
  <2>6. t = bs
    BY <1>4, <1>6, <2>5
  <2>7. QED
    BY <2>6 DEF t
<1>11. CASE Len(aa) < Len(a)
  <2>1. PICK e \in Seq(S) : a = Cat(Cat(aa, One(b)), e) /\ cc = Cat(Cat(e, One(x)), c)
    <3>1. Cat(Cat(aa, One(b)), cc) = Cat(Cat(a, One(x)), c)
      BY <1>6
    <3>2. QED
      BY <3>1, <1>11, CatTwice
  <2> DEFINE l == Cat(aa, m)
             le == Cat(l, e)
             ex == Cat(e, One(x))
  <2>2. l \in Seq(S) /\ Total(l) = Total(aa) + PagesIn(b) /\ Total(l) \in Nat
    <3>1. l \in Seq(Blocks(n)) /\ Total(l) = Total(aa) + Total(m)
      BY <1>5, TotalCat DEF S
    <3>2. QED
      BY <1>3, <1>5, <3>1, SMTT(30) DEF S
  <2>3. ex \in Seq(S)
    BY <1>8, CatFacts
  <2>4. le \in Seq(S) /\ Total(le) = Total(l) + Total(e)
    <3> HIDE DEF l
    <3>1. QED
      BY <2>2, TotalCat DEF S
  <2>5. Total(a) = Total(aa) + PagesIn(b) + Total(e)
    <3>1. Cat(aa, One(b)) \in Seq(S) /\ Total(Cat(aa, One(b))) = Total(aa) + PagesIn(b)
      BY <1>8, TotalCat DEF S
    <3>2. Total(Cat(Cat(aa, One(b)), e)) = Total(Cat(aa, One(b))) + Total(e)
      BY <3>1, TotalCat DEF S
    <3>3. QED
      BY <2>1, <3>1, <3>2
  <2>6. Total(le) = p
    BY <1>1, <2>2, <2>4, <2>5
  <2> HIDE DEF l
  <2>7. t = Cat(Cat(le, One(x)), c)
    <3>1. t = Cat(l, Cat(ex, c))
      BY <1>4, <2>1 DEF l
    <3>2. Cat(Cat(l, ex), c) = Cat(l, Cat(ex, c))
      BY <2>2, <2>3, CatThree
    <3>3. Cat(Cat(l, e), One(x)) = Cat(l, Cat(e, One(x)))
      BY <1>8, <2>2, CatThree
    <3>4. QED
      BY <3>1, <3>2, <3>3
  <2> HIDE DEF le
  <2>8. Around(t, le, x, c)
    BY <2>7, CatNames
  <2>9. QED
    BY <1>1, <2>4, <2>6, <2>8 DEF Single, S, t
<1>12. QED
  BY <1>7, <1>9, <1>10, <1>11

-----------------------------------------------------------------------------
(* Q is the pages P with x put in at position p.                           *)
PageAt(S, P, x, Q, p) ==
  \E a, c \in Seq(S) : P = Cat(a, c) /\ Q = Cat(Cat(a, One(x)), c) /\ Len(a) = p

(* Positions count from 0, sequences from 1.                               *)
Place(p) == p + 1

(* What putting a page in means for the edits of PageSequence.             *)
LEMMA PageEdits ==
  ASSUME NEW S, NEW P, NEW x \in S, NEW Q, NEW p, PageAt(S, P, x, Q, p)
  PROVE  /\ Q[Place(p)] = x
         /\ RemoveAt(Q, Place(p)) = P
         /\ InsertAt(P, Place(p), x) = Q
<1> DEFINE i == Place(p)
<1>1. PICK a \in Seq(S), c \in Seq(S) :
        P = Cat(a, c) /\ Q = Cat(Cat(a, One(x)), c) /\ Len(a) = p
  BY DEF PageAt
<1>2. p \in Nat /\ i = Len(a) + 1
  BY <1>1, LenProperties DEF Place
<1> HIDE DEF i
<1>3. Q[i] = x /\ RemoveAt(Q, i) = Cat(a, c)
  BY <1>1, <1>2, CatEdits
<1>4. InsertAt(P, i, x) = Cat(Cat(a, One(x)), c)
  BY <1>1, <1>2, CatInsert
<1>5. QED
  BY <1>1, <1>3, <1>4 DEF i

(* Replacing the page that was put in is putting the other one in.         *)
LEMMA PageReplaced ==
  ASSUME NEW S, NEW P, NEW x \in S, NEW Q, NEW p, PageAt(S, P, x, Q, p), NEW y \in S
  PROVE  ReplaceAt(Q, Place(p), y) = InsertAt(P, Place(p), y)
<1> DEFINE i == Place(p)
<1>1. PICK a \in Seq(S), c \in Seq(S) :
        P = Cat(a, c) /\ Q = Cat(Cat(a, One(x)), c) /\ Len(a) = p
  BY DEF PageAt
<1>2. p \in Nat /\ i = Len(a) + 1
  BY <1>1, LenProperties DEF Place
<1> HIDE DEF i
<1>3. ReplaceAt(Q, i, y) = Cat(Cat(a, One(y)), c)
  BY <1>1, <1>2, CatEdits
<1>4. InsertAt(P, i, y) = Cat(Cat(a, One(y)), c)
  BY <1>1, <1>2, CatInsert
<1>5. QED
  BY <1>3, <1>4 DEF i

(* A block of one page put in the list puts its page in the pages.         *)
LEMMA PutSpread ==
  ASSUME NEW src \in Seq(Image), NEW v, Views(v, src),
         NEW e \in Blocks(Len(src)), NEW x \in Shown, v[e] = One(x),
         NEW s, NEW t, NEW p, PutAt(Len(src), s, e, t, p)
  PROVE  PageAt(Shown, Spread(v, s), x, Spread(v, t), p)
<1> DEFINE S == Blocks(Len(src))
<1>1. PICK a \in Seq(S), c \in Seq(S) :
        s = Cat(a, c) /\ t = Cat(Cat(a, One(e)), c) /\ Total(a) = p
  BY DEF PutAt
<1>2. Lists(v, S, Shown)
  BY DEF Views
<1>3. Len(Spread(v, a)) = p
  BY <1>1, SpreadLength
<1> HIDE DEF S
<1>4. e \in S
  BY DEF S
<1>5. /\ Spread(v, s) = Cat(Spread(v, a), Spread(v, c))
      /\ Spread(v, a) \in Seq(Shown) /\ Spread(v, c) \in Seq(Shown)
  BY <1>1, <1>2, SpreadCat
<1>6. Around(t, a, e, c)
  BY <1>1, CatNames
<1>7. Spread(v, t) = Cat(Cat(Spread(v, a), v[e]), Spread(v, c))
  BY <1>2, <1>4, <1>6, SpreadAround
<1>8. QED
  BY <1>3, <1>5, <1>7 DEF PageAt

(* A block of one page shows one page.                                     *)
LEMMA OnePage ==
  ASSUME NEW src \in Seq(Image), NEW v, Views(v, src),
         NEW e \in Blocks(Len(src)), PagesIn(e) = 1
  PROVE  v[e][1] \in Shown /\ v[e] = One(v[e][1])
<1>1. v[e] \in Seq(Shown) /\ Len(v[e]) = 1
  BY DEF Views, Lists
<1>2. v[e][1] \in Shown
  BY <1>1, ElementOfSeq
<1> DEFINE s == v[e]
           t == One(s[1])
<1>3. t \in Seq(Shown) /\ Len(t) = 1 /\ t[1] = s[1]
  BY <1>2, OneFacts
<1>4. s \in Seq(Shown) /\ Len(s) = 1
  BY <1>1
<1> HIDE DEF s, t
<1>5. \A k \in 1..Len(s) : s[k] = t[k]
  BY <1>3, <1>4
<1>6. s = t
  BY <1>3, <1>4, <1>5, SeqEqual
<1>7. QED
  BY <1>2, <1>6 DEF s, t

(* Where the operations put a block.                                       *)
LEMMA PutBefore ==
  ASSUME NEW n \in Nat, NEW t, NEW p, NEW i, NEW x \in Blocks(n), Holds(n, t, p, i, x),
         NEW e \in Blocks(n)
  PROVE  /\ PutAt(n, t, e, InsertAt(t, i, e), p)
         /\ PutAt(n, RemoveAt(t, i), x, t, p)
         /\ PutAt(n, RemoveAt(t, i), e, ReplaceAt(t, i, e), p)
         /\ i \in 1..Len(t) /\ t[i] = x /\ t \in Seq(Blocks(n)) /\ p \in Nat
<1> DEFINE S == Blocks(n)
<1>1. PICK a \in Seq(S), c \in Seq(S) :
        t = Cat(Cat(a, One(x)), c) /\ Total(a) = p /\ Len(a) + 1 = i
  BY DEF Holds
<1>2. Total(a) \in Nat /\ One(x) \in Seq(S)
  BY TotalCat, TotalOne
<1> HIDE DEF S
<1>3. x \in S /\ e \in S
  BY DEF S
<1>4. /\ t \in Seq(S) /\ i \in 1..Len(t) /\ t[i] = x
      /\ RemoveAt(t, i) = Cat(a, c)
      /\ ReplaceAt(t, i, e) = Cat(Cat(a, One(e)), c)
  BY <1>1, <1>3, CatEdits
<1> DEFINE xc == Cat(One(x), c)
<1>5. xc \in Seq(S) /\ t = Cat(a, xc)
  BY <1>1, <1>2, CatFacts, CatThree
<1> HIDE DEF xc
<1>6. InsertAt(t, i, e) = Cat(Cat(a, One(e)), xc)
  BY <1>1, <1>3, <1>5, CatInsert
<1>7. PutAt(n, t, e, InsertAt(t, i, e), p)
  BY <1>1, <1>5, <1>6 DEF PutAt, S
<1>8. PutAt(n, RemoveAt(t, i), x, t, p) /\ PutAt(n, RemoveAt(t, i), e, ReplaceAt(t, i, e), p)
  BY <1>1, <1>4 DEF PutAt, S
<1>9. QED
  BY <1>1, <1>2, <1>4, <1>7, <1>8 DEF S

(* AppendPage and InsertPage put a block at an end of the list.            *)
LEMMA PutAtEnds ==
  ASSUME NEW n \in Nat, NEW bs \in Seq(Blocks(n)), NEW e \in Blocks(n)
  PROVE  PutAt(n, bs, e, <<e>> \o bs, 0) /\ Append(bs, e) = Cat(bs, One(e))
<1> DEFINE S == Blocks(n)
           z == << >>
<1>1. Total(z) = 0
  <2>1. \A b \in S : PagesIn(b) \in Nat
    BY BlocksCount
  <2> HIDE DEF S
  <2>2. QED
    BY <2>1, TotalSmall
<1>2. z \in Seq(S) /\ bs = Cat(z, bs) /\ Cat(z, One(e)) = One(e)
  <2>1. z \in Seq(S) /\ Cat(z, bs) = bs
    BY CatEmpty
  <2>2. Cat(z, One(e)) = One(e)
    BY TotalOne, CatEmpty
  <2>3. QED
    BY <2>1, <2>2
<1>3. <<e>> \o bs = Cat(One(e), bs)
  BY Zenon DEF Cat, One
<1>4. Append(bs, e) = bs \o <<e>>
  BY AppendIsConcat
<1> HIDE DEF z
<1>5. <<e>> \o bs = Cat(Cat(z, One(e)), bs)
  BY <1>2, <1>3
<1>6. PutAt(n, bs, e, <<e>> \o bs, 0)
  BY <1>1, <1>2, <1>5 DEF PutAt
<1>7. QED
  BY <1>4, <1>6, Zenon DEF Cat, One

(* Two blocks that hold different pages.                                   *)
LEMMA HoldTwo ==
  ASSUME NEW n \in Nat, NEW t, NEW p, NEW i, NEW x \in Blocks(n), Holds(n, t, p, i, x),
         NEW q, NEW j, NEW y \in Blocks(n), Holds(n, t, q, j, y),
         PagesIn(x) = 1, i < j
  PROVE  /\ p < q
         /\ PutAt(n, RemoveAt(t, i), x, InsertAt(RemoveAt(t, i), j - 1, x), q - 1)
<1> DEFINE S == Blocks(n)
<1>1. PICK a \in Seq(S), c \in Seq(S) :
        t = Cat(Cat(a, One(x)), c) /\ Total(a) = p /\ Len(a) + 1 = i
  BY DEF Holds
<1>2. PICK b \in Seq(S), d \in Seq(S) :
        t = Cat(Cat(b, One(y)), d) /\ Total(b) = q /\ Len(b) + 1 = j
  BY DEF Holds
<1>3. Len(a) < Len(b) /\ Len(a) \in Nat /\ Len(b) \in Nat
  BY <1>1, <1>2, LenProperties
<1> HIDE DEF S
<1>4. x \in S /\ y \in S
  BY DEF S
<1>5. PICK e \in Seq(S) : b = Cat(Cat(a, One(x)), e) /\ c = Cat(Cat(e, One(y)), d)
  <2>1. Cat(Cat(a, One(x)), c) = Cat(Cat(b, One(y)), d)
    BY <1>1, <1>2
  <2>2. QED
    BY <1>3, <1>4, <2>1, CatTwice
<1>6. One(x) \in Seq(S) /\ One(y) \in Seq(S) /\ Total(One(x)) = 1 /\ Len(One(x)) = 1
  BY <1>4, TotalOne, OneFacts DEF S
<1> DEFINE ax == Cat(a, One(x))
           ae == Cat(a, e)
           yd == Cat(One(y), d)
<1>7. ax \in Seq(S) /\ Len(ax) = Len(a) + 1 /\ Total(ax) = Total(a) + 1
  <2> DEFINE ox == One(x)
  <2>1. ox \in Seq(S) /\ Total(ox) = 1 /\ Len(ox) = 1
    BY <1>6
  <2> HIDE DEF ox
  <2>2. Cat(a, ox) \in Seq(S) /\ Len(Cat(a, ox)) = Len(a) + Len(ox)
    BY <2>1, CatFacts
  <2>3. Total(Cat(a, ox)) = Total(a) + Total(ox)
    BY <2>1, TotalCat DEF S
  <2>4. QED
    BY <2>1, <2>2, <2>3 DEF ox
<1>8. ae \in Seq(S) /\ Len(ae) = Len(a) + Len(e) /\ Total(ae) = Total(a) + Total(e)
  BY TotalCat, CatFacts DEF S
<1>9. yd \in Seq(S)
  BY <1>6, CatFacts
<1> HIDE DEF ax
<1>10. Total(b) = Total(ax) + Total(e) /\ Len(b) = Len(ax) + Len(e)
  <2>1. b = Cat(ax, e)
    BY <1>5 DEF ax
  <2>2. Len(Cat(ax, e)) = Len(ax) + Len(e)
    BY <1>7, CatFacts
  <2>3. Total(Cat(ax, e)) = Total(ax) + Total(e)
    BY <1>7, TotalCat DEF S
  <2>4. QED
    BY <2>1, <2>2, <2>3
<1>11. Total(a) \in Nat /\ Total(e) \in Nat /\ Len(e) \in Nat
  BY TotalCat, LenProperties DEF S
<1>12. p < q /\ q - 1 = Total(ae)
  BY <1>1, <1>2, <1>7, <1>8, <1>10, <1>11, SMTT(30)
<1>13. j - 1 = Len(ae) + 1
  BY <1>2, <1>3, <1>7, <1>8, <1>10, <1>11
<1> DEFINE s == RemoveAt(t, i)
           k == j - 1
<1>14. s = Cat(a, c)
  BY <1>1, <1>4, CatEdits
<1>15. s = Cat(ae, yd)
  <2>1. c = Cat(e, yd)
    BY <1>5, <1>6, CatThree
  <2>2. Cat(a, Cat(e, yd)) = Cat(Cat(a, e), yd)
    BY <1>9, CatThree
  <2>3. QED
    BY <1>14, <2>1, <2>2
<1> HIDE DEF s, ae, yd, k
<1>16. k = Len(ae) + 1
  BY <1>13 DEF k
<1>17. InsertAt(s, k, x) = Cat(Cat(ae, One(x)), yd)
  <2>1. x \in S /\ ae \in Seq(S) /\ yd \in Seq(S)
    BY <1>4, <1>8, <1>9
  <2>2. QED
    BY <1>15, <1>16, <2>1, CatInsert
<1>18. PutAt(n, s, x, InsertAt(s, k, x), q - 1)
  BY <1>8, <1>9, <1>12, <1>15, <1>17 DEF PutAt, S
<1>19. QED
  BY <1>12, <1>18 DEF s, k

(* The same when the page goes to the front.                               *)
LEMMA HoldTwoBack ==
  ASSUME NEW n \in Nat, NEW t, NEW p, NEW i, NEW x \in Blocks(n), Holds(n, t, p, i, x),
         NEW q, NEW j, NEW y \in Blocks(n), Holds(n, t, q, j, y), j < i
  PROVE  PutAt(n, RemoveAt(t, i), x, InsertAt(RemoveAt(t, i), j, x), q)
<1> DEFINE S == Blocks(n)
<1>1. PICK a \in Seq(S), c \in Seq(S) :
        t = Cat(Cat(a, One(x)), c) /\ Total(a) = p /\ Len(a) + 1 = i
  BY DEF Holds
<1>2. PICK b \in Seq(S), d \in Seq(S) :
        t = Cat(Cat(b, One(y)), d) /\ Total(b) = q /\ Len(b) + 1 = j
  BY DEF Holds
<1>3. Len(b) < Len(a) /\ Len(a) \in Nat /\ Len(b) \in Nat
  BY <1>1, <1>2, LenProperties
<1> HIDE DEF S
<1>4. x \in S /\ y \in S
  BY DEF S
<1>5. PICK e \in Seq(S) : a = Cat(Cat(b, One(y)), e) /\ d = Cat(Cat(e, One(x)), c)
  <2>1. Cat(Cat(b, One(y)), d) = Cat(Cat(a, One(x)), c)
    BY <1>1, <1>2
  <2>2. QED
    BY <1>3, <1>4, <2>1, CatTwice
<1>6. One(y) \in Seq(S)
  BY <1>4, OneFacts
<1> DEFINE ye == Cat(One(y), e)
           yec == Cat(ye, c)
<1>7. ye \in Seq(S) /\ yec \in Seq(S)
  BY <1>6, CatFacts
<1> DEFINE s == RemoveAt(t, i)
<1>8. s = Cat(a, c)
  BY <1>1, <1>4, CatEdits
<1>9. a = Cat(b, ye)
  BY <1>5, <1>6, CatThree
<1>10. s = Cat(b, yec)
  <2> HIDE DEF ye
  <2>1. Cat(Cat(b, ye), c) = Cat(b, Cat(ye, c))
    BY <1>7, CatThree
  <2>2. QED
    BY <1>8, <1>9, <2>1
<1> HIDE DEF s, yec
<1>11. InsertAt(s, j, x) = Cat(Cat(b, One(x)), yec)
  <2>1. j = Len(b) + 1
    BY <1>2
  <2>2. QED
    BY <1>4, <1>7, <1>10, <2>1, CatInsert
<1>12. PutAt(n, s, x, InsertAt(s, j, x), q)
  BY <1>2, <1>7, <1>10, <1>11 DEF PutAt, S
<1>13. QED
  BY <1>12 DEF s
-----------------------------------------------------------------------------
(* Splitting at a position, the list holds its page in a block of its own, *)
(* the one that BlockAt finds.                                             *)
LEMMA PageHeld ==
  ASSUME NEW n \in Nat, NEW t \in Seq(Blocks(n)), NEW p \in Nat, Single(n, t, p),
         NEW i, i = BlockAt(t, p)
  PROVE  Holds(n, t, p, i, t[i]) /\ t[i] \in Blocks(n) /\ PagesIn(t[i]) = 1
<1>1. PICK x \in Blocks(n) : PagesIn(x) = 1 /\ Holds(n, t, p, i, x)
  BY SingleFound
<1>2. t[i] = x
  BY <1>1, PutBefore
<1>3. QED
  BY <1>1, <1>2

(* The pages of a list of blocks, with a source file and a cache file.     *)
PagesOf(src, c, bs) == Spread(View(src, c), bs)

(* They are as many as FindBlock counts, and splitting leaves them.        *)
LEMMA PagesOfFacts ==
  ASSUME NEW src \in Seq(Image), NEW c \in Caches, NEW bs \in Seq(Blocks(Len(src)))
  PROVE  /\ PagesOf(src, c, bs) \in Seq(Shown)
         /\ Len(PagesOf(src, c, bs)) = Total(bs)
         /\ \A p \in Nat : Within(bs, p) => PagesOf(src, c, Split(bs, p)) = PagesOf(src, c, bs)
<1> DEFINE v == View(src, c)
<1>1. Views(v, src)
  BY ViewFacts
<1> HIDE DEF v
<1>2. Spread(v, bs) \in Seq(Shown) /\ Len(Spread(v, bs)) = Total(bs)
  BY <1>1, SpreadLength
<1>3. ASSUME NEW p \in Nat, Within(bs, p) PROVE Spread(v, Split(bs, p)) = Spread(v, bs)
  BY <1>1, <1>3, SplitSpread
<1>4. QED
  BY <1>2, <1>3 DEF PagesOf, v

(* Images that no block of the list refers to do not matter to its pages.  *)
LEMMA SamePages ==
  ASSUME NEW src \in Seq(Image), NEW c \in Caches, NEW d \in Caches,
         NEW bs \in Seq(Blocks(Len(src))),
         \A r \in Refs(bs) : /\ r \in DOMAIN c.images <=> r \in DOMAIN d.images
                             /\ r \in DOMAIN c.images => c.images[r] = d.images[r]
  PROVE  PagesOf(src, c, bs) = PagesOf(src, d, bs)
<1> DEFINE v == View(src, c)
           w == View(src, d)
           B == Blocks(Len(src))
<1>1. /\ \A b \in B : IsSpan(b) => v[b] = w[b]
      /\ \A b \in B : ~IsSpan(b) => v[b] = One(ReadFile(c, b)) /\ w[b] = One(ReadFile(d, b))
  BY DEF View
<1>2. ASSUME NEW k \in 1..Len(bs) PROVE v[bs[k]] = w[bs[k]]
  <2> DEFINE b == bs[k]
  <2>1. b \in B
    BY ElementOfSeq
  <2>2. CASE IsSpan(b)
    BY <1>1, <2>1, <2>2
  <2>3. CASE ~IsSpan(b)
    <3>1. b.type = "reference"
      BY <2>1, <2>3 DEF Blocks, Block, IsSpan
    <3>2. b.val1 \in Refs(bs)
      BY <3>1 DEF Refs, RefsAt
    <3> HIDE DEF b
    <3>3. ReadFile(c, b) = ReadFile(d, b)
      BY <3>2 DEF ReadFile
    <3>4. v[b] = One(ReadFile(c, b)) /\ w[b] = One(ReadFile(d, b))
      BY <1>1, <2>1, <2>3
    <3>5. QED
      BY <3>3, <3>4 DEF b
  <2>4. QED
    BY <2>2, <2>3
<1> HIDE DEF v, w
<1>3. Spread(v, bs) = Spread(w, bs)
  BY <1>2, SpreadEqual
<1>4. QED
  BY <1>3 DEF PagesOf, v, w

(* writeFile: what is stored is what readFile gives back, and no other     *)
(* image changes.                                                          *)
LEMMA WrittenImage ==
  ASSUME NEW c \in Caches, Numbers(c), NEW image \in Image, NEW d, d = WriteFile(c, image)
  PROVE  /\ d \in Caches /\ Numbers(d)
         /\ ReadFile(d, Reference(NewRef(c), 1)) = image
         /\ \A r \in Nat : r # NewRef(c) =>
              /\ r \in DOMAIN c.images <=> r \in DOMAIN d.images
              /\ r \in DOMAIN c.images => c.images[r] = d.images[r]
<1>1. d \in Caches /\ Numbers(d) /\ NewRef(c) \in Nat
  BY WriteFacts
<1>2. d.images = [r \in DOMAIN c.images \cup {NewRef(c)} |->
                    IF r = NewRef(c) THEN image ELSE c.images[r]]
  BY DEF WriteFile, WriteAs
<1>3. ReadFile(d, Reference(NewRef(c), 1)) = image
  <2>1. Reference(NewRef(c), 1).val1 = NewRef(c) /\ Reference(NewRef(c), 1).val2 = 1
    BY DEF Reference
  <2> DEFINE k == NewRef(c)
             f == d.images
  <2>2. k \in DOMAIN f /\ f[k] = image
    BY <1>2
  <2> HIDE DEF k, f
  <2>3. QED
    BY <2>1, <2>2 DEF ReadFile, k, f
<1>4. ASSUME NEW r \in Nat, r # NewRef(c)
      PROVE  /\ r \in DOMAIN c.images <=> r \in DOMAIN d.images
             /\ r \in DOMAIN c.images => c.images[r] = d.images[r]
  BY <1>2, <1>4
<1>5. QED
  BY <1>1, <1>3, <1>4

(* deleteFile changes no other image.                                      *)
LEMMA DeletedImage ==
  ASSUME NEW c \in Caches, NEW ref \in Nat, NEW d, d = DeleteFile(c, ref)
  PROVE  \A r \in Nat : r # ref =>
           /\ r \in DOMAIN c.images <=> r \in DOMAIN d.images
           /\ r \in DOMAIN c.images => c.images[r] = d.images[r]
<1>1. CASE ref \notin DOMAIN c.images
  BY <1>1 DEF DeleteFile
<1>2. CASE ref \in DOMAIN c.images
  <2>1. c = [images |-> c.images, free |-> c.free, count |-> c.count]
    BY CachesForm
  <2>2. d.images = [r \in DOMAIN c.images \ {ref} |-> c.images[r]]
    BY <1>2, <2>1 DEF DeleteFile
  <2>3. QED
    BY <2>2
<1>3. QED
  BY <1>1, <1>2

(* References are numbers.                                                 *)
LEMMA RefsAreNumbers ==
  ASSUME NEW n \in Nat, NEW bs \in Seq(Blocks(n))
  PROVE  Refs(bs) \subseteq Nat
<1>1. \A k \in 1..Len(bs) : bs[k] \in Blocks(n)
  BY ElementOfSeq
<1>2. \A b \in Blocks(n) : b.val1 \in Nat
  BY DEF Blocks, Block
<1>3. QED
  BY <1>1, <1>2 DEF Refs, RefsAt

(* SavePageToBlock, and the block put in the list.                         *)
LEMMA PutPage ==
  ASSUME NEW src \in Seq(Image), NEW c \in Caches, Numbers(c), NEW image \in Image,
         NEW s \in Seq(Blocks(Len(src))), NewRef(c) \notin Refs(s),
         NEW e, e = Reference(NewRef(c), 1),
         NEW d, d = WriteFile(c, image)
  PROVE  /\ PagesOf(src, d, s) = PagesOf(src, c, s)
         /\ e \in Blocks(Len(src)) /\ View(src, d)[e] = One(image) /\ image \in Shown
         /\ \A t, p : PutAt(Len(src), s, e, t, p)
                        => PageAt(Shown, PagesOf(src, c, s), image, PagesOf(src, d, t), p)
<1>1. Len(src) \in Nat
  BY LenProperties
<1>2. d \in Caches /\ ReadFile(d, e) = image /\ NewRef(c) \in Nat
  BY WrittenImage, WriteFacts
<1>3. e \in Blocks(Len(src)) /\ ~IsSpan(e)
  BY <1>1, <1>2, ReferencesAreBlocks
<1>4. \A r \in Refs(s) : /\ r \in DOMAIN d.images <=> r \in DOMAIN c.images
                         /\ r \in DOMAIN d.images => d.images[r] = c.images[r]
  <2>1. Refs(s) \subseteq Nat
    BY <1>1, RefsAreNumbers
  <2>2. \A r \in Nat : r # NewRef(c) =>
              /\ r \in DOMAIN c.images <=> r \in DOMAIN d.images
              /\ r \in DOMAIN c.images => c.images[r] = d.images[r]
    BY WrittenImage
  <2>3. QED
    BY <2>1, <2>2
<1>5. PagesOf(src, d, s) = PagesOf(src, c, s)
  BY <1>2, <1>4, SamePages
<1> DEFINE v == View(src, d)
<1>6. Views(v, src) /\ v[e] = One(image)
  <2>1. Views(v, src) /\ \A b \in Blocks(Len(src)) : ~IsSpan(b) => v[b] = One(ReadFile(d, b))
    BY <1>2, ViewFacts
  <2>2. QED
    BY <1>2, <1>3, <2>1
<1>7. image \in Shown
  BY DEF Shown
<1>8. ASSUME NEW t, NEW p, PutAt(Len(src), s, e, t, p)
      PROVE  PageAt(Shown, PagesOf(src, c, s), image, PagesOf(src, d, t), p)
  <2> HIDE DEF v
  <2>1. PageAt(Shown, Spread(v, s), image, Spread(v, t), p)
    BY <1>3, <1>6, <1>7, <1>8, PutSpread
  <2>2. QED
    BY <1>5, <2>1 DEF PagesOf, v
<1>9. QED
  BY <1>3, <1>5, <1>6, <1>7, <1>8

(* A page taken out of the list, and out of the cache file when it is in   *)
(* there.                                                                  *)
LEMMA TakenPage ==
  ASSUME NEW src \in Seq(Image), NEW t, NEW c, Listed(Len(src), t, c), Owned(t, c),
         NEW e \in Blocks(Len(src)), PagesIn(e) = 1,
         NEW s, NEW p, PutAt(Len(src), s, e, t, p)
  PROVE  /\ Listed(Len(src), s, Without(c, e)) /\ Owned(s, Without(c, e))
         /\ \E x \in Shown :
              PageAt(Shown, PagesOf(src, Without(c, e), s), x, PagesOf(src, c, t), p)
<1> DEFINE n == Len(src)
           d == Without(c, e)
<1>1. n \in Nat
  BY LenProperties
<1>2. t \in Seq(Blocks(n)) /\ c \in Caches /\ Numbers(c)
  BY DEF Listed
<1>3. PutIn(n, s, e, t)
  BY CatNames DEF PutAt, PutIn
<1> HIDE DEF n
<1>4. /\ s \in Seq(Blocks(n)) /\ Pairwise(s, DistinctRefs)
      /\ Refs(s) = IF IsSpan(e) THEN Refs(t) ELSE Refs(t) \ {e.val1}
  <2>1. Pairwise(t, DistinctRefs)
    BY DEF Owned
  <2>2. e \in Blocks(n)
    BY DEF n
  <2>3. QED
    BY <1>1, <1>3, <2>1, <2>2, TakePage
<1>5. Listed(n, s, d)
  BY <1>1, <1>3, TakenListed DEF n
<1>6. e.val1 \in Nat /\ (IsSpan(e) <=> e.type # "reference")
  BY DEF Blocks, Block, IsSpan
<1>7. /\ d \in Caches
      /\ DOMAIN d.images = IF IsSpan(e) THEN DOMAIN c.images ELSE DOMAIN c.images \ {e.val1}
  BY <1>2, <1>6, DeleteFacts DEF Without
<1>8. Owned(s, d)
  BY <1>4, <1>7 DEF Owned
<1>9. \A r \in Refs(s) : /\ r \in DOMAIN d.images <=> r \in DOMAIN c.images
                         /\ r \in DOMAIN d.images => d.images[r] = c.images[r]
  <2>1. Refs(s) \subseteq Nat
    BY <1>1, <1>4, RefsAreNumbers
  <2>2. CASE IsSpan(e)
    BY <1>6, <2>2 DEF Without
  <2>3. CASE ~IsSpan(e)
    <3>1. d = DeleteFile(c, e.val1)
      BY <1>6, <2>3 DEF Without
    <3>2. \A r \in Nat : r # e.val1 =>
           /\ r \in DOMAIN c.images <=> r \in DOMAIN d.images
           /\ r \in DOMAIN c.images => c.images[r] = d.images[r]
      BY <1>2, <1>6, <3>1, DeletedImage
    <3>3. QED
      BY <1>4, <2>1, <2>3, <3>2
  <2>4. QED
    BY <2>2, <2>3
<1> HIDE DEF d
<1>10. PagesOf(src, d, s) = PagesOf(src, c, s)
  BY <1>2, <1>4, <1>7, <1>9, SamePages DEF n
<1> DEFINE v == View(src, c)
           x == v[e][1]
<1>11. Views(v, src)
  BY <1>2, ViewFacts
<1>12. x \in Shown /\ v[e] = One(x)
  <2> HIDE DEF v
  <2>1. QED
    BY <1>11, OnePage
<1>13. PageAt(Shown, Spread(v, s), x, Spread(v, t), p)
  <2> HIDE DEF v, x
  <2>1. QED
    BY <1>11, <1>12, PutSpread
<1>14. PageAt(Shown, PagesOf(src, d, s), x, PagesOf(src, c, t), p)
  <2> HIDE DEF x
  <2>1. QED
    BY <1>10, <1>13 DEF PagesOf
<1>15. QED
  BY <1>5, <1>8, <1>12, <1>14 DEF n, d
-----------------------------------------------------------------------------
(* A block of the list holds one page, so that one position is one block.  *)
LEMMA HoldSame ==
  ASSUME NEW n \in Nat, NEW t, NEW i, NEW p, NEW x \in Blocks(n), Holds(n, t, p, i, x),
         NEW q, NEW y \in Blocks(n), Holds(n, t, q, i, y)
  PROVE  p = q
<1> DEFINE S == Blocks(n)
<1>1. PICK a \in Seq(S), c \in Seq(S) :
        t = Cat(Cat(a, One(x)), c) /\ Total(a) = p /\ Len(a) + 1 = i
  BY DEF Holds
<1>2. PICK b \in Seq(S), d \in Seq(S) :
        t = Cat(Cat(b, One(y)), d) /\ Total(b) = q /\ Len(b) + 1 = i
  BY DEF Holds
<1> DEFINE xc == Cat(One(x), c)
           yd == Cat(One(y), d)
<1>3. One(x) \in Seq(S) /\ One(y) \in Seq(S)
  BY OneFacts
<1> HIDE DEF S
<1>4. xc \in Seq(S) /\ yd \in Seq(S)
  BY <1>3, CatFacts
<1>5. t = Cat(a, xc) /\ t = Cat(b, yd)
  <2> DEFINE ox == One(x)
             oy == One(y)
  <2>1. ox \in Seq(S) /\ oy \in Seq(S)
    BY <1>3
  <2> HIDE DEF ox, oy
  <2>2. Cat(Cat(a, ox), c) = Cat(a, Cat(ox, c))
    BY <2>1, CatThree
  <2>3. Cat(Cat(b, oy), d) = Cat(b, Cat(oy, d))
    BY <2>1, CatThree
  <2>4. QED
    BY <1>1, <1>2, <2>2, <2>3 DEF ox, oy
<1> HIDE DEF xc, yd
<1>6. Len(a) = Len(b)
  BY <1>1, <1>2, LenProperties
<1>7. Cat(a, xc) = Cat(b, yd)
  BY <1>5
<1>8. a = b
  BY <1>4, <1>6, <1>7, CatCancel
<1>9. QED
  BY <1>1, <1>2, <1>8

(* No block refers to the number that the next image gets.                 *)
LEMMA NewRefIsNew ==
  ASSUME NEW n, NEW bs, NEW c, Listed(n, bs, c), Owned(bs, c)
  PROVE  c \in Caches /\ Numbers(c) /\ bs \in Seq(Blocks(n)) /\ NewRef(c) \notin Refs(bs)
<1>1. c \in Caches /\ Numbers(c) /\ bs \in Seq(Blocks(n))
  BY DEF Listed
<1>2. NewRef(c) \notin DOMAIN c.images
  <2>1. PICK image : image = New(1)
    OBVIOUS
  <2>2. CASE c.free = << >>
    <3>1. NewRef(c) = c.count
      BY <2>2 DEF NewRef
    <3>2. c.count \in Nat /\ DOMAIN c.images \subseteq Nat
      BY <1>1, CachesForm
    <3>3. QED
      BY <1>1, <3>1, <3>2 DEF Numbers
  <2>3. CASE c.free # << >>
    <3>1. c.free \in Seq(Nat)
      BY <1>1, CachesForm
    <3>2. NewRef(c) = c.free[1] /\ 1 \in 1..Len(c.free)
      BY <2>3, <3>1, HeadTailProperties, EmptySeq DEF NewRef
    <3>3. QED
      BY <1>1, <3>2 DEF Numbers
  <2>4. QED
    BY <2>2, <2>3
<1>3. QED
  BY <1>1, <1>2 DEF Owned

(* AppendPage appends a page.                                              *)
LEMMA AppendedPages ==
  ASSUME NEW src \in Seq(Image), NEW bs, NEW c, Listed(Len(src), bs, c), Owned(bs, c),
         NEW image \in Image, NEW e, e = Reference(NewRef(c), 1)
  PROVE  PagesOf(src, WriteFile(c, image), Append(bs, e)) = Append(PagesOf(src, c, bs), image)
<1> DEFINE n == Len(src)
           S == Blocks(n)
           d == WriteFile(c, image)
           v == View(src, d)
<1>1. n \in Nat
  BY LenProperties
<1>2. bs \in Seq(S) /\ c \in Caches /\ Numbers(c) /\ NewRef(c) \notin Refs(bs)
  BY NewRefIsNew
<1>3. PagesOf(src, d, bs) = PagesOf(src, c, bs) /\ e \in S /\ v[e] = One(image) /\ image \in Shown
  BY <1>2, PutPage
<1>4. Append(bs, e) = Cat(bs, One(e))
  BY <1>1, <1>2, <1>3, PutAtEnds
<1>5. Lists(v, S, Shown)
  BY <1>2, WriteFacts, ViewFacts DEF Views
<1> HIDE DEF S, v
<1>6. Spread(v, Cat(bs, One(e))) = Cat(Spread(v, bs), v[e])
  BY <1>2, <1>3, <1>5, SpreadMore
<1>7. PagesOf(src, d, Append(bs, e)) = Cat(PagesOf(src, c, bs), One(image))
  BY <1>3, <1>4, <1>6 DEF PagesOf, v
<1>8. PagesOf(src, c, bs) \in Seq(Shown)
  BY <1>2, PagesOfFacts DEF S
<1> DEFINE P == PagesOf(src, c, bs)
<1> HIDE DEF P
<1>9. Append(P, image) = P \o <<image>>
  BY <1>3, <1>8, AppendIsConcat DEF P
<1>10. Append(P, image) = Cat(P, One(image))
  BY <1>9, Zenon DEF Cat, One
<1>11. QED
  BY <1>7, <1>10 DEF P, d

(* The list that InsertPage leaves.                                        *)
InsertIn(bs, t, p, e) == IF p > 0 THEN InsertAt(t, BlockAt(t, p), e) ELSE <<e>> \o bs

(* InsertPage inserts a page.                                              *)
LEMMA InsertedPages ==
  ASSUME NEW src \in Seq(Image), NEW bs, NEW c, Listed(Len(src), bs, c), Owned(bs, c),
         NEW image \in Image, NEW e, e = Reference(NewRef(c), 1),
         NEW p \in Nat, Within(bs, p), NEW t, t = Split(bs, p), NEW u,
         u = InsertIn(bs, t, p, e)
  PROVE  PagesOf(src, WriteFile(c, image), u) = InsertAt(PagesOf(src, c, bs), Place(p), image)
<1> DEFINE n == Len(src)
           S == Blocks(n)
           d == WriteFile(c, image)
           i == BlockAt(t, p)
<1>1. n \in Nat
  BY LenProperties
<1>2. bs \in Seq(S) /\ c \in Caches /\ Numbers(c) /\ NewRef(c) \notin Refs(bs)
  BY NewRefIsNew
<1>3. /\ Alike(n, bs, t) /\ Single(n, t, p)
      /\ t \in Seq(S) /\ Refs(t) = Refs(bs)
  BY <1>1, <1>2, SplitFacts DEF Alike
<1>4. e \in S /\ image \in Shown
  BY <1>2, PutPage
<1>5. PagesOf(src, c, t) = PagesOf(src, c, bs)
  BY <1>2, PagesOfFacts
<1>6. PutAt(n, t, e, InsertAt(t, i, e), p)
  <2>1. Holds(n, t, p, i, t[i]) /\ t[i] \in S
    BY <1>1, <1>3, PageHeld
  <2> HIDE DEF i
  <2>2. QED
    BY <1>1, <1>4, <2>1, PutBefore
<1> DEFINE P == PagesOf(src, c, bs)
           Q == PagesOf(src, d, u)
<1>7. PageAt(Shown, P, image, Q, p)
  <2>1. CASE p > 0
    <3>1. u = InsertAt(t, i, e)
      BY <2>1 DEF InsertIn
    <3>2. PutAt(n, t, e, u, p)
      BY <1>6, <3>1
    <3>3. PageAt(Shown, PagesOf(src, c, t), image, PagesOf(src, d, u), p)
      BY <1>2, <1>3, <3>2, PutPage
    <3>4. QED
      BY <1>5, <3>3
  <2>2. CASE ~(p > 0)
    <3>1. u = <<e>> \o bs /\ p = 0
      BY <2>2 DEF InsertIn
    <3>2. PutAt(n, bs, e, u, p)
      BY <1>1, <1>2, <1>4, <3>1, PutAtEnds
    <3>3. PageAt(Shown, PagesOf(src, c, bs), image, PagesOf(src, d, u), p)
      BY <1>2, <3>2, PutPage
    <3>4. QED
      BY <3>3
  <2>3. QED
    BY <2>1, <2>2
<1> HIDE DEF P, Q
<1>8. InsertAt(P, Place(p), image) = Q
  BY <1>4, <1>7, PageEdits
<1>9. QED
  BY <1>8 DEF P, Q, d

(* DeletePage and UnlockPage take the page at the position out of the list *)
(* and of the cache file.                                                  *)
LEMMA OutPage ==
  ASSUME NEW src \in Seq(Image), NEW bs, NEW c, Listed(Len(src), bs, c), Owned(bs, c),
         NEW p \in Nat, Within(bs, p), NEW t, t = Split(bs, p), NEW i, i = BlockAt(t, p),
         NEW s, s = RemoveAt(t, i), NEW d, d = Without(c, t[i])
  PROVE  /\ Listed(Len(src), s, d) /\ Owned(s, d)
         /\ Holds(Len(src), t, p, i, t[i]) /\ t[i] \in Blocks(Len(src))
         /\ \E x \in Shown : PageAt(Shown, PagesOf(src, d, s), x, PagesOf(src, c, bs), p)
<1> DEFINE n == Len(src)
           S == Blocks(n)
<1>1. n \in Nat
  BY LenProperties
<1>2. bs \in Seq(S) /\ c \in Caches /\ Numbers(c)
  BY NewRefIsNew
<1>3. Alike(n, bs, t) /\ Single(n, t, p)
  BY <1>1, <1>2, SplitFacts
<1>4. /\ t \in Seq(S) /\ Refs(t) = Refs(bs)
      /\ Pairwise(bs, DistinctRefs) => Pairwise(t, DistinctRefs)
  BY <1>3 DEF Alike
<1>5. Listed(n, t, c) /\ Owned(t, c)
  BY <1>3, <1>4, AlikeListed DEF Owned
<1>6. Holds(n, t, p, i, t[i]) /\ t[i] \in S /\ PagesIn(t[i]) = 1
  BY <1>1, <1>3, <1>4, PageHeld
<1>7. PutAt(n, s, t[i], t, p)
  BY <1>1, <1>6, PutBefore
<1>8. PagesOf(src, c, t) = PagesOf(src, c, bs)
  BY <1>2, PagesOfFacts
<1>9. /\ Listed(n, s, d) /\ Owned(s, d)
      /\ \E x \in Shown : PageAt(Shown, PagesOf(src, d, s), x, PagesOf(src, c, t), p)
  BY <1>5, <1>6, <1>7, TakenPage
<1>10. QED
  BY <1>6, <1>8, <1>9

(* DeletePage deletes the page.                                            *)
LEMMA DeletedPages ==
  ASSUME NEW src \in Seq(Image), NEW bs, NEW c, Listed(Len(src), bs, c), Owned(bs, c),
         NEW p \in Nat, Within(bs, p), NEW t, t = Split(bs, p), NEW i, i = BlockAt(t, p),
         NEW s, s = RemoveAt(t, i), NEW d, d = Without(c, t[i])
  PROVE  PagesOf(src, d, s) = RemoveAt(PagesOf(src, c, bs), Place(p))
<1> DEFINE P == PagesOf(src, d, s)
           Q == PagesOf(src, c, bs)
<1>1. PICK x \in Shown : PageAt(Shown, P, x, Q, p)
  BY OutPage
<1> HIDE DEF P, Q
<1>2. RemoveAt(Q, Place(p)) = P
  BY <1>1, PageEdits
<1>3. QED
  BY <1>2 DEF P, Q

(* UnlockPage of a changed page replaces it.                               *)
LEMMA ReplacedPages ==
  ASSUME NEW src \in Seq(Image), NEW bs, NEW c, Listed(Len(src), bs, c), Owned(bs, c),
         NEW p \in Nat, Within(bs, p), NEW t, t = Split(bs, p), NEW i, i = BlockAt(t, p),
         NEW d, d = Without(c, t[i]), NEW image \in Image, NEW e, e = Reference(NewRef(d), 1)
  PROVE  PagesOf(src, WriteFile(d, image), ReplaceAt(t, i, e))
           = ReplaceAt(PagesOf(src, c, bs), Place(p), image)
<1> DEFINE n == Len(src)
           S == Blocks(n)
           s == RemoveAt(t, i)
           u == ReplaceAt(t, i, e)
           P == PagesOf(src, d, s)
           Q == PagesOf(src, c, bs)
           R == PagesOf(src, WriteFile(d, image), u)
<1>1. n \in Nat
  BY LenProperties
<1>2. /\ Listed(n, s, d) /\ Owned(s, d)
      /\ Holds(n, t, p, i, t[i]) /\ t[i] \in S
      /\ \E x \in Shown : PageAt(Shown, P, x, Q, p)
  BY OutPage
<1>3. s \in Seq(S) /\ d \in Caches /\ Numbers(d) /\ NewRef(d) \notin Refs(s)
  <2> HIDE DEF s, n
  <2>1. QED
    BY <1>2, NewRefIsNew
<1>4. e \in S /\ image \in Shown
  BY <1>3, PutPage
<1>5. PutAt(n, s, e, u, p)
  BY <1>1, <1>2, <1>4, PutBefore
<1>6. PageAt(Shown, P, image, R, p)
  <2> HIDE DEF s, u
  <2>1. QED
    BY <1>3, <1>5, PutPage
<1>7. PICK x \in Shown : PageAt(Shown, P, x, Q, p)
  BY <1>2
<1> HIDE DEF P, Q, R
<1>8. ReplaceAt(Q, Place(p), image) = InsertAt(P, Place(p), image)
  BY <1>4, <1>7, PageReplaced
<1>9. InsertAt(P, Place(p), image) = R
  BY <1>4, <1>6, PageEdits
<1>10. QED
  BY <1>8, <1>9 DEF Q, R, u

(* MovePage moves the page at the first position before the one at the     *)
(* second.                                                                 *)
LEMMA MovedPages ==
  ASSUME NEW src \in Seq(Image), NEW bs \in Seq(Blocks(Len(src))), NEW c \in Caches,
         NEW p \in Nat, Within(bs, p), NEW q \in Nat, Within(bs, q), p # q,
         NEW t, t = Split(Split(bs, p), q),
         NEW i, i = BlockAt(t, p), NEW j, j = BlockAt(t, q),
         NEW P, P = PagesOf(src, c, bs)
  PROVE  PagesOf(src, c, InsertAt(RemoveAt(t, i), IF i < j THEN j - 1 ELSE j, t[i]))
           = InsertAt(RemoveAt(P, Place(p)), IF p < q THEN q ELSE q + 1, P[Place(p)])
<1> DEFINE n == Len(src)
           S == Blocks(n)
           m == Split(bs, p)
<1>1. n \in Nat
  BY LenProperties
<1>2. Alike(n, bs, m) /\ Single(n, m, p) /\ m \in Seq(S) /\ Total(m) = Total(bs)
  BY <1>1, SplitFacts DEF Alike
<1>3. Within(m, q)
  BY <1>2 DEF Within
<1> HIDE DEF m
<1>4. t = Split(m, q)
  BY DEF m
<1>5. Alike(n, m, t) /\ Single(n, t, q) /\ t \in Seq(S)
  BY <1>1, <1>2, <1>3, <1>4, SplitFacts DEF Alike
<1>6. Single(n, t, p)
  BY <1>1, <1>2, <1>3, <1>4, SplitKeepsSingle
<1>7. PagesOf(src, c, t) = P
  <2>1. PagesOf(src, c, Split(bs, p)) = PagesOf(src, c, bs)
    BY PagesOfFacts
  <2>2. PagesOf(src, c, Split(m, q)) = PagesOf(src, c, m)
    BY <1>2, <1>3, PagesOfFacts
  <2>3. QED
    BY <1>4, <2>1, <2>2 DEF m
<1>8. Holds(n, t, p, i, t[i]) /\ t[i] \in S /\ PagesIn(t[i]) = 1
  BY <1>1, <1>5, <1>6, PageHeld
<1>9. Holds(n, t, q, j, t[j]) /\ t[j] \in S /\ PagesIn(t[j]) = 1
  BY <1>1, <1>5, PageHeld
<1> DEFINE x == t[i]
           s == RemoveAt(t, i)
           k == IF i < j THEN j - 1 ELSE j
           u == InsertAt(s, k, x)
           v == View(src, c)
           y == v[x][1]
           Q == PagesOf(src, c, s)
           R == PagesOf(src, c, u)
           to == IF p < q THEN q - 1 ELSE q
<1>10. i \in Nat /\ j \in Nat
  <2>1. i \in 1..Len(t) /\ j \in 1..Len(t)
    BY <1>1, <1>8, <1>9, PutBefore
  <2>2. QED
    BY <2>1
<1>11. PutAt(n, s, x, t, p)
  BY <1>1, <1>8, PutBefore
<1>12. PutAt(n, s, x, u, to)
  <2>1. CASE i < j
    <3>1. p < q /\ PutAt(n, RemoveAt(t, i), x, InsertAt(RemoveAt(t, i), j - 1, x), q - 1)
      BY <1>1, <1>8, <1>9, <2>1, HoldTwo
    <3>2. k = j - 1 /\ to = q - 1
      BY <2>1, <3>1
    <3> HIDE DEF k, to, x
    <3>3. QED
      BY <3>1, <3>2
  <2>2. CASE j < i
    <3>1. q < p
      BY <1>1, <1>8, <1>9, <2>2, HoldTwo
    <3>2. PutAt(n, RemoveAt(t, i), x, InsertAt(RemoveAt(t, i), j, x), q)
      BY <1>1, <1>8, <1>9, <2>2, HoldTwoBack
    <3>3. k = j /\ to = q
      BY <1>10, <2>2, <3>1
    <3> HIDE DEF k, to, x
    <3>4. QED
      BY <3>2, <3>3
  <2>3. CASE i = j
    <3>1. p = q
      BY <1>1, <1>8, <1>9, <2>3, HoldSame
    <3>2. QED
      BY <3>1
  <2>4. QED
    BY <1>10, <2>1, <2>2, <2>3
<1>13. Views(v, src)
  BY ViewFacts
<1> HIDE DEF v
<1>14. y \in Shown /\ v[x] = One(y)
  BY <1>8, <1>13, OnePage
<1> HIDE DEF x, s, k, u, to, y
<1>15. x \in S
  BY <1>8 DEF x
<1>16. PageAt(Shown, Spread(v, s), y, Spread(v, t), p)
  BY <1>11, <1>13, <1>14, <1>15, PutSpread
<1>17. PageAt(Shown, Spread(v, s), y, Spread(v, u), to)
  BY <1>12, <1>13, <1>14, <1>15, PutSpread
<1>18. PageAt(Shown, Q, y, P, p) /\ PageAt(Shown, Q, y, R, to)
  BY <1>7, <1>16, <1>17 DEF PagesOf, v
<1> HIDE DEF Q, R
<1>19. P[Place(p)] = y /\ RemoveAt(P, Place(p)) = Q
  BY <1>14, <1>18, PageEdits
<1>20. InsertAt(Q, Place(to), y) = R
  BY <1>14, <1>18, PageEdits
<1>21. Place(to) = IF p < q THEN q ELSE q + 1
  BY DEF to, Place
<1>22. R = InsertAt(RemoveAt(P, Place(p)), Place(to), P[Place(p)])
  BY <1>19, <1>20
<1>23. QED
  BY <1>21, <1>22 DEF R, u, s, k, x
-----------------------------------------------------------------------------
(* How far saving has come: all pages of the blocks before block k, and    *)
(* the first pages of block k, which is a span when there are some.        *)
BegunOf(src, b, page) ==
  IF page = 0 THEN << >> ELSE Run(src, b.val1, b.val1 + page - 1)
WrittenOf(src, c, bs, k, page) ==
  Cat(PagesOf(src, c, SubSeq(bs, 1, k - 1)), BegunOf(src, bs[k], page))

(* A run of pages and the next page.                                       *)
LEMMA RunMore ==
  ASSUME NEW S, NEW src \in Seq(S), NEW lo \in Nat, NEW mid \in Int, lo - 1 <= mid,
         NEW next, next = mid + 1, next < Len(src)
  PROVE  /\ Cat(Run(src, lo, mid), One(src[next + 1])) = Run(src, lo, next)
         /\ Run(src, lo, next) \in Seq(S)
<1>1. next \in Nat /\ Len(src) \in Nat /\ mid <= next /\ lo - 1 <= next
  BY LenProperties
<1>2. Cat(Run(src, lo, mid), Run(src, next, next)) = Run(src, lo, next)
  BY <1>1, RunCut
<1>3. Run(src, next, next) = One(src[next + 1])
  <2>1. next - next + 1 = 1
    BY <1>1
  <2> DEFINE r == Run(src, next, next)
             t == One(src[next + 1])
  <2>2. r = [k \in 1..1 |-> src[next + k]]
    BY <2>1 DEF Run
  <2>3. src[next + 1] \in S
    BY <1>1, ElementOfSeq
  <2>4. r \in Seq(S) /\ Len(r) = 1 /\ r[1] = src[next + 1]
    <3>1. PICK hi : hi = next
      OBVIOUS
    <3>2. Run(src, next, hi) \in Seq(S) /\ Len(Run(src, next, hi)) = hi - next + 1
      <4>1. hi \in Int /\ next - 1 <= hi /\ hi < Len(src)
        BY <1>1, <3>1
      <4>2. QED
        BY <1>1, <4>1, RunFacts
    <3>3. r[1] = src[next + 1]
      BY <2>2
    <3>4. QED
      BY <1>1, <3>1, <3>2, <3>3
  <2>5. t \in Seq(S) /\ Len(t) = 1 /\ t[1] = src[next + 1]
    BY <2>3, OneFacts
  <2> HIDE DEF r, t
  <2>6. \A k \in 1..Len(r) : r[k] = t[k]
    BY <2>4, <2>5
  <2>7. r = t
    BY <2>4, <2>5, <2>6, SeqEqual
  <2>8. QED
    BY <2>7 DEF r, t
<1>4. Run(src, lo, next) \in Seq(S)
  BY <1>1, RunFacts
<1>5. QED
  BY <1>2, <1>3, <1>4

(* The first blocks of a list, and one more.                               *)
LEMMA FirstBlocks ==
  ASSUME NEW S, NEW bs \in Seq(S), NEW k \in 1..Len(bs), NEW next, next = k + 1
  PROVE  /\ SubSeq(bs, 1, k - 1) \in Seq(S) /\ bs[k] \in S
         /\ SubSeq(bs, 1, next - 1) = Cat(SubSeq(bs, 1, k - 1), One(bs[k]))
<1>1. Len(bs) \in Nat
  BY LenProperties
<1> DEFINE a == SubSeq(bs, 1, k - 1)
           c == SubSeq(bs, k + 1, Len(bs))
           x == bs[k]
           d == Cat(a, One(x))
<1>2. /\ a \in Seq(S) /\ Len(a) = k - 1 /\ c \in Seq(S) /\ x \in S
      /\ bs = (a \o <<x>>) \o c
  BY SeqAround
<1> HIDE DEF a, c, x
<1>3. One(x) \in Seq(S) /\ Len(One(x)) = 1
  BY <1>2, OneFacts
<1>4. d \in Seq(S) /\ Len(d) = Len(a) + Len(One(x))
  BY <1>2, <1>3, CatFacts
<1>5. bs = d \o c
  BY <1>2, Zenon DEF d, Cat, One
<1>6. Len(d) = k
  BY <1>2, <1>3, <1>4
<1> HIDE DEF d
<1>7. SubSeq(bs, 1, Len(d)) = d
  BY <1>2, <1>4, <1>5, SeqHalves
<1>8. next - 1 = k
  OBVIOUS
<1>9. QED
  BY <1>2, <1>6, <1>7, <1>8 DEF a, x, d

(* Saving starts with nothing and ends with all pages.                     *)
LEMMA WrittenEnds ==
  ASSUME NEW src \in Seq(Image), NEW c \in Caches, NEW bs \in Seq(Blocks(Len(src)))
  PROVE  /\ WrittenOf(src, c, bs, 1, 0) = << >>
         /\ \A k : k = Len(bs) + 1 => WrittenOf(src, c, bs, k, 0) = PagesOf(src, c, bs)
<1> DEFINE z == << >>
<1>1. \A b : BegunOf(src, b, 0) = z
  BY DEF BegunOf
<1>2. SubSeq(bs, 1, 0) = z
  BY SubSeqEmpty, EmptySeq
<1>3. PagesOf(src, c, z) = z
  BY SpreadEmpty DEF PagesOf
<1>4. Cat(z, z) = z
  BY EmptySeq, CatEmpty
<1>5. SubSeq(bs, 1, Len(bs)) = bs /\ Len(bs) \in Nat
  BY SubSeqFull, LenProperties
<1>6. PagesOf(src, c, bs) \in Seq(Shown)
  BY PagesOfFacts
<1>7. Cat(PagesOf(src, c, bs), z) = PagesOf(src, c, bs)
  BY <1>6, CatEmpty
<1> HIDE DEF z
<1>8. WrittenOf(src, c, bs, 1, 0) = z
  <2>1. 1 - 1 = 0
    OBVIOUS
  <2>2. QED
    BY <1>1, <1>2, <1>3, <1>4, <2>1 DEF WrittenOf
<1>9. ASSUME NEW k, k = Len(bs) + 1 PROVE WrittenOf(src, c, bs, k, 0) = PagesOf(src, c, bs)
  <2>1. k - 1 = Len(bs)
    BY <1>5, <1>9
  <2>2. QED
    BY <1>1, <1>5, <1>7, <2>1 DEF WrittenOf
<1>10. QED
  BY <1>8, <1>9 DEF z

(* A block adds its pages.                                                 *)
LEMMA WrittenBlock ==
  ASSUME NEW src \in Seq(Image), NEW c \in Caches, NEW bs \in Seq(Blocks(Len(src))),
         NEW k \in 1..Len(bs), NEW next, next = k + 1
  PROVE  /\ WrittenOf(src, c, bs, next, 0)
              = Cat(PagesOf(src, c, SubSeq(bs, 1, k - 1)), View(src, c)[bs[k]])
         /\ PagesOf(src, c, SubSeq(bs, 1, k - 1)) \in Seq(Shown)
         /\ bs[k] \in Blocks(Len(src)) /\ View(src, c)[bs[k]] \in Seq(Shown)
<1> DEFINE S == Blocks(Len(src))
           v == View(src, c)
           a == SubSeq(bs, 1, k - 1)
           x == bs[k]
           z == << >>
<1>1. a \in Seq(S) /\ x \in S /\ SubSeq(bs, 1, next - 1) = Cat(a, One(x))
  BY FirstBlocks
<1>2. Lists(v, S, Shown)
  BY ViewFacts DEF Views
<1>3. BegunOf(src, bs[next], 0) = z
  BY DEF BegunOf
<1> HIDE DEF S, v, a, x
<1>4. Spread(v, Cat(a, One(x))) = Cat(Spread(v, a), v[x])
  BY <1>1, <1>2, SpreadMore
<1>5. Spread(v, a) \in Seq(Shown) /\ v[x] \in Seq(Shown)
  BY <1>1, <1>2, SpreadType DEF Lists
<1> DEFINE w == v[x]
           y == Spread(v, a)
<1>6. Cat(y, w) \in Seq(Shown)
  BY <1>5, CatFacts
<1>7. Cat(Cat(y, w), z) = Cat(y, w)
  <2> HIDE DEF y, w
  <2>1. QED
    BY <1>6, CatEmpty
<1> HIDE DEF z
<1>8. WrittenOf(src, c, bs, next, 0) = Cat(Spread(v, Cat(a, One(x))), z)
  BY <1>1, <1>3 DEF WrittenOf, PagesOf, v
<1>9. QED
  BY <1>1, <1>4, <1>5, <1>7, <1>8 DEF PagesOf, v, a, x, S

(* One page saved: the next one of what the block shows.                   *)
LEMMA WrittenMore ==
  ASSUME NEW src \in Seq(Image), NEW c \in Caches, NEW bs \in Seq(Blocks(Len(src))),
         NEW k \in 1..Len(bs), NEW b, b = bs[k], NEW page \in Nat, page < PagesIn(b),
         NEW next, next = k + 1, NEW more, more = page + 1,
         NEW image, image = View(src, c)[b][more]
  PROVE  Cat(WrittenOf(src, c, bs, k, page), One(image))
           = IF more >= PagesIn(b) THEN WrittenOf(src, c, bs, next, 0)
                                   ELSE WrittenOf(src, c, bs, k, more)
<1> DEFINE v == View(src, c)
           y == PagesOf(src, c, SubSeq(bs, 1, k - 1))
           g == BegunOf(src, b, page)
           z == << >>
           out == Cat(WrittenOf(src, c, bs, k, page), One(image))
<1>1. /\ WrittenOf(src, c, bs, next, 0) = Cat(y, v[b])
      /\ y \in Seq(Shown) /\ b \in Blocks(Len(src)) /\ v[b] \in Seq(Shown)
  BY WrittenBlock
<1>2. Views(v, src) /\ (~IsSpan(b) => v[b] = One(ReadFile(c, b)))
  BY <1>1, ViewFacts
<1>3. WrittenOf(src, c, bs, k, page) = Cat(y, g)
  BY DEF WrittenOf
<1>4. image \in Shown
  <2>1. Len(v[b]) = PagesIn(b)
    BY <1>1, <1>2 DEF Views
  <2>2. PagesIn(b) \in Nat
    BY <1>1, BlocksCount, LenProperties
  <2>3. more \in 1..Len(v[b])
    BY <2>1, <2>2
  <2>4. QED
    BY <1>1, <2>3, ElementOfSeq
<1>5. CASE ~IsSpan(b)
  <2>1. PagesIn(b) = 1
    BY <1>5 DEF PagesIn, IsSpan
  <2>2. page = 0 /\ more = 1
    BY <2>1
  <2>3. g = z
    BY <2>2 DEF BegunOf
  <2>4. image = ReadFile(c, b) /\ v[b] = One(ReadFile(c, b))
    BY <1>2, <1>5, <2>2 DEF One
  <2> HIDE DEF y, v, g, z
  <2>5. Cat(y, z) = y
    BY <1>1, CatEmpty DEF z
  <2>6. out = Cat(y, v[b])
    BY <1>3, <2>3, <2>4, <2>5
  <2>7. QED
    BY <1>1, <2>1, <2>2, <2>6
<1>6. CASE IsSpan(b)
  <2> DEFINE lo == b.val1
             hi == b.val2
             mid == lo + page - 1
             item == mid + 1
             last == Run(src, lo, item)
  <2>1. v[b] = Run(src, lo, hi)
    BY <1>1, <1>2, <1>6 DEF Views
  <2>2. lo \in Nat /\ hi \in Int /\ hi < Len(src) /\ PagesIn(b) = hi - lo + 1
        /\ Len(src) \in Nat
    BY <1>1, <1>6, LenProperties DEF Blocks, Block, IsSpan, PagesIn
  <2>3. g = Run(src, lo, mid)
    <3>1. CASE page = 0
      <4>1. g = z
        BY <3>1 DEF BegunOf
      <4> HIDE DEF lo
      <4>2. mid - lo + 1 = 0
        BY <2>2, <3>1
      <4> HIDE DEF mid
      <4>3. Run(src, lo, mid) = z
        BY <4>2 DEF Run
      <4>4. QED
        BY <4>1, <4>3
    <3>2. CASE page # 0
      BY <3>2 DEF BegunOf
    <3>3. QED
      BY <3>1, <3>2
  <2> HIDE DEF lo, hi
  <2>4. /\ mid \in Int /\ lo - 1 <= mid /\ item = mid + 1 /\ item < Len(src)
        /\ item = lo + page /\ lo - 1 <= item /\ item <= hi /\ item \in Nat
    BY <2>2
  <2> HIDE DEF mid, item
  <2>5. image = src[item + 1]
    <3>1. Run(src, lo, hi)[more] = src[lo + more]
      <4>1. more \in 1..(hi - lo + 1)
        BY <2>2
      <4>2. QED
        BY <4>1 DEF Run
    <3>2. lo + more = item + 1
      BY <2>2, <2>4
    <3>3. QED
      BY <2>1, <3>1, <3>2
  <2>6. src \in Seq(Shown)
    BY SeqMonotonic DEF Shown
  <2>7. Cat(g, One(image)) = last /\ last \in Seq(Shown)
    BY <2>2, <2>3, <2>4, <2>5, <2>6, RunMore
  <2>8. g \in Seq(Shown)
    <3>1. mid < Len(src)
      BY <2>2, <2>4
    <3>2. QED
      BY <2>2, <2>3, <2>4, <2>6, <3>1, RunFacts
  <2>9. out = Cat(y, last)
    <3>1. One(image) \in Seq(Shown)
      BY <1>4, OneFacts
    <3> DEFINE o == One(image)
    <3> HIDE DEF y, g, o, last
    <3>2. Cat(Cat(y, g), o) = Cat(y, Cat(g, o))
      BY <1>1, <2>8, <3>1, CatThree DEF o
    <3>3. QED
      BY <1>3, <2>7, <3>2 DEF o
  <2>10. CASE more >= PagesIn(b)
    <3>1. item = hi
      BY <2>2, <2>4, <2>10, SMTT(30)
    <3>2. last = v[b]
      BY <2>1, <3>1
    <3> HIDE DEF v, y, out, last
    <3>3. QED
      BY <1>1, <2>9, <2>10, <3>2 DEF out
  <2>11. CASE ~(more >= PagesIn(b))
    <3>1. more # 0 /\ lo + more - 1 = item
      BY <2>2, <2>4
    <3>2. BegunOf(src, b, more) = last
      BY <3>1 DEF BegunOf, lo
    <3>3. WrittenOf(src, c, bs, k, more) = Cat(y, last)
      BY <3>2 DEF WrittenOf
    <3> HIDE DEF y, out, last
    <3>4. QED
      BY <2>9, <2>11, <3>3 DEF out
  <2>12. QED
    BY <2>10, <2>11
<1>7. QED
  BY <1>5, <1>6

(* A span without pages adds none.                                         *)
LEMMA WrittenSame ==
  ASSUME NEW src \in Seq(Image), NEW c \in Caches, NEW bs \in Seq(Blocks(Len(src))),
         NEW k \in 1..Len(bs), NEW b, b = bs[k], PagesIn(b) = 0, NEW next, next = k + 1
  PROVE  WrittenOf(src, c, bs, k, 0) = WrittenOf(src, c, bs, next, 0)
<1> DEFINE v == View(src, c)
           y == PagesOf(src, c, SubSeq(bs, 1, k - 1))
           z == << >>
<1>1. /\ WrittenOf(src, c, bs, next, 0) = Cat(y, v[b])
      /\ y \in Seq(Shown) /\ b \in Blocks(Len(src)) /\ v[b] \in Seq(Shown)
  BY WrittenBlock
<1>2. v[b] = z
  <2>1. Len(v[b]) = 0
    BY <1>1, ViewFacts DEF Views
  <2>2. QED
    BY <1>1, <2>1, EmptySeq
<1>3. BegunOf(src, b, 0) = z
  BY DEF BegunOf
<1>4. WrittenOf(src, c, bs, k, 0) = Cat(y, z)
  BY <1>3 DEF WrittenOf
<1>5. QED
  BY <1>1, <1>2, <1>4

(* BitmapPages as the pages of the list.                                   *)
LEMMA BitmapOf ==
  ASSUME NEW src \in Seq(Image), NEW c \in Caches, NEW bs \in Seq(Blocks(Len(src)))
  PROVE  /\ FlattenSeq([i \in DOMAIN bs |->
              IF bs[i].type = "continueus" THEN [k \in 1..PagesIn(bs[i]) |-> src[bs[i].val1 + k]]
                                           ELSE <<ReadFile(c, bs[i])>>])
             = PagesOf(src, c, bs)
         /\ \A b \in Blocks(Len(src)) :
              View(src, c)[b] =
                IF b.type = "continueus" THEN [k \in 1..PagesIn(b) |-> src[b.val1 + k]]
                                         ELSE <<ReadFile(c, b)>>
<1> DEFINE v == View(src, c)
           Pages1(b) == IF b.type = "continueus" THEN [k \in 1..PagesIn(b) |-> src[b.val1 + k]]
                                                 ELSE <<ReadFile(c, b)>>
<1>1. ASSUME NEW b \in Blocks(Len(src)) PROVE v[b] = Pages1(b)
  BY DEF View, Run, One, IsSpan, PagesIn
<1>2. \A i \in 1..Len(bs) : bs[i] \in Blocks(Len(src))
  BY ElementOfSeq
<1>3. DOMAIN bs = 1..Len(bs)
  BY LenProperties
<1> HIDE DEF v, Pages1
<1>4. [i \in DOMAIN bs |-> Pages1(bs[i])] = [i \in 1..Len(bs) |-> v[bs[i]]]
  BY <1>1, <1>2, <1>3
<1>5. FlattenSeq([i \in DOMAIN bs |-> Pages1(bs[i])]) = Spread(v, bs)
  BY <1>4 DEF Spread
<1>6. QED
  BY <1>1, <1>5 DEF Pages1, PagesOf, v
-----------------------------------------------------------------------------
(* All of it, each in its place, but for what may be missing.              *)
Nearly(missing, out, all) ==
  /\ Len(out) = Len(all)
  /\ \A i \in 1..Len(all) : out[i] = all[i] \/ (i \in missing /\ out[i] = Missing)

(* What is in which file, whatever fails: what has been saved so far, what *)
(* the spool file holds, and what closing returned.                        *)
SavedInv ==
  phase = "saving" =>
    /\ save.block \in 1..(Len(blocks) + 1)
    /\ Len(save.out) = PagesThrough(blocks)[save.block - 1] + save.page
    /\ save.success \/ save.page # 0
         => Nearly(Unnoticed, save.out,
                   WrittenOf(source, cache, blocks, save.block, save.page))
    /\ save.target = "spool" => spool = save.out /\ FileBacked /\ changed
SpooledInv ==
  phase \in {"spooled", "removed"} =>
    /\ Nearly(Unnoticed, spool, BitmapPages)
    /\ spool \in Files /\ FileBacked /\ changed /\ save.target = "spool"
FileInv ==
  /\ phase \notin {"removed", "closed"} => file = Original
  /\ phase = "removed" => file \in {Original, Absent}
  /\ phase = "closed" => DocumentKept
ResultInv == phase # "closed" => result = "none"
KeptInv == SavedInv /\ SpooledInv /\ FileInv /\ ResultInv

(* The inductive invariant of the refinement: an unchanged bitmap is what  *)
(* is on disk, and saving is what was called.                              *)
DocumentInv == FileBacked /\ ~changed => Document = BitmapPages
CallInv ==
  /\ phase = "saving" => call.op = IF save.target = "spool" THEN "close" ELSE "save"
  /\ phase \in {"spooled", "removed"} => call.op = "close"
PromiseInv == Inv /\ KeptInv /\ DocumentInv /\ CallInv
Promised == [Sequence!Next]_<<Sequence!seqVars, call>>

(* The pages of the bitmap, now and after a step.                          *)
LEMMA BitmapNow ==
  ASSUME Inv
  PROVE  /\ BitmapPages = PagesOf(source, cache, blocks)
         /\ BitmapPages \in Seq(Shown) /\ Len(BitmapPages) = Total(blocks)
         /\ source \in Seq(Image) /\ cache \in Caches /\ Numbers(cache)
         /\ blocks \in Seq(Blocks(Len(source))) /\ Len(source) \in Nat /\ Total(blocks) \in Nat
         /\ Listed(Len(source), blocks, cache)
         /\ "encode" \notin Failures => Owned(blocks, cache)
         /\ CountPages = Total(blocks)
         /\ \A b \in Blocks(Len(source)) : BlockPages(b) = View(source, cache)[b]
<1>1. /\ Len(source) \in Nat
      /\ Listed(Len(source), blocks, cache)
      /\ blocks \in Seq(Blocks(Len(source))) /\ Total(blocks) \in Nat
      /\ cache \in Caches /\ Numbers(cache)
      /\ CountPages = Total(blocks)
  BY EditStart
<1>2. source \in Seq(Image)
  BY StartTypes
<1>3. "encode" \notin Failures => Owned(blocks, cache)
  BY <1>1 DEF Listed
<1>4. /\ BitmapPages = PagesOf(source, cache, blocks)
      /\ \A b \in Blocks(Len(source)) : BlockPages(b) = View(source, cache)[b]
  BY <1>1, <1>2, BitmapOf DEF BitmapPages, BlockPages
<1>5. /\ PagesOf(source, cache, blocks) \in Seq(Shown)
      /\ Len(PagesOf(source, cache, blocks)) = Total(blocks)
  BY <1>1, <1>2, PagesOfFacts
<1>6. QED
  BY <1>1, <1>2, <1>3, <1>4, <1>5

(* The pages of the bitmap after a step, by the list it leaves.            *)
LEMMA BitmapNext ==
  ASSUME Inv'
  PROVE  BitmapPages' = PagesOf(source', cache', blocks')
<1>1. source' \in Seq(Image)
  BY DEF Inv, VariablesOK, Pages
<1>2. blocks' \in Seq(Blocks(Len(source'))) /\ cache' \in Caches
  BY DEF Inv, ListInv, Listed
<1>3. QED
  BY <1>1, <1>2, BitmapOf DEF BitmapPages, BlockPages

(* Nothing is missing from the whole.                                      *)
LEMMA WholeIsComplete ==
  \A missing, all : Nearly(missing, all, all)
BY DEF Nearly

(* Complete is what Nearly says of the pages of the bitmap.                *)
LEMMA CompleteIs ==
  \A saved : Sequence!Complete(saved) <=> Nearly(Unnoticed, saved, BitmapPages)
BY DEF Sequence!Complete, Nearly

(* Steps that touch no file.                                               *)
LEMMA KeptOpen ==
  ASSUME KeptInv, phase = "open", phase' \in {"open", "assert", "fault"},
         UNCHANGED <<source, file, mode, result>>
  PROVE  KeptInv'
<1>1. Original' = Original
  BY DEF Original, FileBacked, HasHandle
<1>2. QED
  BY <1>1 DEF KeptInv, SavedInv, SpooledInv, FileInv, ResultInv

(* Steps that leave the list, the files and the saving alone.              *)
LEMMA KeptSame ==
  ASSUME KeptInv,
         UNCHANGED <<source, file, spool, mode, blocks, cache, changed, phase, save, result>>
  PROVE  KeptInv'
<1>1. /\ Original' = Original /\ FileBacked' = FileBacked /\ Unnoticed' = Unnoticed
      /\ BitmapPages' = BitmapPages
  BY DEF Original, FileBacked, HasHandle, Unnoticed, BitmapPages, BlockPages
<1>2. SavedInv' /\ SpooledInv' /\ ResultInv'
  BY <1>1 DEF KeptInv, SavedInv, SpooledInv, ResultInv
<1>3. (phase = "closed" => DocumentKept)'
  <2>1. phase = "closed" => DocumentKept
    BY DEF KeptInv, FileInv
  <2>2. (\A saved : Sequence!Complete(saved) <=> Nearly(Unnoticed, saved, BitmapPages))'
    BY DEF Sequence!Complete, Nearly
  <2>3. QED
    BY <1>1, <2>1, <2>2, CompleteIs DEF DocumentKept
<1>4. FileInv'
  BY <1>1, <1>3 DEF KeptInv, FileInv
<1>5. QED
  BY <1>2, <1>4 DEF KeptInv

(* Saving begins.                                                          *)
LEMMA KeptBegin ==
  ASSUME Inv, KeptInv, phase = "open", phase' = "saving",
         UNCHANGED <<source, file, mode, blocks, cache, changed, result>>,
         NEW target \in {"spool", "elsewhere"}, save' = [NoSave EXCEPT !.target = target],
         target = "spool" => spool' = << >> /\ FileBacked /\ changed
  PROVE  KeptInv'
<1>1. save' = [target |-> target, block |-> 1, page |-> 0, success |-> TRUE, out |-> << >>]
  BY DEF NoSave
<1>2. /\ source \in Seq(Image) /\ cache \in Caches /\ blocks \in Seq(Blocks(Len(source)))
      /\ Len(source) \in Nat /\ Len(blocks) \in Nat
  BY BitmapNow, LenProperties
<1>3. WrittenOf(source, cache, blocks, 1, 0) = << >>
  BY <1>2, WrittenEnds
<1>4. PagesThrough(blocks)[0] = 0
  <2> DEFINE S == Blocks(Len(source))
  <2>1. \A y \in S : PagesIn(y) \in Nat
    BY <1>2, BlocksCount
  <2>2. blocks \in Seq(S)
    BY <1>2
  <2> HIDE DEF S
  <2>3. QED
    BY <2>1, <2>2, Counts
<1>5. /\ Original' = Original /\ FileBacked' = FileBacked
  BY DEF Original, FileBacked, HasHandle
<1>6. SavedInv'
  <2>1. /\ save'.block = 1 /\ save'.page = 0 /\ save'.out = << >> /\ save'.target = target
        /\ 1 - 1 = 0 /\ Len(save'.out) = 0
    BY <1>1
  <2>2. Nearly(Unnoticed', save'.out, WrittenOf(source', cache', blocks', save'.block, save'.page))
    BY <1>3, <2>1, WholeIsComplete
  <2>3. Len(save'.out) = PagesThrough(blocks')[save'.block - 1] + save'.page
    BY <1>4, <2>1
  <2>4. QED
    BY <1>2, <1>5, <2>1, <2>2, <2>3 DEF SavedInv
<1>7. QED
  BY <1>5, <1>6 DEF KeptInv, SpooledInv, FileInv, ResultInv

(* CloseMultiBitmap.                                                       *)
LEMMA KeptClose ==
  ASSUME Inv, KeptInv, CloseMultiBitmap
  PROVE  KeptInv'
<1>1. /\ UNCHANGED <<source, file, mode, blocks, cache, changed>> /\ phase = "open"
  BY DEF CloseMultiBitmap, Open, bitmapVars
<1>2. CASE /\ spool' = << >> /\ phase' = "saving" /\ save' = [NoSave EXCEPT !.target = "spool"]
           /\ FileBacked /\ changed /\ result' = result
  BY <1>1, <1>2, KeptBegin
<1>3. ASSUME NEW ok \in BOOLEAN, Closed(ok), ok => ~(changed /\ FileBacked)
      PROVE  KeptInv'
  <2>1. phase' = "closed" /\ result' = IF ok THEN "success" ELSE "failure"
    BY <1>3 DEF Closed
  <2>2. Original' = Original /\ FileBacked' = FileBacked
    BY <1>1 DEF Original, FileBacked, HasHandle
  <2>3. DocumentKept'
    BY <1>1, <1>3, <2>1, <2>2 DEF DocumentKept, KeptInv, FileInv
  <2>4. QED
    BY <2>1, <2>3 DEF KeptInv, SavedInv, SpooledInv, FileInv, ResultInv
<1>4. QED
  BY <1>2, <1>3 DEF CloseMultiBitmap

(* No image is the missing one.                                            *)
LEMMA MissingIsNone == Missing \notin Image
<1>1. \A k : Missing # Source(k) /\ Missing # New(k)
  BY DEF Missing, Source, New
<1>2. QED
  BY <1>1 DEF Image

(* The pages of a block that have been saved are pages.                    *)
LEMMA BegunType ==
  ASSUME NEW src \in Seq(Image), NEW b \in Blocks(Len(src)), NEW p \in Nat, p < PagesIn(b)
  PROVE  BegunOf(src, b, p) \in Seq(Shown)
<1>1. CASE p = 0
  BY <1>1, EmptySeq DEF BegunOf
<1>2. CASE p # 0
  <2>1. IsSpan(b)
    <3>1. ~IsSpan(b) => PagesIn(b) = 1
      BY DEF PagesIn, IsSpan
    <3>2. QED
      BY <1>2, <3>1
  <2> DEFINE lo == b.val1
             hi == b.val2
             mid == lo + p - 1
  <2>2. lo \in Nat /\ hi \in Int /\ hi < Len(src) /\ p < hi - lo + 1
    BY <2>1 DEF Blocks, Block, IsSpan, PagesIn
  <2>3. BegunOf(src, b, p) = Run(src, lo, mid)
    BY <1>2 DEF BegunOf
  <2>4. src \in Seq(Shown) /\ Len(src) \in Nat
    BY SeqMonotonic, LenProperties DEF Shown
  <2> HIDE DEF lo, hi
  <2>5. mid \in Int /\ lo - 1 <= mid /\ mid < Len(src)
    BY <1>2, <2>2, <2>4
  <2> HIDE DEF mid
  <2>6. Run(src, lo, mid) \in Seq(Shown)
    BY <2>2, <2>4, <2>5, RunFacts
  <2>7. QED
    BY <2>3, <2>6
<1>3. QED
  BY <1>1, <1>2

(* What saving a page comes to: the block and the page that are next, and  *)
(* what has been written.                                                  *)
NextBlock(k, p, b) == IF p + 1 >= PagesIn(b) THEN k + 1 ELSE k
NextPage(p, b) == IF p + 1 >= PagesIn(b) THEN 0 ELSE p + 1
NextOut(out, b, image) == IF PagesIn(b) = 0 THEN out ELSE Append(out, image)

(* Saving a page gets to the next one, with all before it written.         *)
LEMMA PageSavedAt ==
  ASSUME NEW src \in Seq(Image), NEW c \in Caches, NEW bs \in Seq(Blocks(Len(src))),
         NEW k \in 1..Len(bs), NEW b, b = bs[k],
         NEW p \in Nat, p = 0 \/ p < PagesIn(b), NEW more, more = p + 1,
         NEW image, image = View(src, c)[b][more],
         NEW out, out = WrittenOf(src, c, bs, k, p)
  PROVE  /\ NextBlock(k, p, b) \in 1..(Len(bs) + 1)
         /\ PagesIn(b) # 0 => image \in Shown
         /\ PagesIn(b) # 0 /\ IsSpan(b) => image \in Image
         /\ out \in Seq(Shown)
         /\ NextOut(out, b, image)
              = WrittenOf(src, c, bs, NextBlock(k, p, b), NextPage(p, b))
<1> DEFINE n == Len(src)
           v == View(src, c)
           m == PagesIn(b)
           next == k + 1
<1>1. n \in Nat /\ Len(bs) \in Nat /\ b \in Blocks(n) /\ m \in Nat
  <2>1. n \in Nat /\ Len(bs) \in Nat
    BY LenProperties
  <2>2. b \in Blocks(n)
    BY ElementOfSeq
  <2> HIDE DEF n
  <2>3. QED
    BY <2>1, <2>2, BlocksCount
<1>2. Views(v, src)
  BY ViewFacts
<1>3. v[b] \in Seq(Shown) /\ Len(v[b]) = m
  BY <1>1, <1>2 DEF Views, Lists
<1> HIDE DEF v, m, n
<1>4. NextBlock(k, p, b) \in 1..(Len(bs) + 1)
  BY <1>1 DEF NextBlock
<1>5. ASSUME m # 0, IsSpan(b) PROVE image \in Image
  <2>1. p < m
    BY <1>1, <1>5 DEF m
  <2> DEFINE lo == b.val1
             hi == b.val2
  <2>2. /\ lo \in Nat /\ hi \in Int /\ hi < n /\ m = hi - lo + 1
        /\ v[b] = Run(src, lo, hi)
    BY <1>1, <1>2, <1>5 DEF Views, Blocks, Block, IsSpan, PagesIn, m, n
  <2> HIDE DEF lo, hi
  <2>3. more \in 1..(hi - lo + 1) /\ lo + more \in 1..n
    BY <1>1, <2>1, <2>2, SMTT(30)
  <2>4. image = src[lo + more]
    BY <2>2, <2>3 DEF Run, v
  <2>5. QED
    BY <2>3, <2>4, ElementOfSeq DEF n
<1>6. ASSUME m # 0 PROVE image \in Shown
  <2>1. more \in 1..Len(v[b])
    BY <1>1, <1>3, <1>6 DEF m
  <2>2. QED
    BY <1>3, <2>1, ElementOfSeq DEF v
<1>7. out \in Seq(Shown)
  <2>1. PagesOf(src, c, SubSeq(bs, 1, k - 1)) \in Seq(Shown)
    BY WrittenBlock
  <2>2. BegunOf(src, b, p) \in Seq(Shown)
    <3>1. CASE p = 0
      BY <3>1, EmptySeq DEF BegunOf
    <3>2. CASE p # 0
      <4>1. p < PagesIn(b)
        BY <3>2
      <4>2. QED
        BY <1>1, <4>1, BegunType DEF n
    <3>3. QED
      BY <3>1, <3>2
  <2>3. QED
    BY <2>1, <2>2, CatFacts DEF WrittenOf
<1>8. NextOut(out, b, image) = WrittenOf(src, c, bs, NextBlock(k, p, b), NextPage(p, b))
  <2>1. CASE m # 0
    <3>1. p < m
      BY <1>1, <2>1 DEF m
    <3>3. NextOut(out, b, image) = Append(out, image)
      BY <2>1 DEF NextOut, m
    <3>5. Append(out, image) = out \o <<image>>
      BY <1>6, <1>7, <2>1, AppendIsConcat
    <3>6. Append(out, image) = Cat(out, One(image))
      BY <3>5, Zenon DEF Cat, One
    <3>7. next = k + 1 /\ p < PagesIn(b)
      BY <3>1 DEF m
    <3> HIDE DEF next
    <3>8. Cat(WrittenOf(src, c, bs, k, p), One(image))
           = IF more >= PagesIn(b) THEN WrittenOf(src, c, bs, next, 0)
                                   ELSE WrittenOf(src, c, bs, k, more)
      BY <3>7, WrittenMore
    <3>9. /\ NextBlock(k, p, b) = IF more >= PagesIn(b) THEN next ELSE k
          /\ NextPage(p, b) = IF more >= PagesIn(b) THEN 0 ELSE more
      BY <3>7 DEF NextBlock, NextPage
    <3>10. QED
      BY <3>3, <3>6, <3>8, <3>9
  <2>2. CASE m = 0
    <3>1. p = 0
      BY <1>1, <2>2 DEF m
    <3>2. NextOut(out, b, image) = out
      BY <2>2 DEF NextOut, m
    <3>3. NextBlock(k, p, b) = next /\ NextPage(p, b) = 0
      BY <2>2, <3>1 DEF NextBlock, NextPage, m
    <3>4. next = k + 1 /\ PagesIn(b) = 0
      BY <2>2 DEF m
    <3> HIDE DEF next
    <3>5. WrittenOf(src, c, bs, k, 0) = WrittenOf(src, c, bs, next, 0)
      BY <3>4, WrittenSame
    <3>6. QED
      BY <3>1, <3>2, <3>3, <3>5
  <2>3. QED
    BY <2>1, <2>2
<1>9. QED
  BY <1>4, <1>5, <1>6, <1>7, <1>8 DEF m

(* Page p of block k is next, all before it is in out.                     *)
AtPage(src, c, bs, k, p, b, image, out) ==
  /\ b = bs[k]
  /\ p = 0 \/ p < PagesIn(b)
  /\ image = View(src, c)[b][p + 1]
  /\ out = WrittenOf(src, c, bs, k, p)

(* Saving that page is getting to the next one.                            *)
LEMMA PageSaved ==
  ASSUME NEW src \in Seq(Image), NEW c \in Caches, NEW bs \in Seq(Blocks(Len(src))),
         NEW k \in 1..Len(bs), NEW p \in Nat, NEW b, NEW image, NEW out,
         AtPage(src, c, bs, k, p, b, image, out)
  PROVE  /\ NextBlock(k, p, b) \in 1..(Len(bs) + 1)
         /\ PagesIn(b) # 0 => image \in Shown
         /\ PagesIn(b) # 0 /\ IsSpan(b) => image \in Image
         /\ out \in Seq(Shown)
         /\ NextOut(out, b, image)
              = WrittenOf(src, c, bs, NextBlock(k, p, b), NextPage(p, b))
<1>1. PICK more : more = p + 1
  OBVIOUS
<1>2. /\ b = bs[k] /\ (p = 0 \/ p < PagesIn(b))
      /\ image = View(src, c)[b][more] /\ out = WrittenOf(src, c, bs, k, p)
  BY <1>1 DEF AtPage
<1>3. QED
  BY <1>1, <1>2, PageSavedAt

(* How many pages are before the next one.                                 *)
LEMMA PagesBefore ==
  ASSUME NEW S, \A y \in S : PagesIn(y) \in Nat, NEW bs \in Seq(S),
         NEW k \in 1..Len(bs), NEW p \in Nat, p = 0 \/ p < PagesIn(bs[k])
  PROVE  /\ PagesThrough(bs)[k - 1] \in Nat
         /\ PagesThrough(bs)[NextBlock(k, p, bs[k]) - 1] + NextPage(p, bs[k])
              = PagesThrough(bs)[k - 1] + p + (IF PagesIn(bs[k]) = 0 THEN 0 ELSE 1)
<1> DEFINE g == PagesThrough(bs)
<1>1. /\ Len(bs) \in Nat /\ g \in [0..Len(bs) -> Nat]
      /\ g[k] = g[k - 1] + PagesIn(bs[k]) /\ PagesIn(bs[k]) \in Nat
  BY Counts
<1> HIDE DEF g
<1>2. PICK m \in Nat : m = PagesIn(bs[k])
  BY <1>1
<1>3. PICK before \in Nat : before = g[k - 1]
  <2>1. k - 1 \in 0..Len(bs)
    BY <1>1
  <2>2. QED
    BY <1>1, <2>1
<1>4. g[k] = before + m
  BY <1>1, <1>2, <1>3
<1> DEFINE next == NextBlock(k, p, bs[k])
           left == NextPage(p, bs[k])
           step == IF PagesIn(bs[k]) = 0 THEN 0 ELSE 1
<1>5. /\ next = (IF p + 1 >= m THEN k + 1 ELSE k) /\ left = (IF p + 1 >= m THEN 0 ELSE p + 1)
      /\ step = (IF m = 0 THEN 0 ELSE 1) /\ (p = 0 \/ p < m)
  BY <1>2, Zenon DEF NextBlock, NextPage
<1> HIDE DEF next, left, step
<1>6. before \in Nat /\ g[next - 1] + left = before + p + step
  <2>1. CASE p + 1 >= m
    <3>1. next - 1 = k /\ left = 0
      BY <1>5, <2>1
    <3>2. p + step = m /\ step \in Nat
      <4>1. CASE m = 0
        <5>1. p = 0 /\ step = 0
          BY <1>5, <4>1
        <5>2. QED
          BY <4>1, <5>1
      <4>2. CASE m # 0
        <5>1. step = 1 /\ p < m
          BY <1>5, <4>2
        <5>2. QED
          BY <2>1, <5>1
      <4>3. QED
        BY <4>1, <4>2
    <3>3. g[next - 1] = before + m
      BY <1>4, <3>1, Zenon
    <3>4. QED
      BY <3>1, <3>2, <3>3
  <2>2. CASE ~(p + 1 >= m)
    <3>1. next = k /\ left = p + 1 /\ step = 1
      <4>1. m # 0
        BY <2>2
      <4>2. QED
        BY <1>5, <2>2, <4>1, Zenon
    <3>2. g[next - 1] = before
      BY <1>3, <3>1, Zenon
    <3>3. QED
      BY <3>1, <3>2
  <2>3. QED
    BY <2>1, <2>2
<1>7. QED
  BY <1>3, <1>6, Zenon DEF g, next, left, step

(* A number that is neither 0 nor more than n.                             *)
LEMMA UpTo ==
  ASSUME NEW n \in Nat, NEW k \in Nat, k # 0, k <= n
  PROVE  k \in 1..n
OBVIOUS

(* One page more, written or missing where it may be.                      *)
LEMMA NearlyMore ==
  ASSUME NEW missing, NEW S, NEW out \in Seq(S), NEW all \in Seq(S), Nearly(missing, out, all),
         NEW x \in S, NEW image \in S,
         x = image \/ (x = Missing /\ Len(out) + 1 \in missing)
  PROVE  Nearly(missing, Append(out, x), Append(all, image))
<1>1. PICK n \in Nat : n = Len(out)
  BY LenProperties
<1>2. n = Len(all) /\ \A i \in 1..n : out[i] = all[i] \/ (i \in missing /\ out[i] = Missing)
  BY <1>1 DEF Nearly
<1> DEFINE a == Append(out, x)
           c == Append(all, image)
<1>3. Len(a) = n + 1 /\ a[n + 1] = x /\ \A i \in 1..n : a[i] = out[i]
  BY <1>1, AppendProperties
<1>4. Len(c) = n + 1 /\ c[n + 1] = image /\ \A i \in 1..n : c[i] = all[i]
  BY <1>2, AppendProperties
<1> HIDE DEF a, c
<1>5. ASSUME NEW i \in 1..(n + 1) PROVE a[i] = c[i] \/ (i \in missing /\ a[i] = Missing)
  <2>1. CASE i = n + 1
    BY <1>1, <1>3, <1>4, <2>1
  <2>2. CASE i \in 1..n
    BY <1>2, <1>3, <1>4, <2>2
  <2>3. QED
    BY <2>1, <2>2
<1>6. QED
  BY <1>3, <1>4, <1>5 DEF Nearly, a, c

(* One page of SaveMultiBitmapToHandle: it is written, or its block is the *)
(* last that is looked at, or it is a page that may be missing.            *)
LEMMA KeptSavePage ==
  ASSUME Inv, KeptInv, SavePage
  PROVE  KeptInv'
<1>1. /\ UNCHANGED <<source, file, mode, blocks, cache, changed, result, phase>>
      /\ phase = "saving" /\ MorePages
      /\ spool' = IF save.target = "spool" THEN save'.out ELSE spool
  BY DEF SavePage, Saving, bitmapVars
<1>2. /\ source \in Seq(Image) /\ cache \in Caches /\ blocks \in Seq(Blocks(Len(source)))
      /\ \A x \in Blocks(Len(source)) : BlockPages(x) = View(source, cache)[x]
      /\ Len(source) \in Nat /\ Len(blocks) \in Nat
  BY BitmapNow, LenProperties
<1>3. PICK k, p, b, out, image :
        k = save.block /\ p = save.page /\ b = blocks[k] /\ out = save.out
        /\ image = BlockPages(b)[p + 1]
  OBVIOUS
<1>4. /\ k \in Nat \ {0} /\ p \in Nat /\ out \in Seq(Shown)
      /\ save = [target |-> save.target, block |-> k, page |-> p,
                 success |-> save.success, out |-> out]
  BY <1>3 DEF Inv, Saves, Files, Shown
<1>5. k \in 1..Len(blocks)
  <2>1. k <= Len(blocks)
    BY <1>1, <1>3 DEF MorePages
  <2>2. k \in Nat /\ k # 0 /\ Len(blocks) \in Nat
    BY <1>2, <1>4
  <2>3. QED
    BY <2>1, <2>2, UpTo
<1>6. b \in Blocks(Len(source)) /\ (p = 0 \/ p < PagesIn(b))
  BY <1>1, <1>2, <1>3, <1>5, ElementOfSeq DEF Inv, SaveInv
<1>7. PagesIn(b) \in Nat
  BY <1>2, <1>6, BlocksCount
<1>8. PICK all : all = WrittenOf(source, cache, blocks, k, p)
  OBVIOUS
<1>9. /\ Nearly(Unnoticed, out, all) /\ Len(out) = PagesThrough(blocks)[k - 1] + p
      /\ save.target = "spool" => FileBacked /\ changed
  <2>1. save.success \/ p # 0
    BY <1>1, <1>3 DEF MorePages
  <2>2. QED
    BY <1>1, <1>3, <1>8, <2>1 DEF KeptInv, SavedInv
<1>10. PICK ok \in BOOLEAN :
         /\ PagesIn(b) > 0 => IF ok THEN image # Missing ELSE image = Missing \/ MayFail(b)
         /\ save' = [save EXCEPT !.success = ok,
                                 !.out = NextOut(out, b, IF ok THEN image ELSE Missing),
                                 !.block = NextBlock(k, p, b), !.page = NextPage(p, b)]
  BY <1>3 DEF SavePage, NextOut, NextBlock, NextPage
<1>11. AtPage(source, cache, blocks, k, p, b, image, all)
  BY <1>2, <1>3, <1>6, <1>8 DEF AtPage
<1>12. /\ NextBlock(k, p, b) \in 1..(Len(blocks) + 1)
       /\ PagesIn(b) # 0 => image \in Shown
       /\ PagesIn(b) # 0 /\ IsSpan(b) => image \in Image
       /\ all \in Seq(Shown)
       /\ NextOut(all, b, image)
            = WrittenOf(source, cache, blocks, NextBlock(k, p, b), NextPage(p, b))
  <2>1. /\ source \in Seq(Image) /\ cache \in Caches /\ blocks \in Seq(Blocks(Len(source)))
        /\ p \in Nat
    BY <1>2, <1>4
  <2>2. QED
    BY <1>5, <1>11, <2>1, PageSaved
<1>13. /\ PagesThrough(blocks)[k - 1] \in Nat
       /\ PagesThrough(blocks)[NextBlock(k, p, b) - 1] + NextPage(p, b)
            = PagesThrough(blocks)[k - 1] + p + (IF PagesIn(b) = 0 THEN 0 ELSE 1)
  <2> DEFINE S == Blocks(Len(source))
  <2>1. \A y \in S : PagesIn(y) \in Nat
    BY <1>2, BlocksCount
  <2>2. blocks \in Seq(S)
    BY <1>2
  <2>3. b = blocks[k] /\ p \in Nat
    BY <1>3, <1>4
  <2> HIDE DEF S
  <2>4. QED
    BY <1>5, <1>6, <2>1, <2>2, <2>3, PagesBefore
<1>14. PICK x : x = IF ok THEN image ELSE Missing
  OBVIOUS
<1> DEFINE o == NextOut(out, b, x)
           block == NextBlock(k, p, b)
           page == NextPage(p, b)
<1>15. PagesIn(b) # 0 => x \in Shown
  BY <1>12, <1>14 DEF Shown
<1>16. Len(o) = PagesThrough(blocks)[block - 1] + page
  <2>1. CASE PagesIn(b) = 0
    BY <1>9, <1>13, <2>1 DEF NextOut
  <2>2. CASE PagesIn(b) # 0
    <3>1. Len(o) = Len(out) + 1
      BY <1>4, <1>15, <2>2, AppendProperties DEF NextOut
    <3>2. QED
      BY <1>4, <1>9, <1>13, <2>2, <3>1
  <2>3. QED
    BY <2>1, <2>2
<1>17. ASSUME ok \/ page # 0
       PROVE  Nearly(Unnoticed, o, WrittenOf(source, cache, blocks, block, page))
  <2>1. CASE PagesIn(b) = 0
    BY <1>9, <1>12, <2>1 DEF NextOut
  <2>2. CASE PagesIn(b) # 0
    <3>1. x = image \/ (x = Missing /\ Len(out) + 1 \in Unnoticed)
      <4> SUFFICES ASSUME ~ok PROVE Len(out) + 1 \in Unnoticed
        BY <1>14
      <4>1. p + 1 < PagesIn(b)
        BY <1>4, <1>7, <1>17 DEF NextPage
      <4>2. IsSpan(b)
        <5>1. ~IsSpan(b) => PagesIn(b) = 1
          BY DEF PagesIn, IsSpan
        <5>2. QED
          BY <1>4, <4>1, <5>1
      <4>3. "source page" \in Failures
        <5>1. image # Missing
          BY <1>12, <2>2, <4>2, MissingIsNone
        <5>2. PagesIn(b) > 0
          BY <1>7, <2>2
        <5>3. MayFail(b)
          BY <1>10, <5>1, <5>2
        <5>4. QED
          BY <4>2, <5>3 DEF MayFail, IsSpan
      <4>4. p + 1 \in 1..(PagesIn(b) - 1)
        BY <1>4, <1>7, <4>1
      <4>5. Len(out) + 1 = PagesThrough(blocks)[k - 1] + (p + 1)
        BY <1>4, <1>9, <1>13
      <4>6. k \in DOMAIN blocks
        BY <1>2, <1>5
      <4>7. QED
        <5>1. PICK j : j = p + 1 /\ Len(out) + 1 = PagesThrough(blocks)[k - 1] + j
          BY <4>5
        <5>2. j \in IF "source page" \in Failures THEN 1..(PagesIn(blocks[k]) - 1) ELSE {}
          BY <1>3, <4>3, <4>4, <5>1
        <5> DEFINE In(i) == IF "source page" \in Failures THEN 1..(PagesIn(blocks[i]) - 1) ELSE {}
                   At(i) == {PagesThrough(blocks)[i - 1] + y : y \in In(i)}
        <5>3. Unnoticed = UNION {At(i) : i \in DOMAIN blocks}
          BY DEF Unnoticed
        <5>4. j \in In(k)
          BY <5>2
        <5>5. Len(out) + 1 \in At(k)
          BY <5>1, <5>4
        <5> HIDE DEF In, At
        <5>6. QED
          BY <4>6, <5>3, <5>5
    <3>2. Nearly(Unnoticed, Append(out, x), Append(all, image))
      <4>1. x \in Shown /\ image \in Shown
        BY <1>12, <1>15, <2>2
      <4>2. out \in Seq(Shown) /\ all \in Seq(Shown)
        BY <1>4, <1>12
      <4>3. QED
        BY <1>9, <3>1, <4>1, <4>2, NearlyMore
    <3>3. o = Append(out, x) /\ NextOut(all, b, image) = Append(all, image)
      BY <2>2 DEF NextOut
    <3>4. QED
      BY <1>12, <3>2, <3>3
  <2>3. QED
    BY <2>1, <2>2
<1> HIDE DEF o, block, page
<1>18. save' = [target |-> save.target, block |-> block, page |-> page, success |-> ok, out |-> o]
  BY <1>4, <1>10, <1>14 DEF o, block, page
<1>19. /\ save'.target = save.target /\ save'.block = block /\ save'.page = page
       /\ save'.success = ok /\ save'.out = o
  BY <1>18
<1>20. /\ Original' = Original /\ FileBacked' = FileBacked /\ Unnoticed' = Unnoticed
  BY <1>1 DEF Original, FileBacked, HasHandle, Unnoticed
<1>21. block \in 1..(Len(blocks) + 1)
  BY <1>12 DEF block
<1>22. SavedInv'
  BY <1>1, <1>9, <1>16, <1>17, <1>19, <1>20, <1>21 DEF SavedInv
<1>23. SpooledInv' /\ FileInv' /\ ResultInv'
  BY <1>1, <1>20 DEF KeptInv, SpooledInv, FileInv, ResultInv
<1>24. QED
  BY <1>22, <1>23 DEF KeptInv

(* What saving has written when it ends.                                   *)
LEMMA SavedAll ==
  ASSUME Inv, KeptInv, phase = "saving", ~MorePages, save.success
  PROVE  Nearly(Unnoticed, save.out, BitmapPages) /\ save.out \in Files
<1>1. /\ source \in Seq(Image) /\ cache \in Caches /\ blocks \in Seq(Blocks(Len(source)))
      /\ BitmapPages = PagesOf(source, cache, blocks)
  BY BitmapNow
<1>2. save.block \in 1..(Len(blocks) + 1) /\ Len(blocks) \in Nat /\ save.out \in Files
  BY <1>1, LenProperties DEF KeptInv, SavedInv, Inv, VariablesOK
<1>3. save.block = Len(blocks) + 1
  BY <1>2 DEF MorePages
<1>4. save.page = 0
  BY <1>2, <1>3 DEF Inv, SaveInv
<1>5. WrittenOf(source, cache, blocks, save.block, save.page) = BitmapPages
  BY <1>1, <1>3, <1>4, WrittenEnds
<1>6. QED
  BY <1>2, <1>5 DEF KeptInv, SavedInv

(* The return of SaveMultiBitmapToHandle, and what CloseMultiBitmap does   *)
(* with it.                                                                *)
LEMMA KeptEndSave ==
  ASSUME Inv, KeptInv, EndSave
  PROVE  KeptInv'
<1>1. /\ UNCHANGED <<source, file, mode, blocks, cache, changed>>
      /\ phase = "saving" /\ ~MorePages
  BY DEF EndSave, Saving, bitmapVars
<1>2. /\ Original' = Original /\ FileBacked' = FileBacked /\ Unnoticed' = Unnoticed
      /\ BitmapPages' = BitmapPages
  BY <1>1 DEF Original, FileBacked, HasHandle, Unnoticed, BitmapPages, BlockPages
<1>3. CASE phase' = "open" /\ result' = result
  BY <1>1, <1>2, <1>3 DEF KeptInv, SavedInv, SpooledInv, FileInv, ResultInv
<1>4. CASE /\ save.target = "spool" /\ save.success /\ phase' = "spooled"
           /\ save' = [NoSave EXCEPT !.target = "spool"] /\ UNCHANGED <<spool, result>>
  <2>1. Nearly(Unnoticed, save.out, BitmapPages) /\ save.out \in Files
    BY <1>1, <1>4, SavedAll
  <2>2. spool = save.out /\ FileBacked /\ changed
    BY <1>1, <1>4 DEF KeptInv, SavedInv
  <2>3. save'.target = "spool"
    BY <1>4 DEF NoSave
  <2>4. SpooledInv'
    BY <1>1, <1>2, <1>4, <2>1, <2>2, <2>3 DEF SpooledInv
  <2>5. QED
    BY <1>1, <1>2, <1>4, <2>4 DEF KeptInv, SavedInv, FileInv, ResultInv
<1>5. CASE Closed(FALSE)
  <2>1. phase' = "closed" /\ result' = "failure"
    BY <1>5 DEF Closed
  <2>2. DocumentKept'
    BY <1>1, <1>2, <2>1 DEF DocumentKept, KeptInv, FileInv
  <2>3. QED
    BY <2>1, <2>2 DEF KeptInv, SavedInv, SpooledInv, FileInv, ResultInv
<1>6. QED
  BY <1>3, <1>4, <1>5 DEF EndSave

(* RemoveFile: the document is gone, or it is not.                         *)
LEMMA KeptRemoveFile ==
  ASSUME KeptInv, RemoveFile
  PROVE  KeptInv'
<1>1. /\ UNCHANGED <<source, spool, mode, blocks, cache, changed, save, result>>
      /\ phase = "spooled" /\ phase' = "removed" /\ (file' = Absent \/ file' = file)
  BY DEF RemoveFile, TryRemove, bitmapVars
<1>2. /\ Original' = Original /\ FileBacked' = FileBacked /\ Unnoticed' = Unnoticed
      /\ BitmapPages' = BitmapPages
  BY <1>1 DEF Original, FileBacked, HasHandle, Unnoticed, BitmapPages, BlockPages
<1>3. SpooledInv'
  BY <1>1, <1>2 DEF KeptInv, SpooledInv
<1>4. FileInv'
  BY <1>1, <1>2 DEF KeptInv, FileInv
<1>5. QED
  BY <1>1, <1>3, <1>4 DEF KeptInv, SavedInv, ResultInv

(* RenameSpool: the spool file is the document, or is beside it, or is the *)
(* last copy of it.                                                        *)
LEMMA KeptRenameSpool ==
  ASSUME KeptInv, RenameSpool
  PROVE  KeptInv'
<1>1. /\ UNCHANGED <<source, mode, blocks, cache, changed, save>> /\ phase = "removed"
  BY DEF RenameSpool, bitmapVars
<1>2. /\ Original' = Original /\ FileBacked' = FileBacked /\ Unnoticed' = Unnoticed
      /\ BitmapPages' = BitmapPages
  BY <1>1 DEF Original, FileBacked, HasHandle, Unnoticed, BitmapPages, BlockPages
<1>3. /\ Nearly(Unnoticed, spool, BitmapPages) /\ spool # Absent
      /\ file \in {Original, Absent}
  BY <1>1, AbsentAssumption DEF KeptInv, SpooledInv, FileInv
<1>4. (\A saved : Sequence!Complete(saved) <=> Nearly(Unnoticed, saved, BitmapPages))'
  BY DEF Sequence!Complete, Nearly
<1>5. phase' = "closed"
  BY DEF RenameSpool, Closed
<1>6. CASE file' = spool /\ spool' = Absent /\ Closed(TRUE)
  <2>1. result' = "success"
    BY <1>6 DEF Closed
  <2>2. DocumentKept'
    BY <1>2, <1>3, <1>4, <1>6, <2>1 DEF DocumentKept
  <2>3. QED
    BY <1>5, <2>2 DEF KeptInv, SavedInv, SpooledInv, FileInv, ResultInv
<1>7. CASE Closed(FALSE) /\ UNCHANGED <<file, spool>>
  <2>1. result' = "failure"
    BY <1>7 DEF Closed
  <2>2. DocumentKept'
    BY <1>2, <1>3, <1>4, <1>7, <2>1 DEF DocumentKept
  <2>3. QED
    BY <1>5, <2>2 DEF KeptInv, SavedInv, SpooledInv, FileInv, ResultInv
<1>8. QED
  BY <1>6, <1>7 DEF RenameSpool

(* Every step keeps what is said of the files.                             *)
LEMMA KeptNext == Inv /\ KeptInv /\ [Next]_vars => KeptInv'
<1> SUFFICES ASSUME Inv, KeptInv, [Next]_vars PROVE KeptInv'
  OBVIOUS
<1>1. CASE UNCHANGED vars \/ Crash \/ GetPageCount
  <2>1. UNCHANGED <<source, file, spool, mode, blocks, cache, changed, phase, save, result>>
    BY <1>1 DEF vars, Crash, GetPageCount, diskVars, bitmapVars, closeVars
  <2>2. QED
    BY <2>1, KeptSame
<1>2. CASE AppendPage \/ FindBlockFails
  BY <1>2, KeptOpen DEF AppendPage, FindBlockFails, Open, diskVars, closeVars
<1>3. ASSUME NEW page, NEW target,
             \/ InsertPage(page) \/ DeletePage(page) \/ MovePage(target, page)
             \/ LockPage(page) \/ UnlockPage(page) \/ UnlockChangedPage(page)
      PROVE  KeptInv'
  <2>1. phase = "open" /\ phase' = "open" /\ UNCHANGED <<source, file, mode, result>>
    BY <1>3 DEF InsertPage, DeletePage, MovePage, LockPage, UnlockPage, UnlockChangedPage,
                Open, diskVars, closeVars
  <2>2. QED
    BY <2>1, KeptOpen
<1>4. CASE NullPointer
  <2>1. /\ UNCHANGED <<source, file, mode, result>> /\ phase \in {"open", "saving"}
        /\ phase' = "fault"
    BY <1>4 DEF NullPointer, Open, Saving, diskVars
  <2>2. Original' = Original
    BY <2>1 DEF Original, FileBacked, HasHandle
  <2>3. QED
    BY <2>1, <2>2 DEF KeptInv, SavedInv, SpooledInv, FileInv, ResultInv
<1>5. CASE SaveElsewhere
  <2>1. /\ phase = "open" /\ phase' = "saving"
        /\ UNCHANGED <<source, file, mode, blocks, cache, changed, result>>
        /\ save' = [NoSave EXCEPT !.target = "elsewhere"]
    BY <1>5 DEF SaveElsewhere, Open, diskVars, bitmapVars
  <2>2. QED
    BY <2>1, KeptBegin
<1>6. CASE CloseMultiBitmap
  BY <1>6, KeptClose
<1>7. CASE SaveStep
  BY <1>7, KeptSavePage, KeptEndSave, KeptRemoveFile, KeptRenameSpool DEF SaveStep
<1>8. QED
  BY <1>1, <1>2, <1>3, <1>4, <1>5, <1>6, <1>7 DEF Next

(* A bitmap that was just opened has its file as it is.                    *)
LEMMA InitKept == Init => KeptInv
<1> SUFFICES ASSUME Init PROVE KeptInv
  OBVIOUS
<1>1. file = Original
  BY DEF Init, Original
<1>2. QED
  BY <1>1 DEF Init, KeptInv, SavedInv, SpooledInv, FileInv, ResultInv

(* Whatever fails, whatever the clients do and wherever the process dies,  *)
(* the document is the file as it was, or a whole spool file that could    *)
(* not be given its name yet, or a file that is whole.                     *)
THEOREM DocumentStaysKept == Spec => []DocumentKept
<1>1. KeptInv => DocumentKept
  <2> SUFFICES ASSUME KeptInv PROVE DocumentKept
    OBVIOUS
  <2>1. CASE phase = "closed"
    BY <2>1 DEF KeptInv, FileInv
  <2>2. CASE phase # "closed" /\ file = Original
    BY <2>2 DEF KeptInv, ResultInv, DocumentKept
  <2>3. CASE phase = "removed" /\ file = Absent
    <3>1. Nearly(Unnoticed, spool, BitmapPages) /\ spool # Absent /\ result = "none"
      BY <2>3, AbsentAssumption DEF KeptInv, SpooledInv, ResultInv
    <3>2. QED
      BY <2>3, <3>1, CompleteIs DEF DocumentKept
  <2>4. QED
    BY <2>1, <2>2, <2>3 DEF KeptInv, FileInv
<1>2. Init => Inv /\ KeptInv
  BY InitInv, InitKept
<1>3. Inv /\ KeptInv /\ [Next]_vars => Inv' /\ KeptInv'
  BY NextInv, KeptNext
<1>4. QED
  BY <1>1, <1>2, <1>3, PTL DEF Spec
-----------------------------------------------------------------------------
(* An edit touches nothing but the list.                                   *)
LEMMA Editing ==
  ASSUME PromiseInv, Inv', phase = "open", changed' = TRUE,
         UNCHANGED <<diskVars, mode, closeVars, answer>>
  PROVE  PromiseInv' /\ UNCHANGED <<Document, FileBacked, answer, result>>
<1>1. UNCHANGED <<source, file, spool, phase, save, result, answer, mode>>
  BY DEF diskVars, closeVars
<1>2. KeptInv'
  BY <1>1, KeptOpen DEF PromiseInv
<1>3. DocumentInv' /\ CallInv'
  BY <1>1 DEF DocumentInv, CallInv
<1>4. Document' = Document /\ FileBacked' = FileBacked
  BY <1>1 DEF Document, SpoolIsDocument, FileBacked
<1>5. QED
  BY <1>1, <1>2, <1>3, <1>4 DEF PromiseInv

(* PageSequence takes its operators on sequences from where MultiPage does. *)
LEMMA SameEdits ==
  /\ \A s, i, e : Sequence!InsertAt(s, i, e) = InsertAt(s, i, e)
  /\ \A s, i : Sequence!RemoveAt(s, i) = RemoveAt(s, i)
  /\ \A s, i, e : Sequence!ReplaceAt(s, i, e) = ReplaceAt(s, i, e)
BY DEF Sequence!InsertAt, InsertAt, Sequence!RemoveAt, RemoveAt, Sequence!ReplaceAt, ReplaceAt

(* AppendPage.                                                              *)
LEMMA AppendPageStep ==
  ASSUME PromiseInv, Inv', "encode" \notin Failures, AppendPage
  PROVE  PromiseInv' /\ Promised
<1> DEFINE e == Reference(NewRef(cache), 1)
           image == New(images')
<1>1. Inv
  BY DEF PromiseInv
<1>2. /\ blocks' = Append(blocks, e) /\ cache' = WriteFile(cache, image) /\ changed' = TRUE
      /\ phase = "open" /\ UNCHANGED <<diskVars, mode, closeVars, answer, crashed>>
      /\ call' = [op |-> "append", image |-> image]
  BY DEF AppendPage, Open, SavePageToBlock, Restructure
<1>3. PromiseInv' /\ UNCHANGED <<Document, FileBacked, answer, result>>
  BY <1>1, <1>2, Editing
<1>4. image \in Image /\ image \in {New(k) : k \in 1..MaxImages}
  <2>1. images \in 0..MaxImages /\ images < MaxImages /\ images' = images + 1
    BY <1>1, EditStart DEF AppendPage, NewImage
  <2>2. images' \in 1..MaxImages
    BY <2>1, BoundAssumption
  <2>3. QED
    BY <2>2 DEF Image
<1> HIDE DEF e, image
<1>5. PagesOf(source, WriteFile(cache, image), Append(blocks, e))
        = Append(PagesOf(source, cache, blocks), image)
  BY <1>1, <1>4, BitmapNow, AppendedPages DEF e
<1>6. source' = source
  BY <1>2 DEF diskVars
<1>7. BitmapPages' = Append(BitmapPages, image)
  BY <1>1, <1>2, <1>5, <1>6, BitmapNow, BitmapNext
<1>8. call'.op = "append" /\ call'.image = image
  BY <1>2
<1>9. Sequence!AppendPage(call')
  BY <1>3, <1>4, <1>7, <1>8 DEF Sequence!AppendPage, Sequence!Edit
<1>10. QED
  BY <1>3, <1>9 DEF Promised, Sequence!Next, Sequence!Does

(* InsertPage.                                                              *)
LEMMA InsertPageStep ==
  ASSUME PromiseInv, Inv', "encode" \notin Failures, NEW page \in Positions, InsertPage(page)
  PROVE  PromiseInv' /\ Promised
<1> DEFINE e == Reference(NewRef(cache), 1)
           image == New(images')
           t == Split(blocks, page)
           u == InsertIn(blocks, t, page, e)
<1>1. Inv
  BY DEF PromiseInv
<1>2. /\ blocks' = u /\ cache' = WriteFile(cache, image) /\ changed' = TRUE
      /\ phase = "open" /\ UNCHANGED <<diskVars, mode, closeVars, answer, crashed>>
      /\ call' = [op |-> "insert", page |-> page, image |-> image]
  BY DEF InsertPage, Open, SavePageToBlock, Restructure, InsertIn
<1>3. PromiseInv' /\ UNCHANGED <<Document, FileBacked, answer, result>>
  BY <1>1, <1>2, Editing
<1>4. image \in Image /\ image \in {New(k) : k \in 1..MaxImages}
  <2>1. images \in 0..MaxImages /\ images < MaxImages /\ images' = images + 1
    BY <1>1, EditStart DEF InsertPage, NewImage
  <2>2. images' \in 1..MaxImages
    BY <2>1, BoundAssumption
  <2>3. QED
    BY <2>2 DEF Image
<1>5. page \in Nat /\ Within(blocks, page) /\ page \in 0..(Len(BitmapPages) - 1)
  BY <1>1, BitmapNow DEF Positions, Within
<1> HIDE DEF e, image, t, u
<1>6. PagesOf(source, WriteFile(cache, image), u)
        = InsertAt(PagesOf(source, cache, blocks), Place(page), image)
  <2>1. t = Split(blocks, page)
    BY DEF t
  <2>2. u = InsertIn(blocks, t, page, e)
    BY DEF u
  <2>3. e = Reference(NewRef(cache), 1)
    BY DEF e
  <2>4. source \in Seq(Image) /\ Listed(Len(source), blocks, cache) /\ Owned(blocks, cache)
    BY <1>1, BitmapNow
  <2>5. QED
    BY <1>4, <1>5, <2>1, <2>2, <2>3, <2>4, InsertedPages
<1>7. source' = source
  BY <1>2 DEF diskVars
<1>8. BitmapPages' = InsertAt(BitmapPages, Place(page), image)
  <2>1. BitmapPages = PagesOf(source, cache, blocks)
    BY <1>1, BitmapNow
  <2>2. BitmapPages' = PagesOf(source', cache', blocks')
    BY <1>1, BitmapNext
  <2>3. QED
    BY <1>2, <1>6, <1>7, <2>1, <2>2
<1>9. call'.op = "insert" /\ call'.page = page /\ call'.image = image
  BY <1>2
<1>10. Sequence!InsertPage(call')
  BY <1>3, <1>4, <1>5, <1>8, <1>9, SameEdits
     DEF Sequence!InsertPage, Sequence!OnPage, Sequence!Edit, Place
<1>11. QED
  BY <1>3, <1>10 DEF Promised, Sequence!Next, Sequence!Does

(* DeletePage.                                                              *)
LEMMA DeletePageStep ==
  ASSUME PromiseInv, Inv', "encode" \notin Failures, NEW page \in Positions, DeletePage(page)
  PROVE  PromiseInv' /\ Promised
<1> DEFINE t == Split(blocks, page)
           i == BlockAt(t, page)
           s == RemoveAt(t, i)
           d == Without(cache, t[i])
<1>1. Inv
  BY DEF PromiseInv
<1>2. /\ blocks' = s /\ cache' = d /\ changed' = TRUE
      /\ phase = "open" /\ UNCHANGED <<diskVars, mode, closeVars, answer, crashed>>
      /\ CountPages > 1 /\ call' = [op |-> "delete", page |-> page]
  BY DEF DeletePage, Open, Restructure, Without
<1>3. PromiseInv' /\ UNCHANGED <<Document, FileBacked, answer, result>>
  BY <1>1, <1>2, Editing
<1>4. /\ page \in Nat /\ Within(blocks, page) /\ page \in 0..(Len(BitmapPages) - 1)
      /\ page < Len(BitmapPages) /\ Len(BitmapPages) > 1
  BY <1>1, <1>2, BitmapNow DEF Positions, Within
<1> HIDE DEF t, i, s, d
<1>5. PagesOf(source, d, s) = RemoveAt(PagesOf(source, cache, blocks), Place(page))
  <2>1. t = Split(blocks, page) /\ i = BlockAt(t, page)
        /\ s = RemoveAt(t, i) /\ d = Without(cache, t[i])
    BY DEF t, i, s, d
  <2>2. source \in Seq(Image) /\ Listed(Len(source), blocks, cache) /\ Owned(blocks, cache)
    BY <1>1, BitmapNow
  <2>3. QED
    BY <1>4, <2>1, <2>2, DeletedPages
<1>6. source' = source
  BY <1>2 DEF diskVars
<1>7. BitmapPages' = RemoveAt(BitmapPages, Place(page))
  <2>1. BitmapPages = PagesOf(source, cache, blocks)
    BY <1>1, BitmapNow
  <2>2. BitmapPages' = PagesOf(source', cache', blocks')
    BY <1>1, BitmapNext
  <2>3. QED
    BY <1>2, <1>5, <1>6, <2>1, <2>2
<1>8. call'.op = "delete" /\ call'.page = page
  BY <1>2
<1>9. Sequence!DeletePage(call')
  BY <1>3, <1>4, <1>7, <1>8, SameEdits
     DEF Sequence!DeletePage, Sequence!OnPage, Sequence!Edit, Place
<1>10. QED
  BY <1>3, <1>9 DEF Promised, Sequence!Next, Sequence!Does

(* MovePage.                                                                *)
LEMMA MovePageStep ==
  ASSUME PromiseInv, Inv', NEW target \in Positions, NEW page \in Positions, MovePage(target, page)
  PROVE  PromiseInv' /\ Promised
<1> DEFINE t == Split(Split(blocks, target), page)
           i == BlockAt(t, target)
           j == BlockAt(t, page)
           u == InsertAt(RemoveAt(t, i), IF i < j THEN j - 1 ELSE j, t[i])
           P == PagesOf(source, cache, blocks)
<1>1. Inv
  BY DEF PromiseInv
<1>2. /\ blocks' = u /\ cache' = cache /\ changed' = TRUE /\ target # page
      /\ phase = "open" /\ UNCHANGED <<diskVars, mode, closeVars, answer, crashed>>
      /\ call' = [op |-> "move", page |-> target, before |-> page]
  BY DEF MovePage, Moved, MoveBefore, Open
<1>3. PromiseInv' /\ UNCHANGED <<Document, FileBacked, answer, result>>
  BY <1>1, <1>2, Editing
<1>4. /\ page \in Nat /\ Within(blocks, page) /\ page \in 0..(Len(BitmapPages) - 1)
      /\ page < Len(BitmapPages)
  BY <1>1, BitmapNow DEF Positions, Within
<1>5. /\ target \in Nat /\ Within(blocks, target) /\ target \in 0..(Len(BitmapPages) - 1)
      /\ target < Len(BitmapPages)
  BY <1>1, BitmapNow DEF Positions, Within
<1>6. PagesOf(source, cache, u)
        = InsertAt(RemoveAt(P, Place(target)), IF target < page THEN page ELSE page + 1,
                   P[Place(target)])
  <2>1. source \in Seq(Image) /\ blocks \in Seq(Blocks(Len(source))) /\ cache \in Caches
    BY <1>1, BitmapNow
  <2>2. t = Split(Split(blocks, target), page) /\ i = BlockAt(t, target)
        /\ j = BlockAt(t, page) /\ P = PagesOf(source, cache, blocks)
    OBVIOUS
  <2>3. target # page
    BY <1>2
  <2> HIDE DEF t, i, j, P
  <2>4. QED
    BY <1>4, <1>5, <2>1, <2>2, <2>3, MovedPages
<1>7. source' = source
  BY <1>2 DEF diskVars
<1> HIDE DEF u
<1>8. BitmapPages' = InsertAt(RemoveAt(BitmapPages, Place(target)),
                              IF target < page THEN page ELSE page + 1,
                              BitmapPages[Place(target)])
  <2>1. P = BitmapPages
    BY <1>1, BitmapNow
  <2>2. BitmapPages' = PagesOf(source', cache', blocks')
    BY <1>1, BitmapNext
  <2> HIDE DEF P
  <2>3. QED
    BY <1>2, <1>6, <1>7, <2>1, <2>2
<1>9. BitmapPages' = IF target < page
                       THEN InsertAt(RemoveAt(BitmapPages, target + 1), page,
                                     BitmapPages[target + 1])
                       ELSE InsertAt(RemoveAt(BitmapPages, target + 1), page + 1,
                                     BitmapPages[target + 1])
  BY <1>8 DEF Place
<1>10. call'.op = "move" /\ call'.page = target /\ call'.before = page /\ target # page
  BY <1>2
<1>11. Sequence!MovePage(call')
  BY <1>3, <1>4, <1>5, <1>9, <1>10, SameEdits
     DEF Sequence!MovePage, Sequence!OnPage, Sequence!Edit
<1>12. QED
  BY <1>3, <1>11 DEF Promised, Sequence!Next, Sequence!Does

(* UnlockPage of a changed page.                                            *)
LEMMA UnlockChangedPageStep ==
  ASSUME PromiseInv, Inv', "encode" \notin Failures,
         NEW page \in DOMAIN locked, UnlockChangedPage(page)
  PROVE  PromiseInv' /\ Promised
<1> DEFINE t == Split(blocks, page)
           i == BlockAt(t, page)
           d == Without(cache, t[i])
           image == New(images')
           e == Reference(NewRef(d), 1)
           u == ReplaceAt(t, i, e)
<1>1. Inv
  BY DEF PromiseInv
<1>2. /\ blocks' = u /\ cache' = WriteFile(d, image) /\ changed' = TRUE
      /\ phase = "open" /\ UNCHANGED <<diskVars, mode, closeVars, answer, crashed>>
      /\ Within(blocks, page) /\ call' = [op |-> "replace", page |-> page, image |-> image]
  BY DEF UnlockChangedPage, Open, Without
<1>3. PromiseInv' /\ UNCHANGED <<Document, FileBacked, answer, result>>
  BY <1>1, <1>2, Editing
<1>4. image \in Image /\ image \in {New(k) : k \in 1..MaxImages}
  <2>1. images \in 0..MaxImages /\ images < MaxImages /\ images' = images + 1
    BY <1>1, EditStart DEF UnlockChangedPage, NewImage
  <2>2. images' \in 1..MaxImages
    BY <2>1, BoundAssumption
  <2>3. QED
    BY <2>2 DEF Image
<1>5. page \in Nat /\ page \in 0..(Len(BitmapPages) - 1) /\ page < Len(BitmapPages)
  <2>1. page \in Nat
    BY <1>1, StartTypes
  <2>2. QED
    BY <1>1, <1>2, <2>1, BitmapNow DEF Within
<1> HIDE DEF t, i, d, image, e, u
<1>6. PagesOf(source, WriteFile(d, image), u)
        = ReplaceAt(PagesOf(source, cache, blocks), Place(page), image)
  <2>1. t = Split(blocks, page) /\ i = BlockAt(t, page) /\ d = Without(cache, t[i])
        /\ e = Reference(NewRef(d), 1)
    BY DEF t, i, d, e
  <2>2. source \in Seq(Image) /\ Listed(Len(source), blocks, cache) /\ Owned(blocks, cache)
    BY <1>1, BitmapNow
  <2>3. PagesOf(source, WriteFile(d, image), ReplaceAt(t, i, e))
          = ReplaceAt(PagesOf(source, cache, blocks), Place(page), image)
    BY <1>2, <1>4, <1>5, <2>1, <2>2, ReplacedPages
  <2>4. QED
    BY <2>3 DEF u
<1>7. source' = source
  BY <1>2 DEF diskVars
<1>8. BitmapPages' = ReplaceAt(BitmapPages, Place(page), image)
  <2>1. BitmapPages = PagesOf(source, cache, blocks)
    BY <1>1, BitmapNow
  <2>2. BitmapPages' = PagesOf(source', cache', blocks')
    BY <1>1, BitmapNext
  <2>3. QED
    BY <1>2, <1>6, <1>7, <2>1, <2>2
<1>9. call'.op = "replace" /\ call'.page = page /\ call'.image = image
  BY <1>2
<1>10. Sequence!ReplacePage(call')
  BY <1>3, <1>4, <1>5, <1>8, <1>9, SameEdits
     DEF Sequence!ReplacePage, Sequence!OnPage, Sequence!Edit, Place
<1>11. QED
  BY <1>3, <1>10 DEF Promised, Sequence!Next, Sequence!Does
-----------------------------------------------------------------------------
(* Steps that do not touch the list.                                       *)
LEMMA Framed ==
  ASSUME UNCHANGED <<source, mode, blocks, cache>>
  PROVE  BitmapPages' = BitmapPages /\ FileBacked' = FileBacked
BY DEF BitmapPages, BlockPages, FileBacked

(* The document is where it was, unless files or the phase say otherwise.   *)
LEMMA DocumentStays ==
  ASSUME UNCHANGED <<file, spool>>,
         (phase' = phase /\ save' = save)
           \/ (phase \notin {"removed", "closed"} /\ phase' \notin {"removed", "closed"})
  PROVE  Document' = Document
BY DEF Document, SpoolIsDocument

(* Steps the user does not see.                                            *)
LEMMA Unseen ==
  ASSUME PromiseInv, Inv', KeptInv', CallInv',
         UNCHANGED <<source, mode, blocks, cache, changed, answer, result, call>>,
         Document' = Document
  PROVE  PromiseInv' /\ Promised
<1>1. BitmapPages' = BitmapPages /\ FileBacked' = FileBacked
  BY Framed
<1>2. DocumentInv'
  BY <1>1 DEF PromiseInv, DocumentInv
<1>3. UNCHANGED <<Sequence!seqVars, call>>
  BY <1>1 DEF Sequence!seqVars
<1>4. QED
  BY <1>2, <1>3 DEF PromiseInv, Promised

(* Steps that change neither the bitmap nor a file.                        *)
LEMMA Silent ==
  ASSUME PromiseInv, Inv', KeptInv',
         UNCHANGED <<source, file, spool, mode, blocks, cache, changed, phase, save, result,
                     answer, call>>
  PROVE  PromiseInv' /\ Promised
<1>1. Document' = Document
  BY DocumentStays
<1>2. CallInv'
  BY DEF PromiseInv, CallInv
<1>3. QED
  BY <1>1, <1>2, Unseen

(* The operations that the user does not see.                              *)
LEMMA SilentSteps ==
  ASSUME PromiseInv, Inv', KeptInv',
         \/ GetPageCount \/ Crash \/ UNCHANGED vars
         \/ \E page \in DOMAIN locked : UnlockPage(page)
  PROVE  PromiseInv' /\ Promised
<1>1. UNCHANGED <<source, file, spool, mode, blocks, cache, changed, phase, save, result,
                  answer, call>>
  BY DEF GetPageCount, Crash, UnlockPage, vars, diskVars, bitmapVars, closeVars
<1>2. QED
  BY <1>1, Silent

(* A call that takes its time begins.                                      *)
LEMMA Beginning ==
  ASSUME PromiseInv, Inv', KeptInv', CallInv',
         UNCHANGED <<source, mode, blocks, cache, changed, answer, result>>,
         call'.op \in {"save", "close"}, Document' = Document
  PROVE  PromiseInv' /\ Promised
<1>1. BitmapPages' = BitmapPages /\ FileBacked' = FileBacked
  BY Framed
<1>2. DocumentInv'
  BY <1>1 DEF PromiseInv, DocumentInv
<1>3. Sequence!Begins(call')
  BY <1>1 DEF Sequence!Begins, Sequence!seqVars
<1>4. QED
  BY <1>2, <1>3 DEF PromiseInv, Promised, Sequence!Next

(* Steps to a phase in which nothing is promised of files, and the start   *)
(* of saving elsewhere.                                                    *)
LEMMA PhaseSteps ==
  ASSUME PromiseInv, Inv', KeptInv', FindBlockFails \/ NullPointer \/ SaveElsewhere
  PROVE  PromiseInv' /\ Promised
<1>1. /\ UNCHANGED <<source, file, spool, mode, blocks, cache, changed, answer, result>>
      /\ phase \in {"open", "saving"} /\ phase' \in {"assert", "fault", "saving"}
  BY DEF FindBlockFails, NullPointer, SaveElsewhere, Open, Saving, diskVars, bitmapVars
<1>2. Document' = Document
  BY <1>1, DocumentStays
<1>3. CASE FindBlockFails \/ NullPointer
  <2>1. phase' \in {"assert", "fault"} /\ call' = call
    BY <1>3 DEF FindBlockFails, NullPointer
  <2>2. CallInv'
    BY <2>1 DEF CallInv
  <2>3. QED
    BY <1>1, <1>2, <2>1, <2>2, Unseen
<1>4. CASE SaveElsewhere
  <2>1. phase' = "saving" /\ save'.target = "elsewhere" /\ call'.op = "save"
    BY <1>4 DEF SaveElsewhere, NoSave
  <2>2. CallInv'
    BY <2>1 DEF CallInv
  <2>3. QED
    BY <1>1, <1>2, <2>1, <2>2, Beginning
<1>5. QED
  BY <1>3, <1>4

(* Closing returns: what was on disk is there, or all the pages are, which *)
(* they are when it returns success.                                       *)
LEMMA Returning ==
  ASSUME PromiseInv, Inv', KeptInv', NEW ok \in BOOLEAN,
         UNCHANGED <<source, mode, blocks, cache, changed, answer>>, call'.op = "close",
         phase # "closed", phase' = "closed",
         result' = IF ok THEN "success" ELSE "failure",
         Document' = Document \/ (FileBacked /\ changed /\ Sequence!Complete(Document')),
         ok => ~FileBacked \/ Sequence!Complete(Document')
  PROVE  PromiseInv' /\ Promised
<1>1. BitmapPages' = BitmapPages /\ FileBacked' = FileBacked
  BY Framed
<1>2. DocumentInv'
  BY <1>1 DEF PromiseInv, DocumentInv
<1>3. CallInv'
  BY DEF CallInv
<1>4. result = "none"
  BY DEF PromiseInv, KeptInv, ResultInv
<1>5. Sequence!Return(call', ok)
  BY <1>1, <1>4 DEF Sequence!Return, Sequence!NotClosed
<1>6. QED
  BY <1>2, <1>3, <1>5 DEF PromiseInv, Promised, Sequence!Next, Sequence!Does

(* CloseMultiBitmap.                                                       *)
LEMMA CloseMultiBitmapStep ==
  ASSUME PromiseInv, Inv', KeptInv', CloseMultiBitmap
  PROVE  PromiseInv' /\ Promised
<1>1. /\ UNCHANGED <<source, file, mode, blocks, cache, changed, answer>> /\ phase = "open"
      /\ call'.op = "close"
  BY DEF CloseMultiBitmap, Open, bitmapVars
<1>2. spool = Absent
  BY <1>1 DEF PromiseInv, Inv, SpoolInv
<1>3. CASE spool' = << >> /\ phase' = "saving" /\ save' = [NoSave EXCEPT !.target = "spool"]
           /\ result' = result
  <2>1. Document' = Document
    BY <1>1, <1>3 DEF Document, SpoolIsDocument
  <2>2. CallInv'
    BY <1>1, <1>3 DEF CallInv, NoSave
  <2>3. QED
    BY <1>1, <1>3, <2>1, <2>2, Beginning
<1>4. ASSUME NEW ok \in BOOLEAN, Closed(ok), spool' = spool, ok => ~(changed /\ FileBacked)
      PROVE  PromiseInv' /\ Promised
  <2>1. phase' = "closed" /\ result' = IF ok THEN "success" ELSE "failure"
    BY <1>4 DEF Closed
  <2>2. Document' = Document
    BY <1>1, <1>2, <1>4 DEF Document, SpoolIsDocument
  <2>3. ok => ~FileBacked \/ Document = BitmapPages
    BY <1>4 DEF PromiseInv, DocumentInv
  <2>4. ok => ~FileBacked \/ Sequence!Complete(Document')
    BY <2>2, <2>3, CompleteIs, WholeIsComplete
  <2>5. QED
    BY <1>1, <2>1, <2>2, <2>4, Returning
<1>5. QED
  BY <1>3, <1>4 DEF CloseMultiBitmap

(* What the spool file holds when it is whole.                             *)
LEMMA WholeSpool ==
  ASSUME KeptInv, phase \in {"spooled", "removed"}
  PROVE  /\ Sequence!Complete(spool) /\ spool # Absent
         /\ FileBacked /\ changed /\ save.target = "spool"
<1>1. /\ Nearly(Unnoticed, spool, BitmapPages) /\ spool \in Files
      /\ FileBacked /\ changed /\ save.target = "spool"
  BY DEF KeptInv, SpooledInv
<1>2. QED
  BY <1>1, CompleteIs, AbsentAssumption

(* RemoveFile: the spool file becomes the document, unless the file stays. *)
LEMMA RemoveFileStep ==
  ASSUME PromiseInv, Inv', KeptInv', RemoveFile
  PROVE  PromiseInv' /\ Promised
<1>1. /\ UNCHANGED <<source, spool, mode, blocks, cache, changed, save, answer, result, call>>
      /\ phase = "spooled" /\ phase' = "removed" /\ (file' = Absent \/ file' = file)
  BY DEF RemoveFile, TryRemove, bitmapVars
<1>2. /\ Sequence!Complete(spool) /\ spool # Absent
      /\ FileBacked /\ changed /\ save.target = "spool"
  BY <1>1, WholeSpool DEF PromiseInv
<1>3. call'.op = "close"
  BY <1>1 DEF PromiseInv, CallInv
<1>4. CallInv'
  BY <1>1, <1>3 DEF CallInv
<1>5. CASE file' = Absent
  <2>1. Document' = spool
    BY <1>1, <1>2, <1>5 DEF Document, SpoolIsDocument
  <2>2. BitmapPages' = BitmapPages /\ FileBacked' = FileBacked
    BY <1>1, Framed
  <2>3. DocumentInv'
    BY <1>1, <1>2 DEF DocumentInv
  <2>4. Sequence!Complete(Document')
    BY <1>2, <2>1
  <2>5. Sequence!Commit(call')
    BY <1>1, <1>2, <1>3, <2>2, <2>4 DEF Sequence!Commit
  <2>6. QED
    BY <1>4, <2>3, <2>5 DEF PromiseInv, Promised, Sequence!Next, Sequence!Does
<1>6. CASE file' = file /\ file # Absent
  <2>1. Document' = Document
    BY <1>6 DEF Document
  <2>2. QED
    BY <1>1, <1>4, <2>1, Unseen
<1>7. QED
  BY <1>1, <1>5, <1>6

(* RenameSpool.                                                            *)
LEMMA RenameSpoolStep ==
  ASSUME PromiseInv, Inv', KeptInv', RenameSpool
  PROVE  PromiseInv' /\ Promised
<1>1. /\ UNCHANGED <<source, mode, blocks, cache, changed, save, answer, call>>
      /\ phase = "removed"
  BY DEF RenameSpool, bitmapVars
<1>2. /\ Sequence!Complete(spool) /\ spool # Absent
      /\ FileBacked /\ changed /\ save.target = "spool"
  BY <1>1, WholeSpool DEF PromiseInv
<1>3. call'.op = "close"
  BY <1>1 DEF PromiseInv, CallInv
<1>4. CASE file' = spool /\ Closed(TRUE)
  <2>1. phase' = "closed" /\ result' = "success"
    BY <1>4 DEF Closed
  <2>2. Document' = spool
    BY <1>2, <1>4 DEF Document
  <2>3. Sequence!Complete(Document')
    BY <1>2, <2>2
  <2>4. QED
    BY <1>1, <1>2, <1>3, <2>1, <2>3, Returning
<1>5. CASE Closed(FALSE) /\ UNCHANGED <<file, spool>>
  <2>1. phase' = "closed" /\ result' = "failure"
    BY <1>5 DEF Closed
  <2>2. Document' = Document
    BY <1>1, <1>5, <2>1 DEF Document, SpoolIsDocument
  <2>3. QED
    BY <1>1, <1>3, <2>1, <2>2, Returning
<1>6. QED
  BY <1>4, <1>5 DEF RenameSpool

(* One page is saved: the user does not see it.                            *)
LEMMA SavePageStep ==
  ASSUME PromiseInv, Inv', KeptInv', SavePage
  PROVE  PromiseInv' /\ Promised
<1>1. /\ UNCHANGED <<source, file, mode, blocks, cache, changed, answer, result, call>>
      /\ phase = "saving" /\ phase' = "saving" /\ save'.target = save.target
  <2>1. save \in Saves
    BY DEF PromiseInv, Inv
  <2>2. save'.target = save.target
    BY <2>1 DEF SavePage, Saves
  <2>3. QED
    BY <2>2 DEF SavePage, Saving, bitmapVars
<1>2. Document' = Document
  BY <1>1 DEF Document, SpoolIsDocument
<1>3. CallInv'
  BY <1>1 DEF PromiseInv, CallInv
<1>4. QED
  BY <1>1, <1>2, <1>3, Unseen

(* The return of SaveMultiBitmapToHandle, and what CloseMultiBitmap does   *)
(* with it.                                                                *)
LEMMA EndSaveStep ==
  ASSUME PromiseInv, Inv', KeptInv', EndSave
  PROVE  PromiseInv' /\ Promised
<1>1. /\ UNCHANGED <<source, file, mode, blocks, cache, changed, call>>
      /\ phase = "saving" /\ ~MorePages
  BY DEF EndSave, Saving, bitmapVars
<1>2. BitmapPages' = BitmapPages /\ FileBacked' = FileBacked
  BY <1>1, Framed
<1>3. save.target = "spool" => call'.op = "close"
  BY <1>1 DEF PromiseInv, CallInv
<1>4. CASE /\ save.target = "elsewhere" /\ phase' = "open" /\ UNCHANGED <<spool, result>>
           /\ answer' = IF save.success THEN [page |-> -1, images |-> save.out] ELSE answer
  <2>1. Document' = Document
    BY <1>1, <1>4, DocumentStays
  <2>2. CallInv'
    BY <1>4 DEF CallInv
  <2>3. CASE save.success
    <3>1. Nearly(Unnoticed, save.out, BitmapPages)
      BY <1>1, <2>3, SavedAll DEF PromiseInv
    <3>2. answer'.page = -1 /\ answer'.images = save.out
      BY <1>4, <2>3
    <3>3. Sequence!Complete(answer'.images)
      BY <3>1, <3>2, CompleteIs
    <3>4. call'.op = "save"
      BY <1>1, <1>4 DEF PromiseInv, CallInv
    <3>5. Sequence!ShowAll(call')
      BY <1>2, <1>4, <2>1, <3>2, <3>3, <3>4
         DEF Sequence!ShowAll, Sequence!Show, Sequence!WholeBitmap
    <3>6. DocumentInv'
      BY <1>1, <1>2, <2>1 DEF PromiseInv, DocumentInv
    <3>7. QED
      BY <2>2, <3>5, <3>6 DEF PromiseInv, Promised, Sequence!Next, Sequence!Does
  <2>4. CASE ~save.success
    BY <1>1, <1>4, <2>1, <2>2, <2>4, Unseen
  <2>5. QED
    BY <2>3, <2>4
<1>5. CASE save.target = "spool" /\ phase' = "spooled" /\ UNCHANGED <<spool, result, answer>>
  <2>1. Document' = Document
    BY <1>1, <1>5, DocumentStays
  <2>2. CallInv'
    BY <1>3, <1>5 DEF CallInv
  <2>3. QED
    BY <1>1, <1>5, <2>1, <2>2, Unseen
<1>6. CASE save.target = "spool" /\ Closed(FALSE) /\ save' = NoSave /\ answer' = answer
  <2>1. phase' = "closed" /\ result' = "failure"
    BY <1>6 DEF Closed
  <2>2. Document' = Document
    BY <1>1, <1>6 DEF Document, SpoolIsDocument, NoSave
  <2>3. QED
    BY <1>1, <1>3, <1>6, <2>1, <2>2, Returning
<1>7. QED
  BY <1>4, <1>5, <1>6 DEF EndSave
-----------------------------------------------------------------------------
(* Position j after a sequence a, and a page in the middle of a sequence.  *)
Inside(i, a, j) == i = Len(a) + j

(* The page is the one in the middle part.                                 *)
LEMMA MiddlePage ==
  ASSUME NEW S, NEW a \in Seq(S), NEW m \in Seq(S), NEW c \in Seq(S),
         NEW j \in 1..Len(m), NEW i, Inside(i, a, j)
  PROVE  Cat(Cat(a, m), c)[i] = m[j]
<1> DEFINE d == a \o m
<1>1. d \in Seq(S) /\ i \in 1..Len(d) /\ d[i] = m[j]
  <2>1. i = Len(a) + j
    BY DEF Inside
  <2>2. QED
    BY <2>1, ConcatPositions, ConcatProperties, SMTT(30)
<1> HIDE DEF d
<1>2. (d \o c)[i] = d[i]
  BY <1>1, ConcatPositions
<1>3. QED
  BY <1>1, <1>2, Zenon DEF Cat, d

(* FindBlock finds the block that holds the page, and the pages before it. *)
LEMMA FoundParts ==
  ASSUME NEW n \in Nat, NEW bs \in Seq(Blocks(n)), NEW p \in Nat, Within(bs, p)
  PROVE  \E a, c \in Seq(Blocks(n)), x \in Blocks(n) :
           /\ Around(bs, a, x, c) /\ Total(a) <= p /\ p < Total(a) + PagesIn(x)
           /\ bs[BlockAt(bs, p)] = x
           /\ PagesThrough(bs)[BlockAt(bs, p) - 1] = Total(a)
<1> DEFINE S == Blocks(n)
<1>1. \A y \in S : PagesIn(y) \in Nat
  BY BlocksCount
<1>2. bs \in Seq(S)
  OBVIOUS
<1> HIDE DEF S
<1>3. PICK a \in Seq(S), c \in Seq(S), x \in S :
        Around(bs, a, x, c) /\ Total(a) <= p /\ p < Total(a) + PagesIn(x)
  BY <1>1, <1>2, BlockFound
<1>4. /\ BlockAt(bs, p) = Len(a) + 1
      /\ bs[BlockAt(bs, p)] = x
      /\ PagesThrough(bs)[BlockAt(bs, p) - 1] = Total(a)
  BY <1>1, <1>3, BlockAtPosition, SMTT(30)
<1>5. QED
  BY <1>3, <1>4 DEF S

(* The position of a page in its block and in the list.                    *)
LEMMA PageInBlock ==
  ASSUME NEW t \in Nat, NEW hi \in Int, NEW p \in Nat,
         t <= p, p < t + (hi - t + 1)
  PROVE  /\ p - t + 1 \in 1..(hi - t + 1)
         /\ p + 1 = t + (p - t + 1)
OBVIOUS

(* A page that is where the source file has it shows the source file's.    *)
LEMMA HomePage ==
  ASSUME NEW src \in Seq(Image), NEW c \in Caches, NEW bs \in Seq(Blocks(Len(src))),
         NEW p \in Nat, Within(bs, p),
         NEW b, b = bs[BlockAt(bs, p)], b.type = "continueus",
         NEW t, t = PagesThrough(bs)[BlockAt(bs, p) - 1], b.val1 - t = 0
  PROVE  PagesOf(src, c, bs)[p + 1] = src[p + 1]
<1> DEFINE S == Blocks(Len(src))
           v == View(src, c)
<1>1. Len(src) \in Nat
  BY LenProperties
<1>2. Views(v, src) /\ Lists(v, S, Shown)
  BY ViewFacts DEF Views
<1>3. \E a, d \in Seq(S), x \in S :
        /\ Around(bs, a, x, d) /\ Total(a) <= p /\ p < Total(a) + PagesIn(x)
        /\ bs[BlockAt(bs, p)] = x
        /\ PagesThrough(bs)[BlockAt(bs, p) - 1] = Total(a)
  BY <1>1, FoundParts
<1>4. PICK a \in Seq(S), d \in Seq(S) :
        /\ Around(bs, a, b, d) /\ Total(a) = t /\ t <= p /\ p < t + PagesIn(b) /\ b \in S
  BY <1>3
<1> DEFINE A == Spread(v, a)
           m == v[b]
           D == Spread(v, d)
           j == p - t + 1
           k == p + 1
<1>5. IsSpan(b)
  BY DEF IsSpan
<1>6. PICK lo, hi : lo = b.val1 /\ hi = b.val2
  OBVIOUS
<1>7. /\ lo \in Nat /\ hi \in Int /\ PagesIn(b) = hi - lo + 1 /\ lo - t = 0
      /\ m = Run(src, lo, hi) /\ m \in Seq(Shown) /\ Len(m) = PagesIn(b)
  BY <1>2, <1>4, <1>5, <1>6 DEF Blocks, Block, IsSpan, PagesIn, Views, Lists
<1>8. t \in Nat /\ Len(A) = t
  <2>1. a \in Seq(Blocks(Len(src)))
    BY <1>4
  <2>2. Len(A) = Total(a)
    BY <1>2, <2>1, SpreadLength
  <2>3. Total(a) \in Nat
    BY <1>1, <2>1, TotalCat
  <2>4. QED
    BY <1>4, <2>2, <2>3
<1>9. lo = t
  BY <1>7, <1>8
<1>10. j \in 1..(hi - t + 1) /\ k = t + j
  <2>1. t <= p /\ p < t + (hi - t + 1)
    BY <1>4, <1>7, <1>9
  <2>2. QED
    BY <1>7, <1>8, <2>1, PageInBlock
<1> HIDE DEF S, v
<1>11. /\ Spread(v, bs) = Cat(Cat(A, m), D)
       /\ A \in Seq(Shown) /\ D \in Seq(Shown)
  BY <1>2, <1>4, SpreadAround, SpreadType DEF S
<1> HIDE DEF A, m, D, j, k
<1>12. Len(m) = hi - t + 1
  BY <1>7, <1>9
<1>13. m[j] = src[t + j]
  BY <1>7, <1>9, <1>10 DEF Run
<1>14. Cat(Cat(A, m), D)[k] = m[j]
  <2>1. j \in 1..Len(m) /\ Inside(k, A, j)
    BY <1>8, <1>10, <1>12 DEF Inside
  <2>2. A \in Seq(Shown) /\ m \in Seq(Shown) /\ D \in Seq(Shown)
    BY <1>7, <1>11
  <2> HIDE DEF A, m, D, j, k
  <2>3. QED
    BY <2>1, <2>2, MiddlePage
<1>15. Spread(v, bs)[k] = src[k]
  BY <1>10, <1>11, <1>13, <1>14
<1>16. QED
  BY <1>15 DEF PagesOf, v, k

(* What LockPage takes from the source file is the page at that position.  *)
LEMMA PageAtHome ==
  ASSUME Inv, NEW page \in Nat, AtHome(page)
  PROVE  BitmapPages[page + 1] = source[page + 1]
<1>1. /\ source \in Seq(Image) /\ cache \in Caches /\ blocks \in Seq(Blocks(Len(source)))
      /\ BitmapPages = PagesOf(source, cache, blocks)
  BY BitmapNow
<1>2. PICK b, t : b = blocks[BlockAt(blocks, page)]
                  /\ t = PagesThrough(blocks)[BlockAt(blocks, page) - 1]
  OBVIOUS
<1>3. Within(blocks, page) /\ b.type = "continueus" /\ b.val1 - t = 0
  BY <1>2 DEF AtHome
<1>4. QED
  BY <1>1, <1>2, <1>3, HomePage, SMTT(30)

(* LockPage.                                                               *)
LEMMA LockPageStep ==
  ASSUME PromiseInv, Inv', KeptInv', "moved" \notin Habits, "beyond" \notin Habits,
         NEW page, LockPage(page)
  PROVE  PromiseInv' /\ Promised
<1>1. Inv
  BY DEF PromiseInv
<1>2. /\ UNCHANGED <<source, file, spool, mode, blocks, cache, changed, phase, save, result>>
      /\ answer' = [page |-> page, images |-> <<source[page + 1]>>]
      /\ call' = [op |-> "lock", page |-> page]
      /\ page \in 0..(Len(source) - 1) /\ phase = "open"
      /\ AtHome(page)
  BY DEF LockPage, MayLock, Open, diskVars, bitmapVars, closeVars
<1>3. /\ source \in Seq(Image) /\ cache \in Caches /\ blocks \in Seq(Blocks(Len(source)))
      /\ BitmapPages = PagesOf(source, cache, blocks)
      /\ Len(BitmapPages) = Total(blocks) /\ Total(blocks) \in Nat
  BY <1>1, BitmapNow
<1>4. page \in Nat /\ page < Len(BitmapPages) /\ page \in 0..(Len(BitmapPages) - 1)
  BY <1>2, <1>3 DEF AtHome, Within
<1>5. BitmapPages[page + 1] = source[page + 1]
  BY <1>1, <1>2, <1>4, PageAtHome
<1>6. BitmapPages' = BitmapPages /\ FileBacked' = FileBacked
  BY <1>2, Framed
<1>7. Document' = Document
  BY <1>2, DocumentStays
<1>8. DocumentInv' /\ CallInv'
  BY <1>2, <1>6, <1>7 DEF PromiseInv, DocumentInv, CallInv
<1>9. call'.op = "lock" /\ call'.page = page
  BY <1>2
<1>10. Sequence!ShowPage(call')
  BY <1>2, <1>4, <1>5, <1>6, <1>7, <1>9
     DEF Sequence!ShowPage, Sequence!OnPage, Sequence!Show
<1>11. QED
  BY <1>8, <1>10 DEF PromiseInv, Promised, Sequence!Next, Sequence!Does
-----------------------------------------------------------------------------
(* A bitmap that was just opened has the pages of the source file.         *)
LEMMA OpenedPages ==
  ASSUME Init, Inv
  PROVE  BitmapPages = source
<1>1. /\ BitmapPages = PagesOf(source, cache, blocks) /\ Len(source) \in Nat
      /\ source \in Seq(Image) /\ cache \in Caches /\ blocks \in Seq(Blocks(Len(source)))
  BY BitmapNow
<1>2. PICK src, c, n : src = source /\ c = cache /\ n = Len(source)
  OBVIOUS
<1> DEFINE v == View(src, c)
<1>3. Views(v, src)
  BY <1>1, <1>2, ViewFacts
<1>4. CASE HasHandle
  <2> DEFINE x == Span(0, n - 1)
  <2>1. blocks = One(x)
    BY <1>2, <1>4 DEF Init, One
  <2>2. x \in Blocks(n) /\ IsSpan(x) /\ x.val1 = 0 /\ x.val2 = n - 1
    BY <1>1, <1>2 DEF Span, Blocks, Block, IsSpan
  <2> HIDE DEF x, v
  <2>3. Lists(v, Blocks(n), Shown) /\ v[x] = Run(src, 0, n - 1)
    BY <1>2, <1>3, <2>2 DEF Views
  <2>4. Spread(v, One(x)) = v[x]
    BY <2>2, <2>3, SpreadOne
  <2>5. Run(src, 0, n - 1) = src
    <3>1. n \in Nat /\ src \in Seq(Image) /\ n = Len(src)
      BY <1>1, <1>2
    <3>2. Run(src, 0, n - 1) = [k \in 1..n |-> src[k]]
      BY <3>1 DEF Run
    <3>3. QED
      BY <3>1, <3>2
  <2>6. QED
    BY <1>1, <1>2, <2>1, <2>3, <2>4, <2>5 DEF PagesOf, v
<1>5. CASE ~HasHandle
  <2>1. blocks = << >> /\ source = << >>
    BY <1>5 DEF Init
  <2>2. PagesOf(source, cache, << >>) = << >>
    BY SpreadEmpty DEF PagesOf
  <2>3. QED
    BY <1>1, <2>1, <2>2
<1>6. QED
  BY <1>4, <1>5

(* Opening is the start of PageSequence, and its invariant holds then.     *)
LEMMA InitRefines == Init => PromiseInv /\ Sequence!Init
<1> SUFFICES ASSUME Init PROVE PromiseInv /\ Sequence!Init
  OBVIOUS
<1>1. Inv /\ BitmapPages = source
  BY InitInv, OpenedPages
<1>2. source \in Pages
  BY <1>1 DEF Inv, VariablesOK
<1>3. source # Absent
  <2>1. source \in Files
    BY <1>2, SeqMonotonic DEF Pages, Files
  <2>2. QED
    BY <2>1, AbsentAssumption
<1>4. Document = (IF FileBacked THEN source ELSE << >>)
  <2>1. CASE FileBacked /\ HasHandle
    BY <1>3, <2>1 DEF Init, Document
  <2>2. CASE ~(FileBacked /\ HasHandle)
    <3>1. file = Absent /\ phase = "open"
      BY <2>2 DEF Init
    <3>2. FileBacked => source = << >>
      BY <2>2 DEF Init
    <3>3. QED
      BY <3>1, <3>2 DEF Document, SpoolIsDocument
  <2>3. QED
    BY <2>1, <2>2
<1>5. phase = "open" /\ result = "none"
  BY DEF Init
<1>6. PromiseInv
  BY <1>1, <1>4, <1>5, InitKept DEF PromiseInv, DocumentInv, CallInv
<1>7. source \in {[k \in 1..n |-> Source(k)] : n \in SourceSizes \cup {0}}
  <2>1. PICK n \in SourceSizes : source = IF HasHandle THEN [k \in 1..n |-> Source(k)] ELSE << >>
    BY DEF Init
  <2>2. CASE HasHandle
    BY <2>1, <2>2
  <2>3. CASE ~HasHandle
    <3>1. [k \in 1..0 |-> Source(k)] = << >>
      OBVIOUS
    <3>2. QED
      BY <2>1, <2>3, <3>1
  <2>4. QED
    BY <2>2, <2>3
<1>8. FileBacked \in BOOLEAN
  BY DEF FileBacked
<1>9. answer = [page |-> -1, images |-> << >>]
  BY DEF Init
<1>10. Sequence!Init
  BY <1>1, <1>4, <1>5, <1>7, <1>8, <1>9 DEF Sequence!Init, Sequence!WholeBitmap, Sequence!NotClosed
<1>11. QED
  BY <1>6, <1>10

(* Every step is a step of PageSequence, or one that its user does not see. *)
LEMMA NextRefines ==
  ASSUME "encode" \notin Failures, "moved" \notin Habits, "beyond" \notin Habits,
         PromiseInv, [Next]_vars
  PROVE  PromiseInv' /\ Promised
<1>0. Inv' /\ KeptInv'
  BY NextInv, KeptNext DEF PromiseInv
<1>1. CASE UNCHANGED vars
  BY <1>0, <1>1, SilentSteps
<1>2. CASE AppendPage
  BY <1>0, <1>2, AppendPageStep
<1>3. ASSUME NEW page \in Positions, InsertPage(page) PROVE PromiseInv' /\ Promised
  BY <1>0, <1>3, InsertPageStep
<1>4. ASSUME NEW page \in Positions, DeletePage(page) PROVE PromiseInv' /\ Promised
  BY <1>0, <1>4, DeletePageStep
<1>5. ASSUME NEW page \in Positions, NEW target \in Positions, MovePage(target, page)
      PROVE  PromiseInv' /\ Promised
  BY <1>0, <1>5, MovePageStep
<1>6. ASSUME NEW page \in DOMAIN source, LockPage(page - 1) PROVE PromiseInv' /\ Promised
  BY <1>0, <1>6, LockPageStep
<1>7. ASSUME NEW page \in DOMAIN locked, UnlockPage(page) PROVE PromiseInv' /\ Promised
  BY <1>0, <1>7, SilentSteps
<1>8. ASSUME NEW page \in DOMAIN locked, UnlockChangedPage(page)
      PROVE  PromiseInv' /\ Promised
  BY <1>0, <1>8, UnlockChangedPageStep
<1>9. CASE GetPageCount \/ Crash
  BY <1>0, <1>9, SilentSteps
<1>10. CASE FindBlockFails \/ NullPointer \/ SaveElsewhere
  BY <1>0, <1>10, PhaseSteps
<1>11. CASE CloseMultiBitmap
  BY <1>0, <1>11, CloseMultiBitmapStep
<1>12. CASE SaveStep
  BY <1>0, <1>12, SavePageStep, EndSaveStep, RemoveFileStep, RenameSpoolStep DEF SaveStep
<1>13. QED
  BY <1>1, <1>2, <1>3, <1>4, <1>5, <1>6, <1>7, <1>8, <1>9, <1>10, <1>11, <1>12 DEF Next

(* A multi-page bitmap is a sequence of pages, and every call does to it    *)
(* what the call says, with its arguments, if compressing a page never      *)
(* fails, and the client locks only pages that are where the source file    *)
(* has them.  Source and cached pages that cannot be read, a full disk,     *)
(* files that cannot be removed or renamed and a crash at any moment are    *)
(* all among the steps this covers.                                         *)
THEOREM MultiPageIsPageSequence ==
  ASSUME "encode" \notin Failures, "moved" \notin Habits, "beyond" \notin Habits
  PROVE  Spec => IsPageSequence
<1>1. Init => PromiseInv /\ Sequence!Init
  BY InitRefines
<1>2. PromiseInv /\ [Next]_vars => PromiseInv' /\ [Sequence!Next]_<<Sequence!seqVars, call>>
  BY NextRefines DEF Promised
<1>3. QED
  BY <1>1, <1>2, PTL DEF Spec, IsPageSequence, Sequence!Spec
-----------------------------------------------------------------------------
(* A step that leaves the list alone, and locks nothing new.               *)
LEMMA PositionsStay ==
  ASSUME LockedIsAtPosition, UNCHANGED <<source, blocks, cache>>,
         DOMAIN locked' \subseteq DOMAIN locked,
         \A p \in DOMAIN locked' : locked'[p] = locked[p]
  PROVE  LockedIsAtPosition'
<1>1. BitmapPages' = BitmapPages
  BY DEF BitmapPages, BlockPages
<1>2. \A p : Within(blocks, p)' <=> Within(blocks, p)
  BY DEF Within
<1>3. QED
  BY <1>1, <1>2 DEF LockedIsAtPosition

(* Replacing a page leaves the others where they are.                      *)
LEMMA OthersStay ==
  ASSUME NEW S, NEW s \in Seq(S), NEW x \in S, NEW p \in 0..(Len(s) - 1),
         NEW q \in 0..(Len(s) - 1), p # q
  PROVE  /\ Len(ReplaceAt(s, p + 1, x)) = Len(s)
         /\ ReplaceAt(s, p + 1, x)[q + 1] = s[q + 1]
BY DEF ReplaceAt

(* UnlockPage of a changed page: the other locked pages stay where they    *)
(* are.                                                                    *)
LEMMA PositionsAfterUnlock ==
  ASSUME "encode" \notin Failures, PromiseInv, Inv', LockedIsAtPosition,
         NEW page \in DOMAIN locked, UnlockChangedPage(page)
  PROVE  LockedIsAtPosition'
<1>1. Promised
  BY UnlockChangedPageStep
<1>2. /\ BitmapPages \in Seq(Shown) /\ Len(BitmapPages) = Total(blocks) /\ Total(blocks) \in Nat
  BY BitmapNow DEF PromiseInv
<1>3. Len(BitmapPages') = Total(blocks')
  <2>1. source' \in Seq(Image)
    BY DEF Inv, VariablesOK, Pages
  <2>2. blocks' \in Seq(Blocks(Len(source'))) /\ cache' \in Caches
    BY DEF Inv, ListInv, Listed
  <2>3. QED
    BY <2>1, <2>2, BitmapNext, PagesOfFacts
<1>4. /\ locked' = [p \in DOMAIN locked \ {page} |-> locked[p]]
      /\ call' = [op |-> "replace", page |-> page, image |-> New(images')]
  BY DEF UnlockChangedPage, Forget
<1>5. /\ DOMAIN locked' = DOMAIN locked \ {page} /\ \A p \in DOMAIN locked' : locked'[p] = locked[p]
      /\ call'.op = "replace" /\ call'.page = page /\ call'.image = New(images')
  BY <1>4
<1>6. DOMAIN locked \subseteq Nat
  BY DEF PromiseInv, Inv, VariablesOK
<1>7. ASSUME NEW q \in DOMAIN locked'
      PROVE  Within(blocks, q)' /\ BitmapPages'[q + 1] = locked'[q]
  <2>1. /\ q \in Nat /\ q # page /\ q \in DOMAIN locked /\ locked'[q] = locked[q]
        /\ q < Total(blocks) /\ BitmapPages[q + 1] = locked[q]
    BY <1>5, <1>6, <1>7 DEF LockedIsAtPosition, Within
  <2>2. CASE BitmapPages' = BitmapPages
    BY <1>2, <1>3, <2>1, <2>2 DEF Within
  <2>3. CASE Sequence!ReplacePage(call')
    <3>1. /\ page \in 0..(Len(BitmapPages) - 1)
          /\ BitmapPages' = ReplaceAt(BitmapPages, page + 1, New(images'))
          /\ New(images') \in {New(n) : n \in 1..MaxImages}
      BY <1>5, <2>3, SameEdits DEF Sequence!ReplacePage, Sequence!OnPage, Sequence!Edit
    <3>2. New(images') \in Shown
      BY <3>1 DEF Shown, Image
    <3>3. q \in 0..(Len(BitmapPages) - 1)
      BY <1>2, <2>1
    <3>4. Len(BitmapPages') = Len(BitmapPages) /\ BitmapPages'[q + 1] = BitmapPages[q + 1]
      BY <1>2, <2>1, <3>1, <3>2, <3>3, OthersStay
    <3>5. QED
      BY <1>2, <1>3, <2>1, <3>4 DEF Within
  <2>4. QED
    <3>1. \/ Sequence!ReplacePage(call')
          \/ UNCHANGED <<Sequence!seqVars, call>>
      BY <1>1, <1>5
         DEF Promised, Sequence!Next, Sequence!Does, Sequence!Begins, Sequence!AppendPage,
             Sequence!InsertPage, Sequence!DeletePage, Sequence!MovePage, Sequence!ShowPage,
             Sequence!ShowAll, Sequence!Commit, Sequence!Return
    <3>2. QED
      BY <2>2, <2>3, <3>1 DEF Sequence!seqVars
<1>8. QED
  BY <1>7 DEF LockedIsAtPosition

(* Every step keeps the locked pages at their positions.                   *)
LEMMA PositionsNext ==
  ASSUME "encode" \notin Failures, "moved" \notin Habits, "beyond" \notin Habits,
         PromiseInv, LockedIsAtPosition, [Next]_vars
  PROVE  LockedIsAtPosition'
<1>1. Inv /\ Inv'
  BY NextInv DEF PromiseInv
<1>2. CASE AppendPage \/ \E page \in Positions :
             \/ InsertPage(page) \/ DeletePage(page)
             \/ \E target \in Positions : MovePage(target, page)
  <2>1. DOMAIN locked' = {}
    BY <1>2 DEF AppendPage, InsertPage, DeletePage, MovePage, MayStore
  <2>2. QED
    BY <2>1 DEF LockedIsAtPosition
<1>3. ASSUME NEW page \in DOMAIN source, LockPage(page - 1) PROVE LockedIsAtPosition'
  <2>1. PICK p : p = page - 1
    OBVIOUS
  <2>2. /\ UNCHANGED <<source, blocks, cache>> /\ AtHome(p) /\ p \in 0..(Len(source) - 1)
        /\ locked' = [q \in DOMAIN locked \cup {p} |-> IF q = p THEN source[p + 1] ELSE locked[q]]
    BY <1>3, <2>1 DEF LockPage, MayLock, diskVars, bitmapVars
  <2>3. BitmapPages[p + 1] = source[p + 1]
    BY <1>1, <2>2, PageAtHome
  <2>4. BitmapPages' = BitmapPages /\ (Within(blocks, p)' <=> Within(blocks, p))
        /\ \A q : Within(blocks, q)' <=> Within(blocks, q)
    BY <2>2 DEF BitmapPages, BlockPages, Within
  <2>5. Within(blocks, p)
    BY <2>2 DEF AtHome
  <2>6. ASSUME NEW q \in DOMAIN locked'
        PROVE  Within(blocks, q)' /\ BitmapPages'[q + 1] = locked'[q]
    <3>1. CASE q = p
      BY <2>2, <2>3, <2>4, <2>5, <3>1
    <3>2. CASE q # p
      <4>1. q \in DOMAIN locked /\ locked'[q] = locked[q]
        BY <2>2, <2>6, <3>2
      <4>2. Within(blocks, q) /\ BitmapPages[q + 1] = locked[q]
        BY <4>1 DEF LockedIsAtPosition
      <4>3. QED
        BY <2>4, <4>1, <4>2
    <3>3. QED
      BY <3>1, <3>2
  <2>7. QED
    BY <2>6 DEF LockedIsAtPosition
<1>4. ASSUME NEW page \in DOMAIN locked, UnlockChangedPage(page) PROVE LockedIsAtPosition'
  BY <1>1, <1>4, PositionsAfterUnlock
<1>5. CASE \/ \E page \in DOMAIN locked : UnlockPage(page)
           \/ GetPageCount \/ FindBlockFails \/ NullPointer \/ SaveElsewhere
           \/ CloseMultiBitmap \/ SaveStep \/ Crash \/ UNCHANGED vars
  <2>1. UNCHANGED <<source, blocks, cache>>
    BY <1>5 DEF UnlockPage, GetPageCount, FindBlockFails, NullPointer, SaveElsewhere,
                CloseMultiBitmap, SaveStep, SavePage, EndSave, RemoveFile, RenameSpool, Crash,
                vars, diskVars, bitmapVars
  <2>2. /\ DOMAIN locked' \subseteq DOMAIN locked
        /\ \A p \in DOMAIN locked' : locked'[p] = locked[p]
    <3>1. \/ \E page \in DOMAIN locked : Forget(page)
          \/ locked' = << >> \/ locked' = locked
      BY <1>5 DEF UnlockPage, GetPageCount, FindBlockFails, NullPointer, SaveElsewhere,
                  CloseMultiBitmap, Closed, SaveStep, SavePage, EndSave, RemoveFile,
                  RenameSpool, Crash, vars
    <3>2. ASSUME NEW page \in DOMAIN locked, Forget(page)
          PROVE  /\ DOMAIN locked' \subseteq DOMAIN locked
                 /\ \A p \in DOMAIN locked' : locked'[p] = locked[p]
      BY <3>2 DEF Forget
    <3>3. CASE locked' = << >>
      <4>1. DOMAIN locked' = {}
        BY <3>3
      <4>2. QED
        BY <4>1
    <3>4. QED
      BY <3>1, <3>2, <3>3
  <2>3. QED
    BY <2>1, <2>2, PositionsStay
<1>6. QED
  BY <1>2, <1>3, <1>4, <1>5 DEF Next

(* A page that is locked stays the one at its position, until it is        *)
(* unlocked: no operation changes what UnlockPage will find there, if the  *)
(* client locked the page where the source file has it.                    *)
THEOREM LockedStaysAtPosition ==
  ASSUME "encode" \notin Failures, "moved" \notin Habits, "beyond" \notin Habits
  PROVE  Spec => []LockedIsAtPosition
<1>1. Init => PromiseInv /\ LockedIsAtPosition
  <2>1. Init => PromiseInv
    BY InitRefines
  <2>2. Init => LockedIsAtPosition
    BY DEF Init, LockedIsAtPosition
  <2>3. QED
    BY <2>1, <2>2
<1>2. PromiseInv /\ LockedIsAtPosition /\ [Next]_vars => PromiseInv' /\ LockedIsAtPosition'
  BY NextRefines, PositionsNext
<1>3. QED
  BY <1>1, <1>2, PTL DEF Spec
=============================================================================
