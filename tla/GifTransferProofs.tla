------------------------- MODULE GifTransferProofs -------------------------
(***************************************************************************)
(* Proofs about loading what was saved: the decoder of GifCodec learns the *)
(* strings that the coder learnt, one code later, whatever the sizes of    *)
(* bytes, codes, sub-blocks and of the caller's buffer; so every pixel     *)
(* that is shown is the one saved (GifCodec implements PictureTransfer),   *)
(* only the known losses occur, and the decoder's bits fit their int.      *)
(***************************************************************************)
EXTENDS GifCodecProofs

-----------------------------------------------------------------------------
(* The pixels as a text.                                                   *)

(* Some pixels of the picture in the order in which it is written.         *)
Hues(i) == Nat \union {Pixel(i)[n] : n \in Nat}
Text(i, a, len) == [d \in 1..len |-> Pixel(i)[a + (d - 1)]]
IsText(i, a, len, s) ==
  /\ s \in Seq(Hues(i)) /\ Len(s) = len
  /\ \A d \in 1..len : s[d] = Pixel(i)[a + (d - 1)]

(* A text is a sequence of the pixels' values.                             *)
LEMMA TextFacts ==
  ASSUME NEW i, NEW a \in Nat, NEW len \in Nat
  PROVE  IsText(i, a, len, Text(i, a, len))
<1>1. ASSUME NEW d \in 1..len PROVE Pixel(i)[a + (d - 1)] \in Hues(i)
  <2>1. a + (d - 1) \in Nat
    OBVIOUS
  <2> QED
    BY <2>1, Zenon DEF Hues
<1>2. PICK s : s = Text(i, a, len)
  OBVIOUS
<1>3. s \in [1..len -> Hues(i)]
  BY <1>1, <1>2, Zenon DEF Text
<1>4. s \in Seq(Hues(i)) /\ Len(s) = len
  BY <1>3
<1>5. \A d \in 1..len : s[d] = Pixel(i)[a + (d - 1)]
  BY <1>2, Zenon DEF Text
<1> QED
  BY <1>2, <1>4, <1>5, Zenon DEF IsText

(* A sequence of those pixels is that text.                                *)
LEMMA TextIs ==
  ASSUME NEW i, NEW a \in Nat, NEW len \in Nat, NEW s \in Seq(Hues(i)), Len(s) = len,
         \A d \in 1..len : s[d] = Pixel(i)[a + (d - 1)]
  PROVE  s = Text(i, a, len)
<1>1. PICK t : t = Text(i, a, len)
  OBVIOUS
<1>2. IsText(i, a, len, t)
  BY <1>1, TextFacts, Zenon
<1>3. s = t
  <2>1. t \in Seq(Hues(i)) /\ Len(t) = len /\ \A d \in 1..len : t[d] = Pixel(i)[a + (d - 1)]
    BY <1>2, Zenon DEF IsText
  <2>2. Len(s) = Len(t) /\ \A d \in 1..Len(s) : s[d] = t[d]
    BY <2>1, Zenon
  <2> QED
    BY <2>1, <2>2, SeqEqual, Zenon
<1> QED
  BY <1>1, <1>3

(* Texts that follow each other are one text.                              *)
TextsJoin(i, a, l, len) == Text(i, a, l) \o Text(i, a + l, len) = Text(i, a, l + len)

(* They are, whatever their lengths.                                       *)
LEMMA TextJoins ==
  ASSUME NEW i, NEW a \in Nat, NEW l \in Nat, NEW len \in Nat
  PROVE  TextsJoin(i, a, l, len)
<1> SUFFICES Text(i, a, l) \o Text(i, a + l, len) = Text(i, a, l + len)
  BY Zenon DEF TextsJoin
<1>0. PICK b \in Nat : b = a + l
  OBVIOUS
<1>1. PICK s, t : s = Text(i, a, l) /\ t = Text(i, b, len)
  OBVIOUS
<1>2. /\ s \in Seq(Hues(i)) /\ Len(s) = l /\ \A d \in 1..l : s[d] = Pixel(i)[a + (d - 1)]
      /\ t \in Seq(Hues(i)) /\ Len(t) = len /\ \A d \in 1..len : t[d] = Pixel(i)[b + (d - 1)]
  <2>1. IsText(i, a, l, s) /\ IsText(i, b, len, t)
    BY <1>0, <1>1, TextFacts, Zenon
  <2> QED
    BY <2>1, Zenon DEF IsText
<1>3. PICK r : r = s \o t
  OBVIOUS
<1>4. PICK n \in Nat : n = l + len
  OBVIOUS
<1>5. /\ r \in Seq(Hues(i)) /\ Len(r) = n
      /\ \A d \in 1..l : r[d] = s[d]
      /\ \A d \in 1..len : r[l + d] = t[d]
  <2>1. s \in Seq(Hues(i)) /\ Len(s) = l /\ t \in Seq(Hues(i)) /\ Len(t) = len
    BY <1>2
  <2>2. r \in Seq(Hues(i)) /\ Len(r) = n
    BY <1>3, <1>4, <2>1, ConcatProperties, Zenon
  <2>3. \A d \in 1..l : r[d] = s[d]
    BY <1>3, <2>1
  <2>4. \A d \in 1..len : r[l + d] = t[d]
    BY <1>3, <2>1
  <2> QED
    BY <2>2, <2>3, <2>4, Zenon
<1>6. ASSUME NEW d \in 1..n PROVE r[d] = Pixel(i)[a + (d - 1)]
  <2>1. CASE d <= l
    <3>1. d \in 1..l
      BY <2>1
    <3> QED
      BY <1>2, <1>5, <3>1, Zenon
  <2>2. CASE ~(d <= l)
    <3>1. PICK e \in Nat : e = d - l /\ e \in 1..len /\ d = l + e /\ b + (e - 1) = a + (d - 1)
      <4>1. d - l \in 1..len /\ d = l + (d - l) /\ b + ((d - l) - 1) = a + (d - 1)
        BY <1>0, <1>4, <2>2
      <4>2. PICK e : e = d - l
        OBVIOUS
      <4>3. e \in 1..len /\ d = l + e /\ b + (e - 1) = a + (d - 1)
        BY <4>1, <4>2, Zenon
      <4>4. e \in Nat
        BY <4>3
      <4> QED
        BY <4>2, <4>3, <4>4, Zenon
    <3>2. r[l + e] = t[e] /\ t[e] = Pixel(i)[b + (e - 1)]
      <4>1. e \in 1..len
        BY <3>1
      <4> QED
        BY <1>2, <1>5, <4>1, Zenon
    <3>3. r[d] = r[l + e] /\ Pixel(i)[b + (e - 1)] = Pixel(i)[a + (d - 1)]
      BY <3>1, Zenon
    <3> QED
      BY <3>2, <3>3, Zenon
  <2> QED
    BY <2>1, <2>2
<1>7. r = Text(i, a, n)
  BY <1>4, <1>5, <1>6, TextIs, Zenon
<1> QED
  BY <1>0, <1>1, <1>3, <1>4, <1>7, Zenon

(* The first pixel of a text, and what follows it.                         *)
LEMMA TextEnds ==
  ASSUME NEW i, NEW a \in Nat, NEW n \in Nat, n > 0
  PROVE  /\ Head(Text(i, a, n)) = Pixel(i)[a]
         /\ Tail(Text(i, a, n)) = Text(i, a + 1, n - 1)
         /\ Text(i, a, n) # << >>
<1>0. PICK b, len \in Nat : b = a + 1 /\ len = n - 1
  <2>1. a + 1 \in Nat /\ n - 1 \in Nat
    OBVIOUS
  <2> QED
    BY <2>1, Zenon
<1>1. PICK s : s = Text(i, a, n)
  OBVIOUS
<1>2. s \in Seq(Hues(i)) /\ Len(s) = n /\ \A d \in 1..n : s[d] = Pixel(i)[a + (d - 1)]
  <2>1. IsText(i, a, n, s)
    BY <1>1, TextFacts, Zenon
  <2> QED
    BY <2>1, Zenon DEF IsText
<1>3. s # << >> /\ Head(s) = s[1] /\ Tail(s) \in Seq(Hues(i)) /\ Len(Tail(s)) = len
      /\ \A d \in 1..len : Tail(s)[d] = s[d + 1]
  <2>1. s # << >> /\ Head(s) = s[1]
    BY <1>2
  <2>2. Tail(s) \in Seq(Hues(i)) /\ Len(Tail(s)) = len
    BY <1>0, <1>2
  <2>3. \A d \in 1..len : Tail(s)[d] = s[d + 1]
    BY <1>0, <1>2
  <2> QED
    BY <2>1, <2>2, <2>3, Zenon
<1>4. s[1] = Pixel(i)[a]
  <2>1. 1 \in 1..n /\ a + (1 - 1) = a
    OBVIOUS
  <2> QED
    BY <1>2, <2>1, Zenon
<1>5. ASSUME NEW d \in 1..len PROVE Tail(s)[d] = Pixel(i)[b + (d - 1)]
  <2>1. d + 1 \in 1..n /\ a + ((d + 1) - 1) = b + (d - 1)
    BY <1>0
  <2> QED
    BY <1>2, <1>3, <2>1, Zenon
<1>6. Tail(s) = Text(i, b, len)
  <2>1. PICK r \in Seq(Hues(i)) : r = Tail(s)
    BY <1>3, Zenon
  <2>2. Len(r) = len /\ \A d \in 1..len : r[d] = Pixel(i)[b + (d - 1)]
    BY <1>3, <1>5, <2>1, Zenon
  <2>3. r = Text(i, b, len)
    BY <2>2, TextIs
  <2> QED
    BY <2>1, <2>3, Zenon
<1> QED
  BY <1>0, <1>1, <1>3, <1>4, <1>6, Zenon

(* A text and the pixel behind it.                                         *)
LEMMA TextGrows ==
  ASSUME NEW i, NEW a \in Nat, NEW len \in Nat
  PROVE  Append(Text(i, a, len), Pixel(i)[a + len]) = Text(i, a, len + 1)
<1>0. PICK b, n \in Nat : b = a + len /\ n = len + 1
  OBVIOUS
<1>1. PICK s, x, r : s = Text(i, a, len) /\ x = Pixel(i)[b] /\ r = Append(s, x)
  OBVIOUS
<1>2. s \in Seq(Hues(i)) /\ Len(s) = len /\ (\A d \in 1..len : s[d] = Pixel(i)[a + (d - 1)])
      /\ x \in Hues(i)
  <2>1. x \in Hues(i)
    BY <1>0, <1>1, Zenon DEF Hues
  <2>2. IsText(i, a, len, s)
    BY <1>1, TextFacts, Zenon
  <2> QED
    BY <2>1, <2>2, Zenon DEF IsText
<1>3. r \in Seq(Hues(i)) /\ Len(r) = n /\ r[n] = x /\ \A d \in 1..len : r[d] = s[d]
  BY <1>0, <1>1, <1>2
<1>4. ASSUME NEW d \in 1..n PROVE r[d] = Pixel(i)[a + (d - 1)]
  <2>1. CASE d = n
    <3>1. a + (d - 1) = b
      BY <1>0, <2>1
    <3> QED
      BY <1>1, <1>3, <2>1, <3>1, Zenon
  <2>2. CASE d # n
    <3>1. d \in 1..len
      BY <1>0, <2>2
    <3> QED
      BY <1>2, <1>3, <3>1, Zenon
  <2> QED
    BY <2>1, <2>2
<1>5. r = Text(i, a, n)
  BY <1>0, <1>3, <1>4, TextIs, Zenon
<1> QED
  BY <1>0, <1>1, <1>5, Zenon

(* Places where the same pixels begin have the same texts.                 *)
LEMMA TextSame ==
  ASSUME NEW i, NEW a \in Nat, NEW b \in Nat, NEW len \in Nat, SameText(i, a, b, len)
  PROVE  Text(i, a, len) = Text(i, b, len) /\ (len > 0 => Pixel(i)[a] = Pixel(i)[b])
<1>1. ASSUME NEW d \in 1..len PROVE Pixel(i)[a + (d - 1)] = Pixel(i)[b + (d - 1)]
  <2>1. d - 1 \in 0..len-1
    OBVIOUS
  <2> QED
    BY <2>1, Zenon DEF SameText
<1>2. Text(i, a, len) = Text(i, b, len)
  BY <1>1, Zenon DEF Text
<1>3. ASSUME len > 0 PROVE Pixel(i)[a] = Pixel(i)[b]
  <2>1. 0 \in 0..len-1 /\ a + 0 = a /\ b + 0 = b
    BY <1>3
  <2> QED
    BY <2>1, Zenon DEF SameText
<1> QED
  BY <1>2, <1>3

(* A text of one pixel.                                                    *)
LEMMA TextOne ==
  ASSUME NEW i, NEW a \in Nat
  PROVE  Text(i, a, 1) = <<Pixel(i)[a]>>
<1>0. PICK c : c = Pixel(i)[a]
  OBVIOUS
<1>1. PICK s : s = Text(i, a, 1)
  OBVIOUS
<1>2. s \in Seq(Hues(i)) /\ Len(s) = 1 /\ s[1] = c
  <2>1. s \in Seq(Hues(i)) /\ Len(s) = 1 /\ \A d \in 1..1 : s[d] = Pixel(i)[a + (d - 1)]
    <3>1. IsText(i, a, 1, s)
      <4>1. 1 \in Nat
        OBVIOUS
      <4> QED
        BY <1>1, <4>1, TextFacts, Zenon
    <3> QED
      BY <3>1, Zenon DEF IsText
  <2>2. 1 \in 1..1 /\ a + (1 - 1) = a
    OBVIOUS
  <2> QED
    BY <1>0, <2>1, <2>2, Zenon
<1>3. s = <<c>>
  BY <1>2
<1> QED
  BY <1>0, <1>1, <1>3

-----------------------------------------------------------------------------
(* The strings of the codes.                                               *)

(* A code that is no clear code: what its numbers are.                     *)
Literal(i, w, k, L) ==
  w.code[k] < ClearCode(i) /\ L = 1 /\ Pixel(i)[w.at[k]] = w.code[k]
Repeats(i, w, k, F, L, q) ==
  /\ F <= q /\ q < k /\ w.code[k] = EndCode(i) + 1 + (q - F)
  /\ L = (w.at[q + 1] - w.at[q]) + 1 /\ SameText(i, w.at[k], w.at[q], L)
CodeFacts(i, w, k, F, L) ==
  /\ F = w.from[k] /\ F <= k /\ 1 <= L /\ L <= (k - F) + 1
  /\ w.at[k] \in Nat /\ w.at[k + 1] = w.at[k] + L
  /\ w.from[k + 1] = F
  /\ w.code[k] \in Nat /\ w.code[k] # EndCode(i) /\ w.code[k] <= EndCode(i) + (k - F)
  /\ EndCode(i) + 1 + (k - F) < MaxCode
  /\ F < k => w.from[k - 1] = F /\ w.code[k - 1] # ClearCode(i)

(* The numbers of a code that is no clear code: its place behind the last  *)
(* clear code, its length, and what it stands for.                         *)
LEMMA CodeNumbers ==
  ASSUME NEW i \in Images, NEW w, CodesOk(i, w), NEW k \in Nat, k < w.n, w.code[k] # ClearCode(i)
  PROVE  \E F, L \in Nat : /\ CodeFacts(i, w, k, F, L)
                           /\ Literal(i, w, k, L) \/ \E q \in Nat : Repeats(i, w, k, F, L, q)
<1> HIDE DEF Pow2
<1>1. TraceType(w)
  BY Zenon DEF CodesOk
<1>2. w.n \in Nat /\ k \in 0..w.n-1 /\ k \in 0..w.n
  <2>1. w.n \in Nat
    BY <1>1, Zenon DEF TraceType
  <2> QED
    BY <2>1
<1>3. CodeOk(i, w, k)
  BY <1>2, Zenon DEF CodesOk
<1>4. k + 1 \in Nat
  OBVIOUS
<1>5. PICK F, a, b, c, E \in Nat :
        F = w.from[k] /\ a = w.at[k] /\ b = w.at[k + 1] /\ c = w.code[k] /\ E = EndCode(i)
  <2>1. w.from[k] \in Nat /\ w.at[k] \in Nat /\ w.at[k + 1] \in Nat /\ w.code[k] \in Nat
    BY <1>1, <1>4 DEF TraceType
  <2>2. EndCode(i) \in Nat
    BY ImageFacts
  <2> QED
    BY <2>1, <2>2, Zenon
<1>6. /\ Table(i, w, k) /\ w.from[k + 1] = F
      /\ Number(i, w, k, k) < MaxCode
      /\ b - a \in 1..(k - F) + 1
      /\ Spells(i, w, k, c, a, b - a)
  BY <1>3, <1>5, Zenon DEF CodeOk, Meant
<1>7. F <= k /\ F \in 0..k
  BY <1>5, <1>6 DEF Table
<1>8. PICK L \in Nat : L = b - a /\ 1 <= L /\ L <= (k - F) + 1 /\ b = a + L
  <2>1. b - a \in Nat /\ 1 <= b - a /\ b - a <= (k - F) + 1 /\ b = a + (b - a)
    BY <1>5, <1>6, <1>7
  <2> QED
    BY <2>1, Zenon
<1>9. E + 1 + (k - F) < MaxCode
  BY <1>5, <1>6 DEF Number
<1>10. c # EndCode(i) /\ c <= E + (k - F)
  <2>1. Spells(i, w, k, c, a, L)
    BY <1>6, <1>8
  <2>2. c # EndCode(i) /\ c <= EndCode(i) + (k - w.from[k])
    BY <1>2, <1>5, <1>6, <2>1, SpellsCode, Zenon
  <2> QED
    BY <1>5, <2>2
<1>11. ASSUME F < k PROVE w.from[k - 1] = F /\ w.code[k - 1] # ClearCode(i)
  <2>1. k - 1 \in F..k-1
    BY <1>5, <1>11
  <2> QED
    BY <1>5, <1>6, <2>1, Zenon DEF Table
<1>12. Literal(i, w, k, L) \/ \E q \in Nat : Repeats(i, w, k, F, L, q)
  <2>1. CASE c < ClearCode(i) /\ b - a = 1 /\ Pixel(i)[a] = c
    BY <1>5, <1>8, <2>1, Zenon DEF Literal
  <2>2. ASSUME NEW q \in w.from[k]..k-1, c = Number(i, w, k, q),
               b - a = (w.at[q + 1] - w.at[q]) + 1, SameText(i, a, w.at[q], b - a)
        PROVE  \E p \in Nat : Repeats(i, w, k, F, L, p)
    <3>1. q \in Nat /\ F <= q /\ q < k
      BY <1>5
    <3>2. w.code[k] = EndCode(i) + 1 + (q - F)
      BY <1>5, <2>2, Zenon DEF Number
    <3>3. Repeats(i, w, k, F, L, q)
      BY <1>5, <1>8, <2>2, <3>1, <3>2, Zenon DEF Repeats
    <3> QED
      BY <3>1, <3>3, Zenon
  <2> QED
    BY <1>6, <2>1, <2>2, Zenon DEF Spells
<1>13. CodeFacts(i, w, k, F, L)
  BY <1>5, <1>6, <1>7, <1>8, <1>9, <1>10, <1>11, Zenon DEF CodeFacts
<1> QED
  BY <1>5, <1>8, <1>12, <1>13, Zenon

(* The strings of the decoder after k codes.                               *)
Strings(i, w, k, str, old) ==
  /\ str \in [Codes -> Seq(Hues(i))]
  /\ \A c \in Nat : c < ClearCode(i) => str[c] = <<c>>
  /\ \A q \in Nat : w.from[k] <= q /\ q + 1 < k =>
       str[Number(i, w, k, q)] = Text(i, w.at[q], (w.at[q + 1] - w.at[q]) + 1)
  /\ w.from[k] = k => old = None
  /\ w.from[k] # k => old = w.code[k - 1] /\ str[old] = Text(i, w.at[k - 1], w.at[k] - w.at[k - 1])
Upto(i, w, k) == IF w.from[k] = k THEN EndCode(i) + 1 ELSE EndCode(i) + (k - w.from[k])
Added(str, old, next, code) ==
  IF old # None /\ next < MaxCode
  THEN [str EXCEPT ![next] = Append(str[old], Head(str[IF code = next THEN old ELSE code]))]
  ELSE str
Decodes(i, w, k, K, L, new, old) ==
  /\ new[w.code[k]] = Text(i, w.at[k], L)
  /\ Strings(i, w, k, new, old) /\ Strings(i, w, K, new, w.code[k])

(* The first code after a clear code.                                      *)
LEMMA FirstDecodes ==
  ASSUME NEW i \in Images, NEW w, NEW k \in Nat, NEW K \in Nat, K = k + 1,
         NEW L \in Nat, CodeFacts(i, w, k, k, L),
         Literal(i, w, k, L) \/ \E q \in Nat : Repeats(i, w, k, k, L, q),
         NEW str, NEW old, Strings(i, w, k, str, old),
         NEW next, NEW new, new = Added(str, old, next, w.code[k])
  PROVE  Decodes(i, w, k, K, L, new, old)
<1>1. /\ w.from[k] = k /\ w.from[K] = k /\ w.at[k] \in Nat /\ w.at[K] = w.at[k] + L
      /\ w.code[k] \in Nat
  BY Zenon DEF CodeFacts
<1>2. new = str
  BY <1>1, Zenon DEF Strings, Added
<1>3. Literal(i, w, k, L)
  BY DEF Repeats
<1>4. new[w.code[k]] = Text(i, w.at[k], L)
  <2>1. new[w.code[k]] = <<w.code[k]>>
    <3>1. \A c \in Nat : c < ClearCode(i) => new[c] = <<c>>
      BY <1>2, Zenon DEF Strings
    <3>2. w.code[k] \in Nat /\ w.code[k] < ClearCode(i)
      BY <1>1, <1>3, Zenon DEF Literal
    <3> QED
      BY <3>1, <3>2
  <2>2. Text(i, w.at[k], 1) = <<w.code[k]>>
    <3>1. Text(i, w.at[k], 1) = <<Pixel(i)[w.at[k]]>>
      BY <1>1, TextOne, Zenon
    <3> QED
      BY <1>3, <3>1, Zenon DEF Literal
  <2> QED
    BY <1>3, <2>1, <2>2, Zenon DEF Literal
<1>5. Strings(i, w, K, new, w.code[k])
  <2>1. K - 1 = k /\ w.from[K] # K
    BY <1>1
  <2>2. \A q \in Nat : ~(w.from[K] <= q /\ q + 1 < K)
    BY <1>1
  <2>3. w.at[K] - w.at[k] = L
    <3>1. PICK a \in Nat : a = w.at[k]
      BY <1>1
    <3>2. (a + L) - a = L
      BY <3>1
    <3> QED
      BY <1>1, <3>1, <3>2, Zenon
  <2> QED
    BY <1>2, <1>4, <2>1, <2>2, <2>3, Zenon DEF Strings
<1> QED
  BY <1>2, <1>4, <1>5, Zenon DEF Decodes

(* The code before one that is not the first after a clear code.           *)
Precedes(i, w, k, F, j, l, a) ==
  /\ k = j + 1 /\ F <= j /\ 1 <= l /\ w.at[j] = a /\ w.at[k] = a + l
  /\ l <= (j - F) + 1
  /\ w.code[j] \in Nat /\ w.code[j] <= EndCode(i) + (j - F)

(* A code that does not follow a clear code follows an ordinary one.       *)
LEMMA CodeBefore ==
  ASSUME NEW i \in Images, NEW w, CodesOk(i, w), NEW k \in Nat, k < w.n,
         NEW F \in Nat, NEW L \in Nat, CodeFacts(i, w, k, F, L), F < k
  PROVE  \E j, l, a \in Nat : Precedes(i, w, k, F, j, l, a)
<1>1. PICK j \in Nat : k = j + 1 /\ j = k - 1 /\ F <= j
  <2>1. k - 1 \in Nat /\ k = (k - 1) + 1 /\ F <= k - 1
    OBVIOUS
  <2> QED
    BY <2>1
<1>2. w.n \in Nat
  BY Zenon DEF CodesOk, TraceType
<1>3. j < w.n
  BY <1>1, <1>2
<1>4. w.from[j] = F /\ w.code[j] # ClearCode(i)
  BY <1>1, Zenon DEF CodeFacts
<1>5. PICK G, l \in Nat : CodeFacts(i, w, j, G, l)
  BY <1>3, <1>4, CodeNumbers, Zenon
<1>6. /\ G = F /\ 1 <= l /\ l <= (j - F) + 1 /\ w.at[j] \in Nat /\ w.at[j + 1] = w.at[j] + l
      /\ w.code[j] \in Nat /\ w.code[j] <= EndCode(i) + (j - F)
  BY <1>4, <1>5, Zenon DEF CodeFacts
<1>7. PICK a \in Nat : a = w.at[j]
  BY <1>6
<1>8. w.at[k] = a + l
  BY <1>1, <1>6, <1>7, Zenon
<1> QED
  BY <1>1, <1>6, <1>7, <1>8, Zenon DEF Precedes

(* The string that a later code adds: that of the code before, and a pixel. *)
Adds(i, w, k, F, str, new, j, next) ==
  /\ next = EndCode(i) + (k - F) /\ next \in Codes
  /\ new \in [Codes -> Seq(Hues(i))]
  /\ new[next] = Text(i, w.at[j], (w.at[k] - w.at[j]) + 1)
  /\ \A c \in Codes : c # next => new[c] = str[c]

(* AddString enters the string of the code before, with one pixel more:    *)
(* the string that the coder learnt with that code. This holds too for the *)
(* code that is taken and entered at once, the one the coder learnt last.  *)
LEMMA StringAdded ==
  ASSUME NEW i \in Images, NEW w, CodesOk(i, w), NEW k \in Nat, k < w.n,
         NEW F \in Nat, NEW L \in Nat, CodeFacts(i, w, k, F, L), F < k,
         Literal(i, w, k, L) \/ \E q \in Nat : Repeats(i, w, k, F, L, q),
         NEW str, NEW old, Strings(i, w, k, str, old),
         NEW new, new = Added(str, old, EndCode(i) + (k - F), w.code[k]),
         NEW j \in Nat, k = j + 1
  PROVE  Adds(i, w, k, F, str, new, j, EndCode(i) + (k - F))
<1> HIDE DEF Pow2
<1>1. PICK l, a \in Nat : /\ F <= j /\ 1 <= l /\ w.at[j] = a /\ w.at[k] = a + l
                          /\ w.code[j] \in Nat /\ w.code[j] <= EndCode(i) + (j - F)
  <2>1. PICK x, l, a \in Nat : Precedes(i, w, k, F, x, l, a)
    BY CodeBefore, Zenon
  <2>2. k = x + 1
    BY <2>1, Zenon DEF Precedes
  <2>3. x = j
    BY <2>2
  <2>4. Precedes(i, w, k, F, j, l, a)
    BY <2>1, <2>3, Zenon
  <2> QED
    BY <2>1, <2>4, Zenon DEF Precedes
<1>2. PICK E, M \in Nat : E = EndCode(i) /\ M = MaxCode
  BY ImageFacts
<1>3. PICK next \in Nat : next = E + (k - F) /\ next + 1 < M
  <2>1. E + 1 + (k - F) < M
    BY <1>2, Zenon DEF CodeFacts
  <2>2. E + (k - F) \in Nat /\ (E + (k - F)) + 1 < M
    BY <1>2, <2>1
  <2> QED
    BY <2>2
<1>4. next \in Codes
  BY <1>2, <1>3 DEF Codes
<1>5. PICK c : c = w.code[k]
  OBVIOUS
<1>6. /\ w.from[k] = F /\ c \in Nat /\ L >= 1
  BY <1>5, Zenon DEF CodeFacts
<1>7. old = w.code[j] /\ str[old] = Text(i, a, l)
  <2>1. w.from[k] # k /\ k - 1 = j
    BY <1>6
  <2>2. old = w.code[k - 1] /\ str[old] = Text(i, w.at[k - 1], w.at[k] - w.at[k - 1])
    BY <2>1, Zenon DEF Strings
  <2>3. (a + l) - a = l
    BY <1>1
  <2> QED
    BY <1>1, <2>1, <2>2, <2>3, Zenon
<1>8. old \in Nat /\ old < next
  <2>1. old \in Nat /\ old <= E + (j - F)
    BY <1>1, <1>2, <1>7
  <2>2. E + (j - F) < next
    BY <1>1, <1>2, <1>3
  <2>3. E + (j - F) \in Nat
    BY <1>1, <1>2
  <2> QED
    BY <2>1, <2>2, <2>3, <1>3
<1>9. old # None /\ next < MaxCode
  BY <1>2, <1>3, <1>8 DEF None
<1>10. Head(str[IF c = next THEN old ELSE c]) = Pixel(i)[w.at[k]]
  <2>0. PICK b \in Nat : b = w.at[k]
    BY <1>1
  <2>1. CASE Literal(i, w, k, L)
    <3>1. c < ClearCode(i) /\ Pixel(i)[w.at[k]] = c
      BY <1>5, <2>1, Zenon DEF Literal
    <3>2. ClearCode(i) \in Nat /\ ClearCode(i) < EndCode(i)
      BY ImageFacts
    <3>3. c # next
      BY <1>2, <1>3, <1>6, <3>1, <3>2
    <3>4. str[c] = <<c>>
      <4>1. \A x \in Nat : x < ClearCode(i) => str[x] = <<x>>
        BY Zenon DEF Strings
      <4> QED
        BY <1>6, <3>1, <4>1
    <3>5. Head(<<c>>) = c
      OBVIOUS
    <3> QED
      BY <3>1, <3>3, <3>4, <3>5, Zenon
  <2>2. ASSUME NEW q \in Nat, Repeats(i, w, k, F, L, q) PROVE Head(str[IF c = next THEN old ELSE c]) = Pixel(i)[w.at[k]]
    <3>1. F <= q /\ q < k /\ c = E + 1 + (q - F) /\ L = (w.at[q + 1] - w.at[q]) + 1
          /\ SameText(i, w.at[k], w.at[q], L)
      BY <1>2, <1>5, <2>2, Zenon DEF Repeats
    <3>2. PICK y \in Nat : y = w.at[q]
      <4>1. TraceType(w)
        BY Zenon DEF CodesOk
      <4> QED
        BY <4>1 DEF TraceType
    <3>3. Pixel(i)[w.at[k]] = Pixel(i)[y]
      <4>1. SameText(i, b, y, L) /\ L > 0
        BY <1>6, <2>0, <3>1, <3>2
      <4> QED
        <5>1. b \in Nat /\ y \in Nat
          BY <2>0, <3>2
        <5>2. Pixel(i)[b] = Pixel(i)[y]
          BY <4>1, <5>1, TextSame, ZenonT(30)
        <5> QED
          BY <2>0, <5>2, Zenon
    <3>4. CASE q = j
      <4>1. c = next
        BY <1>2, <1>3, <3>1, <3>4
      <4>2. l > 0 /\ l \in Nat /\ a \in Nat
        BY <1>1
      <4>4. Head(Text(i, a, l)) = Pixel(i)[a]
        BY <4>2, TextEnds, Zenon
      <4> QED
        BY <1>1, <1>7, <3>2, <3>3, <3>4, <4>1, <4>4, Zenon
    <3>5. CASE q # j
      <4>1. q + 1 < k
        BY <3>1, <3>5
      <4>2. c # next
        BY <1>2, <1>3, <3>1, <4>1
      <4>3. c = Number(i, w, k, q)
        BY <1>2, <1>6, <3>1, Zenon DEF Number
      <4>4. str[c] = Text(i, y, L)
        BY <1>6, <3>1, <3>2, <4>1, <4>3, Zenon DEF Strings
      <4>5. L > 0 /\ y \in Nat
        BY <1>6, <3>2
      <4>6. Head(Text(i, y, L)) = Pixel(i)[y]
        BY <4>5, TextEnds, Zenon
      <4> QED
        BY <3>3, <4>2, <4>4, <4>6, Zenon
    <3> QED
      BY <3>4, <3>5
  <2> QED
    BY <2>1, <2>2
<1>11. PICK added : added = Append(str[old], Head(str[IF c = next THEN old ELSE c]))
  OBVIOUS
<1>12. added = Text(i, a, l + 1) /\ added \in Seq(Hues(i))
  <2>1. PICK n, b \in Nat : n = l + 1 /\ b = a + l
    BY <1>1
  <2>2. Append(Text(i, a, l), Pixel(i)[b]) = Text(i, a, n)
    <3>1. Append(Text(i, a, l), Pixel(i)[a + l]) = Text(i, a, l + 1)
      BY <1>1, TextGrows, ZenonT(30)
    <3> QED
      BY <2>1, <3>1, Zenon
  <2>3. added = Text(i, a, n)
    BY <1>1, <1>7, <1>10, <1>11, <2>1, <2>2, Zenon
  <2>4. IsText(i, a, n, added)
    BY <1>1, <2>1, <2>3, TextFacts, Zenon
  <2> QED
    BY <2>1, <2>3, <2>4, Zenon DEF IsText
<1>13. new = [str EXCEPT ![next] = added]
  <2>1. new = Added(str, old, next, c)
    BY <1>2, <1>3, <1>5, Zenon
  <2> QED
    BY <1>9, <1>11, <2>1, Zenon DEF Added
<1>14. str \in [Codes -> Seq(Hues(i))]
  BY Zenon DEF Strings
<1>15. /\ new \in [Codes -> Seq(Hues(i))] /\ new[next] = added
       /\ \A x \in Codes : x # next => new[x] = str[x]
  BY <1>4, <1>12, <1>13, <1>14
<1>16. (w.at[k] - w.at[j]) + 1 = l + 1
  <2>1. ((a + l) - a) + 1 = l + 1
    BY <1>1
  <2> QED
    BY <1>1, <2>1, Zenon
<1>17. new[next] = Text(i, w.at[j], (w.at[k] - w.at[j]) + 1)
  BY <1>1, <1>12, <1>15, <1>16, Zenon
<1> QED
  BY <1>2, <1>3, <1>4, <1>15, <1>17, Zenon DEF Adds

(* A later code: its string is there once the one before it is added.      *)
LEMMA LaterDecodes ==
  ASSUME NEW i \in Images, NEW w, CodesOk(i, w), NEW k \in Nat, k < w.n, NEW K \in Nat, K = k + 1,
         NEW F \in Nat, NEW L \in Nat, CodeFacts(i, w, k, F, L), F < k,
         Literal(i, w, k, L) \/ \E q \in Nat : Repeats(i, w, k, F, L, q),
         NEW str, NEW old, Strings(i, w, k, str, old),
         NEW new, new = Added(str, old, EndCode(i) + (k - F), w.code[k])
  PROVE  Decodes(i, w, k, K, L, new, old)
<1> HIDE DEF Pow2
<1>1. PICK j, l, a \in Nat : Precedes(i, w, k, F, j, l, a)
  BY CodeBefore, Zenon
<1>2. /\ k = j + 1 /\ F <= j /\ 1 <= l /\ w.at[j] = a /\ w.at[k] = a + l
      /\ w.code[j] \in Nat /\ w.code[j] <= EndCode(i) + (j - F)
  BY <1>1, Zenon DEF Precedes
<1>3. PICK E, next \in Nat : E = EndCode(i) /\ next = E + (k - F)
  <2>1. EndCode(i) \in Nat
    BY ImageFacts
  <2>2. PICK E \in Nat : E = EndCode(i)
    BY <2>1
  <2>3. E + (k - F) \in Nat
    BY <2>2
  <2> QED
    BY <2>2, <2>3, Zenon
<1>4. Adds(i, w, k, F, str, new, j, next)
  <2>1. Adds(i, w, k, F, str, new, j, EndCode(i) + (k - F))
    BY <1>1, <1>2, StringAdded, Zenon
  <2> QED
    BY <1>3, <2>1, Zenon
<1>5. /\ next \in Codes /\ new \in [Codes -> Seq(Hues(i))]
      /\ new[next] = Text(i, a, l + 1)
      /\ \A x \in Nat : x < next => new[x] = str[x]
  <2>1. /\ next \in Codes /\ new \in [Codes -> Seq(Hues(i))]
        /\ new[next] = Text(i, w.at[j], (w.at[k] - w.at[j]) + 1)
        /\ \A x \in Codes : x # next => new[x] = str[x]
    BY <1>4, Zenon DEF Adds
  <2>2. ((a + l) - a) + 1 = l + 1
    BY <1>1
  <2>3. new[next] = Text(i, a, l + 1)
    BY <1>2, <2>1, <2>2, Zenon
  <2>4. ASSUME NEW x \in Nat, x < next PROVE new[x] = str[x]
    <3>1. MaxCode \in Nat
      BY ImageFacts
    <3>2. x \in Codes /\ x # next
      BY <1>3, <2>1, <2>4, <3>1 DEF Codes
    <3> QED
      BY <2>1, <3>2, Zenon
  <2> QED
    BY <2>1, <2>3, <2>4, Zenon
<1>6. PICK c, b \in Nat : c = w.code[k] /\ b = w.at[k]
  BY Zenon DEF CodeFacts
<1>7. /\ w.from[k] = F /\ w.from[K] = F /\ w.at[K] = b + L /\ 1 <= L
  BY <1>6, Zenon DEF CodeFacts
<1>8. ClearCode(i) \in Nat /\ ClearCode(i) < E /\ E <= next
  <2>1. ClearCode(i) \in Nat /\ ClearCode(i) < E
    BY <1>3, ImageFacts
  <2> QED
    BY <1>3, <2>1
<1>9. \A x \in Nat : x < ClearCode(i) => new[x] = <<x>>
  <2>1. ASSUME NEW x \in Nat, x < ClearCode(i) PROVE new[x] = <<x>>
    <3>1. x < next
      BY <1>3, <1>8, <2>1
    <3>2. str[x] = <<x>>
      BY <2>1, Zenon DEF Strings
    <3> QED
      BY <1>5, <3>1, <3>2, Zenon
  <2> QED
    BY <2>1, Zenon
<1>10. ASSUME NEW q \in Nat, F <= q, q + 1 < k
       PROVE  /\ new[E + 1 + (q - F)] = Text(i, w.at[q], (w.at[q + 1] - w.at[q]) + 1)
              /\ E + 1 + (q - F) < next
  <2>1. str[Number(i, w, k, q)] = Text(i, w.at[q], (w.at[q + 1] - w.at[q]) + 1)
    BY <1>7, <1>10, Zenon DEF Strings
  <2>2. Number(i, w, k, q) = E + 1 + (q - F)
    BY <1>3, <1>7, Zenon DEF Number
  <2>3. E + 1 + (q - F) \in Nat /\ E + 1 + (q - F) < next
    BY <1>3, <1>10
  <2> QED
    BY <1>5, <2>1, <2>2, <2>3, Zenon
<1>11. new[c] = Text(i, b, L)
  <2>1. CASE Literal(i, w, k, L)
    <3>1. c < ClearCode(i) /\ L = 1 /\ Pixel(i)[b] = c
      BY <1>6, <2>1, Zenon DEF Literal
    <3>2. Text(i, b, 1) = <<Pixel(i)[b]>>
      BY <1>6, TextOne, Zenon
    <3>3. new[c] = <<c>>
      BY <1>6, <1>9, <3>1, Zenon
    <3> QED
      BY <3>1, <3>2, <3>3, Zenon
  <2>2. ASSUME NEW q \in Nat, Repeats(i, w, k, F, L, q) PROVE new[c] = Text(i, b, L)
    <3>1. F <= q /\ q < k /\ c = E + 1 + (q - F) /\ L = (w.at[q + 1] - w.at[q]) + 1
          /\ SameText(i, b, w.at[q], L)
      BY <1>3, <1>6, <2>2, Zenon DEF Repeats
    <3>2. PICK y \in Nat : y = w.at[q]
      <4>1. TraceType(w)
        BY Zenon DEF CodesOk
      <4> QED
        BY <4>1 DEF TraceType
    <3>3. Text(i, b, L) = Text(i, y, L)
      <4>1. b \in Nat /\ y \in Nat /\ SameText(i, b, y, L)
        BY <1>6, <3>1, <3>2, Zenon
      <4>2. Text(i, b, L) = Text(i, y, L) /\ (L > 0 => Pixel(i)[b] = Pixel(i)[y])
        BY <4>1, TextSame
      <4> QED
        BY <4>2
    <3>4. CASE q = j
      <4>1. c = next
        BY <1>2, <1>3, <3>1, <3>4
      <4>2. L = l + 1
        <5>1. ((a + l) - a) + 1 = l + 1
          BY <1>1
        <5> QED
          BY <1>2, <3>1, <3>4, <5>1, Zenon
      <4> QED
        BY <1>2, <1>5, <3>2, <3>3, <3>4, <4>1, <4>2, Zenon
    <3>5. CASE q # j
      <4>1. q + 1 < k
        BY <1>1, <1>2, <3>1, <3>5
      <4> QED
        BY <1>10, <3>1, <3>2, <3>3, <4>1, Zenon
    <3> QED
      BY <3>4, <3>5
  <2> QED
    BY <2>1, <2>2
<1>12. Strings(i, w, k, new, old)
  <2>1. w.from[k] # k
    BY <1>7
  <2>2. old = w.code[k - 1] /\ str[old] = Text(i, w.at[k - 1], w.at[k] - w.at[k - 1])
    BY <2>1, Zenon DEF Strings
  <2>3. k - 1 = j
    BY <1>1, <1>2
  <2>4. new[old] = str[old]
    <3>1. PICK o \in Nat : o = w.code[j] /\ o <= E + (j - F)
      BY <1>2, <1>3
    <3>2. o < next
      BY <1>1, <1>2, <1>3, <3>1
    <3> QED
      BY <1>5, <2>2, <2>3, <3>1, <3>2, Zenon
  <2>5. ASSUME NEW q \in Nat, w.from[k] <= q, q + 1 < k
        PROVE  new[Number(i, w, k, q)] = Text(i, w.at[q], (w.at[q + 1] - w.at[q]) + 1)
    BY <1>3, <1>7, <1>10, <2>5, Zenon DEF Number
  <2> QED
    BY <1>5, <1>9, <2>1, <2>2, <2>4, <2>5, Zenon DEF Strings
<1>13. Strings(i, w, K, new, c)
  <2>1. w.from[K] # K /\ K - 1 = k
    BY <1>7
  <2>2. w.at[K] - w.at[k] = L
    <3>1. (b + L) - b = L
      BY <1>6
    <3> QED
      BY <1>6, <1>7, <3>1, Zenon
  <2>3. c = w.code[K - 1] /\ new[c] = Text(i, w.at[K - 1], w.at[K] - w.at[K - 1])
    BY <1>6, <1>11, <2>1, <2>2, Zenon
  <2>4. ASSUME NEW q \in Nat, w.from[K] <= q, q + 1 < K
        PROVE  new[Number(i, w, K, q)] = Text(i, w.at[q], (w.at[q + 1] - w.at[q]) + 1)
    <3>1. F <= q /\ Number(i, w, K, q) = E + 1 + (q - F)
      BY <1>3, <1>7, <2>4, Zenon DEF Number
    <3>2. CASE q = j
      <4>1. E + 1 + (q - F) = next
        BY <1>1, <1>2, <1>3, <3>2
      <4>2. ((a + l) - a) + 1 = l + 1
        BY <1>1
      <4>3. (w.at[q + 1] - w.at[q]) + 1 = l + 1
        BY <1>2, <3>2, <4>2, Zenon
      <4> QED
        BY <1>2, <1>5, <3>1, <3>2, <4>1, <4>3, Zenon
    <3>3. CASE q # j
      <4>1. q + 1 < k
        BY <1>1, <1>2, <2>4, <3>3
      <4> QED
        BY <1>10, <3>1, <4>1, Zenon
    <3> QED
      BY <3>2, <3>3
  <2> QED
    BY <1>5, <1>9, <2>1, <2>3, <2>4, Zenon DEF Strings
<1> QED
  BY <1>6, <1>11, <1>12, <1>13, Zenon DEF Decodes

(* A clear code: the strings of single pixels are there again.             *)
LEMMA ClearDecodes ==
  ASSUME NEW i \in Images, NEW w, CodesOk(i, w), NEW k \in Nat, k < w.n, NEW K \in Nat, K = k + 1,
         w.code[k] = ClearCode(i), NEW str, NEW old, Strings(i, w, k, str, old),
         NEW new, new = [c \in Codes |-> IF c < ClearCode(i) THEN <<c>> ELSE str[c]]
  PROVE  Strings(i, w, K, new, None) /\ w.from[K] = K /\ w.at[K] = w.at[k]
<1> HIDE DEF Pow2
<1>1. w.n \in Nat
  BY Zenon DEF CodesOk, TraceType
<1>2. CodeOk(i, w, k)
  <2>1. k \in 0..w.n-1
    BY <1>1
  <2> QED
    BY <2>1, Zenon DEF CodesOk
<1>3. w.from[K] = K /\ w.at[K] = w.at[k]
  BY <1>2, Zenon DEF CodeOk, Meant
<1>4. ClearCode(i) \in Nat /\ MaxCode \in Nat /\ ClearCode(i) < MaxCode
  BY ImageFacts
<1>5. \A c \in Nat : c < ClearCode(i) => c \in Codes
  BY <1>4 DEF Codes
<1>6. str \in [Codes -> Seq(Hues(i))]
  BY Zenon DEF Strings
<1>7. new \in [Codes -> Seq(Hues(i))]
  <2>1. ASSUME NEW c \in Codes PROVE (IF c < ClearCode(i) THEN <<c>> ELSE str[c]) \in Seq(Hues(i))
    <3>1. c \in Nat
      BY <1>4 DEF Codes
    <3>2. c \in Hues(i)
      BY <3>1, Zenon DEF Hues
    <3>3. <<c>> \in Seq(Hues(i))
      BY <3>2
    <3>4. str[c] \in Seq(Hues(i))
      BY <1>6
    <3> QED
      BY <3>3, <3>4, Zenon
  <2> QED
    BY <2>1, Zenon
<1>8. \A c \in Nat : c < ClearCode(i) => new[c] = <<c>>
  BY <1>5, Zenon
<1>9. \A q \in Nat : ~(w.from[K] <= q /\ q + 1 < K)
  BY <1>3
<1>10. Strings(i, w, K, new, None)
  BY <1>3, <1>7, <1>8, <1>9, Zenon DEF Strings
<1> QED
  BY <1>3, <1>10

-----------------------------------------------------------------------------
(* Bits the decoder takes.                                                 *)

(* Bits that are taken from a number, and a byte that is put on top.       *)
LEMMA BitsTaken ==
  ASSUME NEW v \in Nat, NEW o \in Nat, NEW z \in Nat, NEW s \in Nat, s <= z
  PROVE  /\ Bits(v, o, z) % Pow2[s] = Bits(v, o, s)
         /\ Bits(v, o, z) \div Pow2[s] = Bits(v, o + s, z - s)
<1> HIDE DEF Pow2
<1>1. PICK m \in Nat : m = z - s /\ z = s + m
  <2>1. z - s \in Nat /\ z = s + (z - s)
    OBVIOUS
  <2> QED
    BY <2>1, Zenon
<1>3. m \in Nat
  BY <1>1
<1>2. Bits(v, o, s + m) % Pow2[s] = Bits(v, o, s)
  <2>1. Bits(v, o, s + m) = Bits(v, o, s) + Bits(v, o + s, m) * Pow2[s]
    BY <1>3, BitsOfBits
  <2>2. PICK x, y, p \in Nat : x = Bits(v, o, s) /\ y = Bits(v, o + s, m) /\ p = Pow2[s] /\ x < p
    <3>1. Bits(v, o, s) \in Nat /\ Bits(v, o, s) < Pow2[s] /\ Pow2[s] \in Nat
      BY BitsType
    <3>2. Bits(v, o + s, m) \in Nat
      <4>1. o + s \in Nat
        OBVIOUS
      <4> QED
        BY <1>3, <4>1, BitsType
    <3> QED
      BY <3>1, <3>2, Zenon
  <2>3. PICK e \in Nat : e = y * p
    BY <2>2
  <2>4. x + y * p = y * p + x
    BY <2>2, <2>3
  <2>5. p \in Nat \ {0} /\ x \in Nat /\ y \in Nat /\ x < p
    BY <2>2
  <2>6. (y * p + x) % p = x
    BY <2>5, DividedSum
  <2> QED
    BY <2>1, <2>2, <2>4, <2>6, Zenon
<1>4. Bits(v, o, s + m) \div Pow2[s] = Bits(v, o + s, m)
  BY <1>3, BitsOfBits
<1> QED
  BY <1>1, <1>2, <1>4, Zenon

(* The bits of a value that wait, with the next byte above them.           *)
LEMMA ByteTaken ==
  ASSUME NEW v \in Nat, NEW o \in Nat, NEW z \in Nat, NEW A \in Nat, ByteBits * A = o + z
  PROVE  /\ Bits(v, o, z) + ByteOf(v, A) * Pow2[z] = Bits(v, o, z + ByteBits)
         /\ ByteBits * (A + 1) = o + (z + ByteBits)
<1> HIDE DEF Pow2
<1>1. PICK B \in Nat : B = ByteBits
  BY ByteWidth
<1>8. B \in Nat
  BY <1>1
<1>2. Bits(v, o, z + B) = Bits(v, o, z) + Bits(v, o + z, B) * Pow2[z]
  BY <1>8, BitsOfBits
<1>3. Bits(v, o + z, B) = ByteOf(v, A)
  BY <1>1, Zenon DEF ByteOf
<1>4. B * (A + 1) = B * A + B
  BY <1>1
<1>5. PICK e \in Nat : e = B * A
  BY <1>1
<1>6. e = o + z
  BY <1>1, <1>5, Zenon
<1>7. e + B = o + (z + B)
  BY <1>1, <1>6
<1> QED
  BY <1>1, <1>2, <1>3, <1>4, <1>5, <1>7, Zenon

(* A code stands where its bits are, in the whole number too.              *)
LEMMA CodeIsThere ==
  ASSUME NEW i \in Images, NEW w, NEW v, NEW T \in Nat, Ended(i, w, v, T), NEW k \in Nat, k <= w.n
  PROVE  /\ v \in Nat /\ w.n \in Nat /\ w.off[k] \in Nat
         /\ k < w.n => /\ w.size[k] \in Nat /\ Bits(v, w.off[k], w.size[k]) = w.code[k]
                       /\ w.off[k + 1] = w.off[k] + w.size[k]
         /\ k = w.n => \A s \in Nat : EndCode(i) < Pow2[s] => Bits(v, w.off[k], s) = EndCode(i)
<1> HIDE DEF Pow2
<1>1. CodesOk(i, w) /\ v = w.value + EndCode(i) * Pow2[w.off[w.n]]
  BY Zenon DEF Ended
<1>2. TraceType(w) /\ w.value < Pow2[w.off[w.n]]
  BY <1>1, Zenon DEF CodesOk
<1>3. PICK val, n, o, c \in Nat : val = w.value /\ n = w.n /\ o = w.off[n] /\ c = EndCode(i)
  <2>1. w.value \in Nat /\ w.n \in Nat /\ EndCode(i) \in Nat
    <3>1. w.value \in Nat /\ w.n \in Nat
      BY <1>2, Zenon DEF TraceType
    <3>2. EndCode(i) \in Nat
      BY ImageFacts
    <3> QED
      BY <3>1, <3>2, Zenon
  <2>2. w.off[w.n] \in Nat
    BY <1>2, <2>1 DEF TraceType
  <2> QED
    BY <2>1, <2>2, Zenon
<1>4. val < Pow2[o] /\ v = val + c * Pow2[o]
  BY <1>1, <1>2, <1>3, Zenon
<1>5. w.off[k] \in Nat
  BY <1>2 DEF TraceType
<1>6. v \in Nat
  <2>1. PICK p \in Nat : p = Pow2[o]
    BY <1>3, PowerEquations
  <2> QED
    BY <1>3, <1>4, <2>1, Plain, Zenon
<1>7. ASSUME k < w.n
      PROVE  /\ w.size[k] \in Nat /\ Bits(v, w.off[k], w.size[k]) = w.code[k]
             /\ w.off[k + 1] = w.off[k] + w.size[k]
  <2>1. k \in 0..w.n-1
    BY <1>3, <1>7
  <2>2. CodeBitsOk(w, k)
    BY <1>1, <2>1, Zenon DEF CodesOk, CodeOk
  <2>3. PICK a, s \in Nat : a = w.off[k] /\ s = w.size[k]
    BY <1>2 DEF TraceType
  <2>4. Bits(val, a, s) = w.code[k] /\ w.off[k + 1] = a + s /\ a + s <= o
    BY <1>3, <2>2, <2>3, Zenon DEF CodeBitsOk
  <2>5. /\ val + c * Pow2[o] \in Nat
        /\ Bits(val + c * Pow2[o], a, s) = Bits(val, a, s)
        /\ (val + c * Pow2[o]) \div Pow2[a] = (val \div Pow2[a]) + c * Pow2[o - a]
    <3>1. a + s <= o /\ a \in Nat /\ s \in Nat /\ o \in Nat /\ val \in Nat /\ c \in Nat
      BY <1>3, <2>3, <2>4
    <3> QED
      BY <3>1, BitsBelow
  <2> QED
    BY <1>4, <2>3, <2>4, <2>5, Zenon
<1>8. ASSUME k = w.n, NEW s \in Nat, EndCode(i) < Pow2[s]
      PROVE  Bits(v, w.off[k], s) = EndCode(i)
  <2>1. /\ Bits(val + c * Pow2[o], o, s) = c
        /\ val + c * Pow2[o] < Pow2[o + s]
    <3>1. val < Pow2[o] /\ c < Pow2[s]
      BY <1>3, <1>4, <1>8, Zenon
    <3> QED
      BY <3>1, BitsPut, Zenon
  <2> QED
    BY <1>3, <1>4, <1>8, <2>1, Zenon
<1> QED
  BY <1>3, <1>5, <1>6, <1>7, <1>8, Zenon

(* The decoder's idea of how wide codes are.                               *)
LEMMA SizeIsOne ==
  ASSUME NEW i \in Images, NEW top \in Nat, NEW s, SizeFor(i, top, s), NEW r, SizeFor(i, top, r)
  PROVE  s = r
<1>1. PICK m, c, a, b \in Nat : m = MinCodeSize(i) /\ c = CodeBits /\ a = s /\ b = r /\ m < a /\ m < b
  <2>1. MinCodeSize(i) \in Nat /\ CodeBits \in Nat
    BY ImageFacts
  <2>2. s \in Nat /\ r \in Nat /\ MinCodeSize(i) < s /\ MinCodeSize(i) < r
    BY <2>1 DEF SizeFor
  <2> QED
    BY <2>1, <2>2, Zenon
<1>2. ASSUME NEW x \in Nat, NEW y \in Nat, SizeFor(i, top, x), SizeFor(i, top, y), m < x, m < y, x < y PROVE FALSE
  <2>1. y > MinCodeSize(i) + 1
    BY <1>1, <1>2
  <2>2. Pow2[y - 1] <= top /\ top < Pow2[x]
    BY <1>2, <2>1, Zenon DEF SizeFor
  <2>3. PICK z \in Nat : z = y - 1 /\ x <= z
    <3>1. y - 1 \in Nat /\ x <= y - 1
      BY <1>2
    <3> QED
      BY <3>1, Zenon
  <2>4. Pow2[x] <= Pow2[z] /\ Pow2[x] \in Nat /\ Pow2[z] \in Nat
    BY <2>3, PowerGrows, PowerEquations
  <2>5. PICK p, q \in Nat : p = Pow2[x] /\ q = Pow2[z]
    BY <2>4
  <2>6. q <= top /\ top < p /\ p <= q
    BY <2>2, <2>3, <2>4, <2>5, Zenon
  <2> QED
    BY <2>5, <2>6
<1>3. ~(a < b) /\ ~(b < a)
  BY <1>1, <1>2, Zenon
<1> QED
  BY <1>1, <1>3

(* The next number: either the codes still do, or they grow by one bit.    *)
LEMMA SizeGrows ==
  ASSUME NEW i \in Images, NEW top \in Nat, NEW s, SizeFor(i, top, s),
         NEW Q \in Nat, Q = top + 1, Q < MaxCode
  PROVE  SizeFor(i, Q, IF Q % Pow2[s] = 0 THEN s + 1 ELSE s)
<1> HIDE DEF Pow2
<1>1. PICK m, c \in Nat : m = MinCodeSize(i) /\ c = CodeBits
  BY ImageFacts
<1>2. PICK a \in Nat : a = s /\ m + 1 <= a /\ a <= c
  <2>1. s \in m+1..c
    BY <1>1, Zenon DEF SizeFor
  <2> QED
    BY <1>1, <2>1
<1>3. PICK p \in Nat : p = Pow2[a] /\ Pow2[a + 1] = 2 * p /\ p > 0
  BY <1>2, PowerEquations
<1>4. top < p /\ (a > m + 1 => Pow2[a - 1] <= top)
  BY <1>1, <1>2, <1>3, Zenon DEF SizeFor
<1>5. CASE Q = p
  <2>1. Q % p = 0
    BY <1>3, <1>5
  <2>2. a # c
    <3>1. ASSUME a = c PROVE FALSE
      <4>1. Q = MaxCode
        BY <1>1, <1>3, <1>5, <3>1, Zenon DEF MaxCode
      <4> QED
        BY <4>1
    <3> QED
      BY <3>1
  <2>3. a + 1 \in m+1..c /\ (a + 1) - 1 = a
    BY <1>1, <1>2, <2>2
  <2>4. Q < Pow2[a + 1] /\ Pow2[a] <= Q
    BY <1>3, <1>5
  <2>5. SizeFor(i, Q, a + 1)
    BY <1>1, <2>3, <2>4, Zenon DEF SizeFor
  <2> QED
    BY <1>2, <1>3, <2>1, <2>5, Zenon
<1>6. CASE Q # p
  <2>1. Q < p /\ Q > 0
    BY <1>3, <1>4, <1>6
  <2>2. Q % p # 0
    BY <1>3, <2>1
  <2>3. ASSUME a > m + 1 PROVE Pow2[a - 1] <= Q
    <3>1. a - 1 \in Nat
      BY <1>1, <1>2, <2>3
    <3>2. Pow2[a - 1] \in Nat /\ Pow2[a - 1] <= top
      BY <1>4, <2>3, <3>1, PowerEquations
    <3> QED
      BY <3>2
  <2>4. a \in m+1..c
    BY <1>1, <1>2
  <2>5. SizeFor(i, Q, a)
    BY <1>1, <1>3, <2>1, <2>3, <2>4, Zenon DEF SizeFor
  <2> QED
    BY <1>2, <1>3, <2>2, <2>5, Zenon
<1> QED
  BY <1>5, <1>6

(* As long as no code needs more, codes have their least width.            *)
LEMMA FirstSize ==
  ASSUME NEW i \in Images, NEW top \in Nat, top < 2 * ClearCode(i)
  PROVE  /\ SizeFor(i, top, MinCodeSize(i) + 1)
         /\ \A s : SizeFor(i, top, s) => s = MinCodeSize(i) + 1
<1> HIDE DEF Pow2
<1>1. PICK m, c, l \in Nat : m = MinCodeSize(i) /\ c = CodeBits /\ l = ClearCode(i) /\ m + 1 <= c
  <2>1. MinCodeSize(i) \in Nat /\ CodeBits \in Nat /\ ClearCode(i) \in Nat
        /\ MinCodeSize(i) <= ByteBits /\ ByteBits < CodeBits /\ ByteBits \in Nat
    BY ImageFacts
  <2>2. MinCodeSize(i) + 1 <= CodeBits
    BY <2>1
  <2> QED
    BY <2>1, <2>2, Zenon
<1>2. Pow2[m + 1] = 2 * l
  BY <1>1, ImageFacts
<1>3. SizeFor(i, top, m + 1)
  <2>1. m + 1 \in m+1..c /\ ~(m + 1 > m + 1)
    BY <1>1
  <2>2. top < Pow2[m + 1]
    BY <1>1, <1>2, Zenon
  <2> QED
    BY <1>1, <2>1, <2>2, Zenon DEF SizeFor
<1>4. ASSUME NEW s, SizeFor(i, top, s) PROVE s = m + 1
  BY <1>1, <1>3, <1>4, SizeIsOne, Zenon
<1> QED
  BY <1>1, <1>3, <1>4, Zenon

(* The number the decoder has counted to before code k.                    *)
LEMMA UptoBounds ==
  ASSUME NEW i \in Images, NEW w, CodesOk(i, w), NEW k \in Nat, k <= w.n
  PROVE  /\ w.from[k] \in Nat /\ w.from[k] <= k
         /\ Upto(i, w, k) \in Nat /\ EndCode(i) < Upto(i, w, k)
<1>1. TraceType(w) /\ w.from[0] = 0
  BY Zenon DEF CodesOk
<1>2. PICK n, F, e \in Nat : n = w.n /\ F = w.from[k] /\ e = EndCode(i)
  <2>1. EndCode(i) \in Nat
    BY ImageFacts
  <2> QED
    BY <1>1, <2>1 DEF TraceType
<1>3. F <= k
  <2>1. CASE k = 0
    BY <1>1, <1>2, <2>1
  <2>2. CASE k # 0
    <3>1. PICK j \in Nat : k = j + 1 /\ j \in 0..w.n-1
      <4>1. k - 1 \in Nat /\ k = (k - 1) + 1 /\ k - 1 \in 0..w.n-1
        BY <1>2, <2>2
      <4> QED
        BY <4>1, Zenon
    <3>2. Table(i, w, j) /\ w.from[j + 1] = IF w.code[j] = ClearCode(i) THEN j + 1 ELSE w.from[j]
      BY <3>1, Zenon DEF CodesOk, CodeOk
    <3>3. PICK g \in Nat : g = w.from[j] /\ g <= j
      BY <3>2 DEF Table
    <3>4. F = j + 1 \/ F = g
      BY <1>2, <3>1, <3>2, <3>3, Zenon
    <3> QED
      BY <3>1, <3>3, <3>4
  <2> QED
    BY <2>1, <2>2
<1>4. Upto(i, w, k) = IF F = k THEN e + 1 ELSE e + (k - F)
  BY <1>2, Zenon DEF Upto
<1>5. Upto(i, w, k) \in Nat /\ e < Upto(i, w, k)
  BY <1>2, <1>3, <1>4
<1> QED
  BY <1>2, <1>3, <1>5, Zenon

(* A code moves it on by one, but the first after a clear, which adds no   *)
(* string.                                                                 *)
LEMMA UptoMoves ==
  ASSUME NEW i \in Images, NEW w, NEW k \in Nat, NEW K \in Nat, K = k + 1,
         NEW F \in Nat, NEW L \in Nat, CodeFacts(i, w, k, F, L)
  PROVE  /\ Upto(i, w, K) < MaxCode
         /\ F = k => Upto(i, w, K) = Upto(i, w, k)
         /\ F # k => Upto(i, w, K) = Upto(i, w, k) + 1 /\ Upto(i, w, k) = EndCode(i) + (k - F)
         /\ w.code[k] <= Upto(i, w, k)
<1>1. PICK e, m \in Nat : e = EndCode(i) /\ m = MaxCode
  <2>1. EndCode(i) \in Nat /\ MaxCode \in Nat
    BY ImageFacts
  <2> QED
    BY <2>1, Zenon
<1>2. PICK c \in Nat : c = w.code[k]
  BY Zenon DEF CodeFacts
<1>3. F = w.from[k] /\ w.from[K] = F /\ F <= k /\ c <= e + (k - F) /\ e + 1 + (k - F) < m
  BY <1>1, <1>2, Zenon DEF CodeFacts
<1>4. F # K
  BY <1>3
<1>5. Upto(i, w, k) = (IF F = k THEN e + 1 ELSE e + (k - F)) /\ Upto(i, w, K) = e + (K - F)
  BY <1>1, <1>3, <1>4, Zenon DEF Upto
<1>6. CASE F = k
  <2>1. K - F = 1 /\ k - F = 0
    BY <1>6
  <2>2. Upto(i, w, k) = e + 1 /\ Upto(i, w, K) = e + 1
    BY <1>5, <1>6, <2>1, Zenon
  <2>3. c <= e + 1 /\ e + 1 < m
    BY <1>3, <2>1
  <2> QED
    BY <1>1, <1>2, <1>6, <2>2, <2>3, Zenon
<1>7. CASE F # k
  <2>1. PICK d \in Nat : d = k - F /\ K - F = d + 1
    <3>1. k - F \in Nat /\ K - F = (k - F) + 1
      BY <1>3
    <3> QED
      BY <3>1, Zenon
  <2>2. Upto(i, w, k) = e + d /\ Upto(i, w, K) = e + (d + 1)
    BY <1>5, <1>7, <2>1, Zenon
  <2>3. c <= e + d /\ e + (d + 1) < m /\ e + (d + 1) = (e + d) + 1
    BY <1>3, <2>1
  <2> QED
    BY <1>1, <1>2, <1>7, <2>1, <2>2, <2>3, Zenon
<1> QED
  BY <1>6, <1>7, Zenon

(* So the decoder takes codes of the width they were written with.         *)
LEMMA SizeOfCode ==
  ASSUME NEW i \in Images, NEW w, CodesOk(i, w), NEW k \in Nat, k < w.n,
         NEW s, SizeFor(i, Upto(i, w, k), s)
  PROVE  s = w.size[k]
<1>1. TraceType(w)
  BY Zenon DEF CodesOk
<1>2. PICK n, F, e, l \in Nat : n = w.n /\ F = w.from[k] /\ e = EndCode(i) /\ l = ClearCode(i) /\ e + 1 < 2 * l /\ e < 2 * l
  <2>1. EndCode(i) \in Nat /\ ClearCode(i) \in Nat /\ EndCode(i) + 1 < 2 * ClearCode(i) /\ EndCode(i) < 2 * ClearCode(i)
    BY ImageFacts
  <2> QED
    BY <1>1, <2>1 DEF TraceType
<1>3. k \in 0..w.n-1 /\ k <= w.n
  BY <1>2
<1>4. SizeFor(i, e + (k - F), w.size[k])
  BY <1>2, <1>3, Zenon DEF CodesOk, CodeOk
<1>5. Upto(i, w, k) = (IF F = k THEN e + 1 ELSE e + (k - F)) /\ F <= k
  BY <1>2, <1>3, UptoBounds, Zenon DEF Upto
<1>6. CASE F = k
  <2>1. k - F = 0 /\ e + 0 = e
    BY <1>2, <1>6
  <2>2. SizeFor(i, e, w.size[k]) /\ SizeFor(i, e + 1, s)
    BY <1>4, <1>5, <1>6, <2>1, Zenon
  <2>3. e \in Nat /\ e + 1 \in Nat
    BY <1>2
  <2> QED
    BY <1>2, <2>2, <2>3, FirstSize, Zenon
<1>7. CASE F # k
  <2>1. e + (k - F) \in Nat
    BY <1>2, <1>5
  <2> QED
    BY <1>4, <1>5, <1>7, <2>1, SizeIsOne, Zenon
<1> QED
  BY <1>6, <1>7, Zenon

(* What the decoder finds when it has the bits of a code.                  *)
LowIs(i, w, k, low, s) ==
  IF k < w.n THEN s = w.size[k] /\ low = w.code[k] ELSE low = EndCode(i)

(* The code the decoder takes from its bits is the next of the list, or    *)
(* the end code when there is none, and the bits behind it wait.           *)
LEMMA LowBits ==
  ASSUME NEW i \in Images, NEW w, NEW v, NEW T \in Nat, Ended(i, w, v, T), NEW k \in Nat, k <= w.n,
         NEW s \in Nat, SizeFor(i, Upto(i, w, k), s), NEW z \in Nat, s <= z
  PROVE  /\ LowIs(i, w, k, Bits(v, w.off[k], z) % Pow2[s], s)
         /\ Bits(v, w.off[k], z) \div Pow2[s] = Bits(v, w.off[k] + s, z - s)
<1> HIDE DEF Pow2
<1>1. CodesOk(i, w)
  BY Zenon DEF Ended
<1>2. /\ v \in Nat /\ w.n \in Nat /\ w.off[k] \in Nat
      /\ k < w.n => Bits(v, w.off[k], w.size[k]) = w.code[k]
      /\ k = w.n => \A r \in Nat : EndCode(i) < Pow2[r] => Bits(v, w.off[k], r) = EndCode(i)
  BY CodeIsThere
<1>3. PICK o \in Nat : o = w.off[k]
  BY <1>2
<1>4. Bits(v, o, z) % Pow2[s] = Bits(v, o, s) /\ Bits(v, o, z) \div Pow2[s] = Bits(v, o + s, z - s)
  <2>1. v \in Nat /\ o \in Nat /\ z \in Nat /\ s \in Nat /\ s <= z
    BY <1>2, <1>3
  <2>2. Bits(v, o, z) % Pow2[s] = Bits(v, o, s)
    BY <2>1, BitsTaken
  <2>3. Bits(v, o, z) \div Pow2[s] = Bits(v, o + s, z - s)
    BY <2>1, BitsTaken
  <2> QED
    BY <2>2, <2>3, Zenon
<1>5. LowIs(i, w, k, Bits(v, o, s), s)
  <2>1. CASE k < w.n
    <3>1. s = w.size[k]
      BY <1>1, <2>1, SizeOfCode, Zenon
    <3> QED
      BY <1>2, <1>3, <2>1, <3>1, Zenon DEF LowIs
  <2>2. CASE ~(k < w.n)
    <3>1. k = w.n
      BY <1>2, <2>2
    <3>2. PICK u, e, p \in Nat : u = Upto(i, w, k) /\ e = EndCode(i) /\ p = Pow2[s] /\ e < u
      <4>1. EndCode(i) \in Nat /\ Pow2[s] \in Nat
        BY ImageFacts, PowerEquations
      <4> QED
        BY <1>1, <4>1, UptoBounds, Zenon
    <3>3. u < p
      BY <3>2, Zenon DEF SizeFor
    <3>4. e < p
      BY <3>2, <3>3
    <3> QED
      BY <1>2, <1>3, <2>2, <3>1, <3>2, <3>4, Zenon DEF LowIs
  <2> QED
    BY <2>1, <2>2
<1> QED
  BY <1>3, <1>4, <1>5, Zenon

-----------------------------------------------------------------------------
(* The objects of the decoder.                                             *)

(* No code stands for less than no pixels.                                 *)
LEMMA AtGrows ==
  ASSUME NEW i \in Images, NEW w, CodesOk(i, w), NEW k \in Nat, k <= w.n
  PROVE  w.at[k] \in Nat /\ w.at[w.n] \in Nat /\ w.at[k] <= w.at[w.n]
<1>1. TraceType(w)
  BY Zenon DEF CodesOk
<1>2. PICK n \in Nat : n = w.n
  BY <1>1 DEF TraceType
<1>3. \A q \in Nat : w.at[q] \in Nat
  BY <1>1 DEF TraceType
<1>4. ASSUME NEW q \in Nat, q < n PROVE w.at[q] <= w.at[q + 1]
  <2>1. q \in 0..w.n-1
    BY <1>2, <1>4
  <2>2. w.at[q + 1] = w.at[q] \/ (w.at[q + 1] - w.at[q] \in 1..(q - w.from[q]) + 1)
    BY <2>1, Zenon DEF CodesOk, CodeOk, Meant
  <2>3. PICK a, b, F \in Nat : a = w.at[q] /\ b = w.at[q + 1] /\ F = w.from[q]
    <3>1. q + 1 \in Nat
      OBVIOUS
    <3>2. w.from[q] \in Nat
      BY <1>1 DEF TraceType
    <3> QED
      BY <1>3, <3>1, <3>2, Zenon
  <2>4. b = a \/ b - a \in 1..(q - F) + 1
    BY <2>2, <2>3, Zenon
  <2>5. a <= b
    BY <2>3, <2>4
  <2> QED
    BY <2>3, <2>5, Zenon
<1> DEFINE S == {d \in Nat : d <= n => w.at[n - d] <= w.at[n]}
<1>5. 0 \in S
  <2>1. n - 0 = n /\ w.at[n] \in Nat
    BY <1>2, <1>3
  <2>2. w.at[n - 0] <= w.at[n]
    BY <2>1
  <2> QED
    BY <2>2
<1>6. ASSUME NEW d \in Nat, d \in S PROVE d + 1 \in S
  <2> SUFFICES ASSUME d + 1 <= n PROVE w.at[n - (d + 1)] <= w.at[n]
    OBVIOUS
  <2>1. PICK q \in Nat : q = n - (d + 1) /\ q + 1 = n - d /\ q < n /\ d <= n
    <3>1. /\ n - (d + 1) \in Nat /\ (n - (d + 1)) + 1 = n - d /\ n - (d + 1) < n /\ d <= n
      BY <1>2
    <3> QED
      BY <3>1, Zenon
  <2>2. w.at[q] <= w.at[q + 1]
    BY <1>4, <2>1
  <2>3. w.at[n - d] <= w.at[n]
    BY <1>6, <2>1
  <2>4. w.at[q] \in Nat /\ w.at[q + 1] \in Nat /\ w.at[n] \in Nat
    BY <1>2, <1>3, <2>1
  <2>5. PICK a, b, c \in Nat : a = w.at[q] /\ b = w.at[q + 1] /\ c = w.at[n]
    BY <2>4, Zenon
  <2>6. a <= b /\ b <= c
    BY <2>1, <2>2, <2>3, <2>5, Zenon
  <2>7. a <= c
    BY <2>5, <2>6
  <2> QED
    BY <2>1, <2>5, <2>7, Zenon
<1> HIDE DEF S
<1>7. Nat \subseteq S
  BY <1>5, <1>6, SetInduction
<1>8. PICK d \in Nat : d = n - k /\ k = n - d /\ d <= n
  <2>1. n - k \in Nat /\ k = n - (n - k) /\ n - k <= n
    BY <1>2
  <2> QED
    BY <2>1, Zenon
<1>9. w.at[n - d] <= w.at[n]
  BY <1>7, <1>8 DEF S
<1> QED
  BY <1>2, <1>3, <1>8, <1>9, Zenon

(* The fields of the object that decodes.                                  *)
DecoderShape(t) ==
  t = [strings |-> t.strings, nextCode |-> t.nextCode, codeSize |-> t.codeSize,
       oldCode |-> t.oldCode, partial |-> t.partial, partialSize |-> t.partialSize,
       done |-> t.done, buffer |-> t.buffer, bufferSize |-> t.bufferSize, bufferPos |-> t.bufferPos]
LoaderShape(l) ==
  l = [next |-> l.next, at |-> l.at, buf |-> l.buf, x |-> l.x, y |-> l.y, pass |-> l.pass]
SameBuffer(t, u) ==
  u.buffer = t.buffer /\ u.bufferSize = t.bufferSize /\ u.bufferPos = t.bufferPos

(* What dropping bits changes.                                             *)
LEMMA DropFields ==
  ASSUME NEW t, DecoderShape(t), NEW n, NEW d, d = DropBits(t, n)
  PROVE  /\ DecoderShape(d) /\ SameBuffer(t, d) /\ d.done = t.done
         /\ d.partial = t.partial \div Pow2[n] /\ d.partialSize = t.partialSize - n
         /\ d.strings = t.strings /\ d.nextCode = t.nextCode /\ d.codeSize = t.codeSize
         /\ d.oldCode = t.oldCode
<1> HIDE DEF Pow2
<1>1. d = [t EXCEPT !.partial = @ \div Pow2[n], !.partialSize = @ - n]
  BY Zenon DEF DropBits
<1> QED
  BY <1>1 DEF DecoderShape, SameBuffer

(* What a clear code changes in the decoder.                               *)
LEMMA ClearFields ==
  ASSUME NEW i, NEW t, DecoderShape(t), NEW d, d = ClearedDecompressor(i, t)
  PROVE  /\ DecoderShape(d) /\ SameBuffer(t, d) /\ d.done = t.done
         /\ d.partial = t.partial /\ d.partialSize = t.partialSize
         /\ d.strings = [c \in Codes |-> IF c < ClearCode(i) THEN <<c>> ELSE t.strings[c]]
         /\ d.nextCode = EndCode(i) + 1 /\ d.codeSize = MinCodeSize(i) + 1 /\ d.oldCode = None
<1> HIDE DEF Codes, None
<1>1. d = [t EXCEPT !.strings = [c \in Codes |-> IF c < ClearCode(i) THEN <<c>> ELSE @[c]],
                    !.nextCode = EndCode(i) + 1, !.codeSize = MinCodeSize(i) + 1, !.oldCode = None]
  BY Zenon DEF ClearedDecompressor
<1> QED
  BY <1>1 DEF DecoderShape, SameBuffer

(* What AddString changes: a string at most.                               *)
LEMMA AddFields ==
  ASSUME NEW t, DecoderShape(t), NEW code, NEW d, d = AddString(t, code)
  PROVE  /\ DecoderShape(d) /\ SameBuffer(t, d) /\ d.done = t.done
         /\ d.partial = t.partial /\ d.partialSize = t.partialSize
         /\ d.strings = Added(t.strings, t.oldCode, t.nextCode, code)
         /\ d.nextCode = t.nextCode /\ d.codeSize = t.codeSize /\ d.oldCode = t.oldCode
<1> HIDE DEF None, MaxCode
<1>1. CASE Grows(t)
  <2>1. d = [t EXCEPT !.strings[t.nextCode] = Append(t.strings[t.oldCode],
          Head(t.strings[IF code = t.nextCode THEN t.oldCode ELSE code]))]
    BY <1>1, Zenon DEF AddString
  <2>2. Added(t.strings, t.oldCode, t.nextCode, code)
          = [t.strings EXCEPT ![t.nextCode] = Append(t.strings[t.oldCode],
               Head(t.strings[IF code = t.nextCode THEN t.oldCode ELSE code]))]
    BY <1>1, Zenon DEF Added, Grows
  <2> QED
    BY <2>1, <2>2 DEF DecoderShape, SameBuffer
<1>2. CASE ~Grows(t)
  <2>1. d = t
    BY <1>2, Zenon DEF AddString
  <2>2. Added(t.strings, t.oldCode, t.nextCode, code) = t.strings
    BY <1>2, Zenon DEF Added, Grows
  <2> QED
    BY <2>1, <2>2, Zenon DEF SameBuffer
<1> QED
  BY <1>1, <1>2, Zenon

(* t after one code more, which is code: d has the next number and the     *)
(* size it needs.                                                          *)
Counted(t, code, d) ==
  /\ DecoderShape(d) /\ SameBuffer(t, d) /\ d.done = t.done
  /\ d.partial = t.partial /\ d.partialSize = t.partialSize /\ d.strings = t.strings
  /\ d.nextCode = IF Grows(t) THEN t.nextCode + 1 ELSE t.nextCode
  /\ d.codeSize = IF Grows(t) /\ t.nextCode + 1 < MaxCode
                     /\ (t.nextCode + 1) % Pow2[t.codeSize] = 0
                  THEN t.codeSize + 1 ELSE t.codeSize
  /\ d.oldCode = code

(* What counting the next code changes.                                    *)
LEMMA CountFields ==
  ASSUME NEW t, DecoderShape(t), NEW code, NEW d, d = [Count(t) EXCEPT !.oldCode = code]
  PROVE  Counted(t, code, d)
<1> HIDE DEF None, MaxCode, Pow2, Grows
<1>1. CASE Grows(t)
  <2>1. Count(t) = [t EXCEPT !.nextCode = @ + 1,
          !.codeSize = IF /\ t.nextCode + 1 < MaxCode
                          /\ (t.nextCode + 1) % Pow2[t.codeSize] = 0
                       THEN @ + 1 ELSE @]
    BY <1>1, Zenon DEF Count
  <2> QED
    BY <1>1, <2>1 DEF DecoderShape, SameBuffer, Counted
<1>2. CASE ~Grows(t)
  <2>1. Count(t) = t
    BY <1>2, Zenon DEF Count
  <2> QED
    BY <1>2, <2>1 DEF DecoderShape, SameBuffer, Counted
<1> QED
  BY <1>1, <1>2, Zenon

(* What stuffing a code back changes: the bits and how many there are.     *)
LEMMA StuffFields ==
  ASSUME NEW t, DecoderShape(t), NEW code, NEW rest, NEW d, d = StuffBack(t, code, rest)
  PROVE  /\ DecoderShape(d) /\ SameBuffer(t, d) /\ d.done = t.done /\ d.strings = t.strings
         /\ d.partial = rest.partial * Pow2[t.codeSize] + code
         /\ d.partialSize = rest.partialSize + t.codeSize
         /\ d.nextCode = t.nextCode /\ d.codeSize = t.codeSize /\ d.oldCode = t.oldCode
<1> HIDE DEF Pow2
<1>1. d = [t EXCEPT !.partial = rest.partial * Pow2[t.codeSize] + code,
                    !.partialSize = rest.partialSize + t.codeSize]
  BY Zenon DEF StuffBack
<1> QED
  BY <1>1 DEF DecoderShape, SameBuffer

(* What the decompressor starts from.                                      *)
LEMMA StartDecoder ==
  ASSUME NEW i \in Images, NEW t, t = StartedDecompressor(i)
  PROVE  /\ DecoderShape(t) /\ t.done = FALSE /\ t.partial = 0 /\ t.partialSize = 0
         /\ t.buffer = << >> /\ t.bufferSize = 0 /\ t.bufferPos = 0
         /\ t.strings = [c \in Codes |-> IF c < ClearCode(i) THEN <<c>> ELSE << >>]
         /\ t.nextCode = EndCode(i) + 1 /\ t.codeSize = MinCodeSize(i) + 1 /\ t.oldCode = None
<1> HIDE DEF Codes, None
<1> DEFINE s == [strings |-> [c \in Codes |-> << >>], nextCode |-> 0, codeSize |-> 0,
                 oldCode |-> None, partial |-> 0, partialSize |-> 0, done |-> FALSE,
                 buffer |-> << >>, bufferSize |-> 0, bufferPos |-> 0]
<1>1. t = ClearedDecompressor(i, s)
  BY Zenon DEF StartedDecompressor
<1>2. DecoderShape(s)
  BY DEF DecoderShape
<1>3. /\ s.done = FALSE /\ s.partial = 0 /\ s.partialSize = 0 /\ s.buffer = << >>
      /\ s.bufferSize = 0 /\ s.bufferPos = 0 /\ s.strings = [c \in Codes |-> << >>]
  OBVIOUS
<1> HIDE DEF s
<1>4. /\ DecoderShape(t) /\ SameBuffer(s, t) /\ t.done = s.done
      /\ t.partial = s.partial /\ t.partialSize = s.partialSize
      /\ t.strings = [c \in Codes |-> IF c < ClearCode(i) THEN <<c>> ELSE s.strings[c]]
      /\ t.nextCode = EndCode(i) + 1 /\ t.codeSize = MinCodeSize(i) + 1 /\ t.oldCode = None
  BY <1>1, <1>2, ClearFields
<1>5. t.strings = [c \in Codes |-> IF c < ClearCode(i) THEN <<c>> ELSE << >>]
  BY <1>3, <1>4
<1> QED
  BY <1>3, <1>4, <1>5, Zenon DEF SameBuffer

-----------------------------------------------------------------------------
(* The load and the list of codes.                                         *)

(* How many bytes of the file the decoder has taken.                       *)
Past(t, l) == IF l.next = 1 THEN 0 ELSE (l.next - 2) * BlockLen + t.bufferPos

(* Load and the decoder with the sub-blocks: which is in the buffer, how   *)
(* much of it is taken, and what the pixels in Load's own buffer say of    *)
(* it.                                                                     *)
Reader(f, t, l) ==
  /\ l.next \in 1..Len(f)
  /\ t.buffer = IF l.next = 1 THEN << >> ELSE f[l.next - 1].bytes
  /\ t.bufferPos \in 0..Len(t.buffer)
  /\ t.bufferSize \in {0, Len(t.buffer)}
  /\ l.at \in {"block", "byte", "codes", "show"}
  /\ l.at \in {"byte", "codes"} => t.bufferSize = Len(t.buffer) /\ t.done = FALSE
  /\ l.at = "show" /\ t.bufferSize = 0 => t.bufferPos = Len(t.buffer)
  /\ l.at = "block" /\ t.done = FALSE => t.bufferPos = Len(t.buffer)
  /\ l.at \in {"byte", "block"} => l.buf = << >>

(* The picture of which the pixels before a place are shown.               *)
Picture(i, p) ==
  [cell \in DOMAIN i.pixel |-> IF Before(i, cell, p) THEN i.pixel[cell] ELSE Blank]

(* The pixels not shown yet end where those of the codes taken do; what is *)
(* shown is the picture before them.                                       *)
Shows(i, w, k, m, t, l, sh) ==
  /\ LoaderShape(l)
  /\ Len(l.buf) \in Nat /\ Len(l.buf) <= OutLen
  /\ l.buf = Text(i, m, Len(l.buf))
  /\ m + Len(l.buf) = IF t.done = TRUE THEN w.at[w.n] ELSE w.at[k]
  /\ t.done = FALSE => m # w.at[w.n]
  /\ Place(i)[m] = [y |-> l.y, pass |-> l.pass, x |-> l.x]
  /\ sh = Picture(i, Place(i)[m])

(* The decoder after k codes, when A bytes are taken: the bits that wait,  *)
(* the size of the next code, and the strings.                             *)
Knows(i, w, v, A, k, t) ==
  /\ k <= w.n
  /\ ByteBits * A = w.off[k] + t.partialSize
  /\ t.partial = Bits(v, w.off[k], t.partialSize)
  /\ t.nextCode = Upto(i, w, k)
  /\ SizeFor(i, t.nextCode, t.codeSize)
  /\ Strings(i, w, k, t.strings, t.oldCode)

(* The decoder's fields, as numbers.                                       *)
DecoderRange(t) ==
  /\ DecoderShape(t) /\ t.done \in BOOLEAN
  /\ t.nextCode \in 0..MaxCode /\ t.codeSize \in 1..CodeBits /\ t.oldCode \in 0..MaxCode
  /\ \A c \in Codes : Len(t.strings[c]) <= OutLen
  /\ t.partial \in Nat /\ t.partialSize \in Nat /\ t.partial < Pow2[t.partialSize]

(* A load of a whole file: the decoder has taken k of the codes, and the   *)
(* pixel to be shown next is the m-th.                                     *)
LoadTrace(i, f, w, v, T, k, m, t, l, sh) ==
  /\ Ended(i, w, v, T) /\ Filled(v, T, f)
  /\ Reader(f, t, l)
  /\ Shows(i, w, k, m, t, l, sh)
  /\ DecoderRange(t)
  /\ t.done = FALSE => Knows(i, w, v, Past(t, l), k, t)

(* There are codes, and numbers, for which that is so.                     *)
HasLoad(i, f, t, l, sh) ==
  \E w, v, T, k, m : /\ T \in Nat /\ k \in Nat /\ m \in Nat
                     /\ LoadTrace(i, f, w, v, T, k, m, t, l, sh)

(* EndOfBuffer and CallAgain change only where the loader stands.          *)
LEMMA EndOfBufferTrace ==
  ASSUME EndOfBuffer, HasLoad(image, file, dec, load, shown)
  PROVE  HasLoad(image', file', dec', load', shown')
<1> HIDE DEF Pow2, MaxCode, Codes
<1>1. PICK w, v, T, k, m : /\ T \in Nat /\ k \in Nat /\ m \in Nat
                           /\ LoadTrace(image, file, w, v, T, k, m, dec, load, shown)
  BY Zenon DEF HasLoad
<1>2. /\ Ended(image, w, v, T) /\ Filled(v, T, file) /\ Reader(file, dec, load)
      /\ Shows(image, w, k, m, dec, load, shown) /\ DecoderRange(dec)
      /\ dec.done = FALSE => Knows(image, w, v, Past(dec, load), k, dec)
  BY <1>1, Zenon DEF LoadTrace
<1>3. /\ load.at \in {"byte", "codes"} /\ dec.bufferPos >= dec.bufferSize
      /\ dec' = [dec EXCEPT !.bufferSize = 0] /\ load' = [load EXCEPT !.at = "show"]
      /\ image' = image /\ file' = file /\ shown' = shown
  BY DEF EndOfBuffer, WantsByte, saveVars, fileVars
<1>4. DecoderShape(dec) /\ LoaderShape(load)
  BY <1>2, Zenon DEF DecoderRange, Shows
<1>5. /\ DecoderShape(dec') /\ dec'.bufferSize = 0 /\ dec'.buffer = dec.buffer
      /\ dec'.bufferPos = dec.bufferPos /\ dec'.done = dec.done /\ dec'.strings = dec.strings
      /\ dec'.nextCode = dec.nextCode /\ dec'.codeSize = dec.codeSize /\ dec'.oldCode = dec.oldCode
      /\ dec'.partial = dec.partial /\ dec'.partialSize = dec.partialSize
  BY <1>3, <1>4 DEF DecoderShape
<1>6. /\ LoaderShape(load') /\ load'.at = "show" /\ load'.next = load.next /\ load'.buf = load.buf
      /\ load'.x = load.x /\ load'.y = load.y /\ load'.pass = load.pass
  BY <1>3, <1>4 DEF LoaderShape
<1>7. dec.bufferSize = Len(dec.buffer) /\ dec.bufferPos \in 0..Len(dec.buffer)
  BY <1>2, <1>3, Zenon DEF Reader
<1>8. Reader(file, dec', load')
  <2>1. dec.bufferPos = Len(dec.buffer)
    BY <1>3, <1>7
  <2>2. /\ load'.next \in 1..Len(file)
        /\ dec'.buffer = IF load'.next = 1 THEN << >> ELSE file[load'.next - 1].bytes
    BY <1>2, <1>5, <1>6, Zenon DEF Reader
  <2>3. /\ dec'.bufferPos \in 0..Len(dec'.buffer) /\ dec'.bufferSize \in {0, Len(dec'.buffer)}
        /\ dec'.bufferPos = Len(dec'.buffer)
    BY <1>5, <1>7, <2>1, Zenon
  <2> HIDE <1>1, <1>2, <1>3, <1>4, <1>5
  <2> QED
    BY <1>6, <2>2, <2>3 DEF Reader
<1>9. Shows(image, w, k, m, dec', load', shown')
  BY <1>2, <1>3, <1>5, <1>6, Zenon DEF Shows
<1>10. DecoderRange(dec')
  BY <1>2, <1>5, Zenon DEF DecoderRange
<1>11. ASSUME dec'.done = FALSE PROVE Knows(image, w, v, Past(dec', load'), k, dec')
  <2>1. Past(dec', load') = Past(dec, load)
    BY <1>5, <1>6, Zenon DEF Past
  <2> QED
    BY <1>2, <1>5, <1>11, <2>1, Zenon DEF Knows
<1>12. LoadTrace(image, file, w, v, T, k, m, dec', load', shown')
  BY <1>2, <1>8, <1>9, <1>10, <1>11, Zenon DEF LoadTrace
<1> QED
  BY <1>1, <1>3, <1>12, Zenon DEF HasLoad

(* A call that had too little room for a string is repeated.               *)
LEMMA CallAgainTrace ==
  ASSUME CallAgain, HasLoad(image, file, dec, load, shown)
  PROVE  HasLoad(image', file', dec', load', shown')
<1> HIDE DEF Pow2, MaxCode, Codes
<1>1. PICK w, v, T, k, m : /\ T \in Nat /\ k \in Nat /\ m \in Nat
                           /\ LoadTrace(image, file, w, v, T, k, m, dec, load, shown)
  BY Zenon DEF HasLoad
<1>2. /\ Ended(image, w, v, T) /\ Filled(v, T, file) /\ Reader(file, dec, load)
      /\ Shows(image, w, k, m, dec, load, shown) /\ DecoderRange(dec)
      /\ dec.done = FALSE => Knows(image, w, v, Past(dec, load), k, dec)
  BY <1>1, Zenon DEF LoadTrace
<1>3. /\ load.at = "show" /\ load.buf = << >>
      /\ load' = [load EXCEPT !.at = IF dec.done \/ dec.bufferSize = 0 THEN "block" ELSE "byte"]
      /\ image' = image /\ file' = file /\ shown' = shown /\ dec' = dec
  BY DEF CallAgain, saveVars, fileVars
<1>4. LoaderShape(load) /\ dec.done \in BOOLEAN
  BY <1>2, Zenon DEF DecoderRange, Shows
<1>6. /\ LoaderShape(load') /\ load'.next = load.next /\ load'.buf = load.buf
      /\ load'.x = load.x /\ load'.y = load.y /\ load'.pass = load.pass
      /\ load'.at = IF dec.done \/ dec.bufferSize = 0 THEN "block" ELSE "byte"
  BY <1>3, <1>4 DEF LoaderShape
<1>8. Reader(file, dec, load')
  <2>1. /\ dec.bufferSize \in {0, Len(dec.buffer)}
        /\ dec.bufferSize = 0 => dec.bufferPos = Len(dec.buffer)
    BY <1>2, <1>3, Zenon DEF Reader
  <2>2. /\ load'.next \in 1..Len(file)
        /\ dec.buffer = IF load'.next = 1 THEN << >> ELSE file[load'.next - 1].bytes
        /\ dec.bufferPos \in 0..Len(dec.buffer)
    BY <1>2, <1>6, Zenon DEF Reader
  <2>3. load'.buf = << >>
    BY <1>3, <1>6, Zenon
  <2>4. CASE dec.done \/ dec.bufferSize = 0
    <3>1. load'.at = "block"
      BY <1>6, <2>4, Zenon
    <3>2. dec.done = FALSE => dec.bufferPos = Len(dec.buffer)
      BY <2>1, <2>4
    <3> HIDE <1>1, <1>2, <1>3, <1>4, <1>6
    <3> QED
      BY <2>1, <2>2, <2>3, <3>1, <3>2 DEF Reader
  <2>5. CASE ~(dec.done \/ dec.bufferSize = 0)
    <3>1. load'.at = "byte"
      BY <1>6, <2>5, Zenon
    <3>2. dec.done = FALSE /\ dec.bufferSize = Len(dec.buffer)
      BY <1>4, <2>1, <2>5
    <3> HIDE <1>1, <1>2, <1>3, <1>4, <1>6
    <3> QED
      BY <2>1, <2>2, <2>3, <3>1, <3>2 DEF Reader
  <2> QED
    BY <2>4, <2>5, Zenon
<1>9. Shows(image, w, k, m, dec, load', shown)
  BY <1>2, <1>6, Zenon DEF Shows
<1>11. Past(dec, load') = Past(dec, load)
  BY <1>6, Zenon DEF Past
<1>12. LoadTrace(image, file, w, v, T, k, m, dec, load', shown)
  BY <1>2, <1>8, <1>9, <1>11, Zenon DEF LoadTrace
<1> QED
  BY <1>1, <1>3, <1>12, Zenon DEF HasLoad

(* Blocks are read in turn; the terminator is not read.                    *)
LEMMA ReadBlockTrace ==
  ASSUME ReadBlock, HasLoad(image, file, dec, load, shown)
  PROVE  HasLoad(image', file', dec', load', shown')
<1> HIDE DEF Pow2, MaxCode, Codes, End
<1>1. PICK w, v, T, k, m : /\ T \in Nat /\ k \in Nat /\ m \in Nat
                           /\ LoadTrace(image, file, w, v, T, k, m, dec, load, shown)
  BY Zenon DEF HasLoad
<1>2. /\ Ended(image, w, v, T) /\ Filled(v, T, file) /\ Reader(file, dec, load)
      /\ Shows(image, w, k, m, dec, load, shown) /\ DecoderRange(dec)
      /\ dec.done = FALSE => Knows(image, w, v, Past(dec, load), k, dec)
  BY <1>1, Zenon DEF LoadTrace
<1>3. PICK n, g \in Nat : /\ n = load.next /\ g = Len(file) /\ 1 <= n /\ n <= g
                          /\ g >= 2 /\ file[g] = End
  <2>1. load.next \in 1..Len(file) /\ Len(file) \in Nat /\ Len(file) >= 2 /\ file[Len(file)] = End
    BY <1>2, Zenon DEF Reader, Filled
  <2>2. load.next \in Nat /\ 1 <= load.next /\ load.next <= Len(file)
    BY <2>1
  <2> QED
    BY <2>1, <2>2, Zenon
<1>4. file[n] # End
  BY <1>3, Zenon DEF ReadBlock
<1>5. n < g
  <2>1. n # g
    BY <1>3, <1>4, Zenon
  <2> QED
    BY <1>3, <2>1
<1>6. /\ load.at = "block"
      /\ dec' = [dec EXCEPT !.buffer = file[n].bytes, !.bufferSize = Len(file[n].bytes), !.bufferPos = 0]
      /\ load' = [load EXCEPT !.next = n + 1, !.at = IF dec.done THEN "block" ELSE "byte"]
      /\ image' = image /\ file' = file /\ shown' = shown
  <2>1. load.next <= Len(file)
    BY <1>3, Zenon
  <2>2. /\ load.at = "block"
        /\ dec' = [dec EXCEPT !.buffer = file[load.next].bytes, !.bufferSize = Len(file[load.next].bytes), !.bufferPos = 0]
        /\ load' = [load EXCEPT !.next = load.next + 1, !.at = IF dec.done THEN "block" ELSE "byte"]
        /\ image' = image /\ file' = file /\ shown' = shown
    BY <2>1 DEF ReadBlock, saveVars, fileVars
  <2> QED
    BY <1>3, <2>2, Zenon
<1>7. DecoderShape(dec) /\ LoaderShape(load) /\ dec.done \in BOOLEAN
  BY <1>2, Zenon DEF DecoderRange, Shows
<1>8. /\ DecoderShape(dec') /\ dec'.bufferSize = Len(file[n].bytes) /\ dec'.buffer = file[n].bytes
      /\ dec'.bufferPos = 0 /\ dec'.done = dec.done /\ dec'.strings = dec.strings
      /\ dec'.nextCode = dec.nextCode /\ dec'.codeSize = dec.codeSize /\ dec'.oldCode = dec.oldCode
      /\ dec'.partial = dec.partial /\ dec'.partialSize = dec.partialSize
  BY <1>6, <1>7 DEF DecoderShape
<1>9. /\ LoaderShape(load') /\ load'.next = n + 1 /\ load'.buf = load.buf
      /\ load'.x = load.x /\ load'.y = load.y /\ load'.pass = load.pass
      /\ load'.at = IF dec.done THEN "block" ELSE "byte"
  BY <1>6, <1>7 DEF LoaderShape
<1>10. load.buf = << >>
  BY <1>2, <1>6, Zenon DEF Reader
<1>11. Len(file[n].bytes) \in Nat
  <2>1. file \in Seq(Blocks) /\ n \in 1..Len(file)
    BY <1>2, <1>3 DEF Filled
  <2>2. file[n] \in Blocks
    BY <2>1
  <2>3. file[n].bytes \in Seq(Bytes)
    BY <2>2 DEF Blocks
  <2> QED
    BY <2>3
<1>12. Reader(file, dec', load')
  <2>1. n + 1 \in 1..Len(file) /\ n + 1 # 1 /\ (n + 1) - 1 = n
    BY <1>3, <1>5
  <2>2. /\ load'.next \in 1..Len(file)
        /\ dec'.buffer = IF load'.next = 1 THEN << >> ELSE file[load'.next - 1].bytes
    BY <1>8, <1>9, <2>1, Zenon
  <2>3. dec'.bufferPos \in 0..Len(dec'.buffer) /\ dec'.bufferSize = Len(dec'.buffer)
    <3>1. 0 \in 0..Len(file[n].bytes)
      BY <1>11
    <3> QED
      BY <1>8, <3>1, Zenon
  <2>4. load'.buf = << >>
    BY <1>9, <1>10, Zenon
  <2>5. CASE dec.done = TRUE
    <3>1. load'.at = "block" /\ dec'.done = TRUE
      BY <1>8, <1>9, <2>5, Zenon
    <3> HIDE <1>1, <1>2, <1>3, <1>6, <1>7, <1>8, <1>9
    <3> QED
      BY <2>2, <2>3, <2>4, <3>1 DEF Reader
  <2>6. CASE dec.done = FALSE
    <3>1. load'.at = "byte" /\ dec'.done = FALSE
      BY <1>8, <1>9, <2>6, Zenon
    <3> HIDE <1>1, <1>2, <1>3, <1>6, <1>7, <1>8, <1>9
    <3> QED
      BY <2>2, <2>3, <2>4, <3>1 DEF Reader
  <2> QED
    BY <1>7, <2>5, <2>6, Zenon
<1>13. Shows(image, w, k, m, dec', load', shown')
  BY <1>2, <1>6, <1>8, <1>9, Zenon DEF Shows
<1>14. DecoderRange(dec')
  BY <1>2, <1>8, Zenon DEF DecoderRange
<1>15. ASSUME dec'.done = FALSE PROVE Past(dec', load') = Past(dec, load)
  <2>1. n + 1 # 1 /\ (n + 1) - 2 = n - 1
    BY <1>3
  <2>2. Past(dec', load') = (n - 1) * BlockLen + 0
    BY <1>8, <1>9, <2>1, Zenon DEF Past
  <2>3. BlockLen \in Nat
    BY ByteWidth
  <2>4. CASE n = 1
    <3>1. Past(dec, load) = 0
      BY <1>3, <2>4, Zenon DEF Past
    <3>2. (n - 1) * BlockLen + 0 = 0
      BY <2>3, <2>4
    <3> QED
      BY <2>2, <3>1, <3>2, Zenon
  <2>5. CASE n # 1
    <3>1. dec.bufferPos = Len(dec.buffer) /\ dec.buffer = file[n - 1].bytes
      BY <1>2, <1>3, <1>6, <1>8, <1>15, <2>5, Zenon DEF Reader
    <3>2. n - 1 \in 1..Len(file)-2
      BY <1>3, <1>5, <2>5
    <3>3. Len(file[n - 1].bytes) = BlockLen
      BY <1>2, <3>2, Zenon DEF Filled
    <3>4. Past(dec, load) = (n - 2) * BlockLen + BlockLen
      BY <1>3, <2>5, <3>1, <3>3, Zenon DEF Past
    <3>5. PICK z \in Nat : z = n - 2 /\ n - 1 = z + 1
      <4>1. n - 2 \in Nat /\ n - 1 = (n - 2) + 1
        BY <1>3, <2>5
      <4> QED
        BY <4>1, Zenon
    <3>6. (z + 1) * BlockLen + 0 = z * BlockLen + BlockLen
      BY <2>3
    <3> QED
      BY <2>2, <3>4, <3>5, <3>6, Zenon
  <2> QED
    BY <2>4, <2>5, Zenon
<1>16. ASSUME dec'.done = FALSE PROVE Knows(image, w, v, Past(dec', load'), k, dec')
  BY <1>2, <1>8, <1>15, <1>16, Zenon DEF Knows
<1>17. LoadTrace(image, file, w, v, T, k, m, dec', load', shown')
  BY <1>2, <1>12, <1>13, <1>14, <1>16, Zenon DEF LoadTrace
<1> QED
  BY <1>1, <1>6, <1>17, Zenon DEF HasLoad

(* The byte that is taken is the next of the file's.                       *)
LEMMA NextByte ==
  ASSUME NEW f, NEW v, NEW T, Filled(v, T, f), NEW t, NEW l, Reader(f, t, l),
         t.bufferPos < Len(t.buffer)
  PROVE  /\ t.buffer[t.bufferPos + 1] = ByteOf(v, Past(t, l))
         /\ Past(t, l) \in Nat /\ t.bufferPos \in Nat
         /\ \A u, r : u.bufferPos = t.bufferPos + 1 /\ r.next = l.next => Past(u, r) = Past(t, l) + 1
<1>1. PICK n, g \in Nat : n = l.next /\ g = Len(f) /\ 1 <= n /\ n <= g /\ g >= 2
  <2>1. l.next \in 1..Len(f) /\ Len(f) \in Nat /\ Len(f) >= 2
    BY Zenon DEF Reader, Filled
  <2>2. l.next \in Nat /\ 1 <= l.next /\ l.next <= Len(f)
    BY <2>1
  <2> QED
    BY <2>1, <2>2, Zenon
<1>2. t.buffer = IF n = 1 THEN << >> ELSE f[n - 1].bytes
  BY <1>1, Zenon DEF Reader
<1>3. t.bufferPos \in 0..Len(t.buffer)
  BY Zenon DEF Reader
<1>4. n # 1
  <2>1. ASSUME n = 1 PROVE FALSE
    <3>1. Len(t.buffer) = 0
      BY <1>2, <2>1
    <3> QED
      BY <1>3, <3>1
  <2> QED
    BY <2>1
<1>5. n - 1 \in 1..Len(f)-1 /\ n - 1 \in 1..Len(f)
  BY <1>1, <1>4
<1>6. Len(f[n - 1].bytes) \in Nat
  <2>1. f \in Seq(Blocks)
    BY Zenon DEF Filled
  <2>2. f[n - 1] \in Blocks
    BY <1>5, <2>1
  <2>3. f[n - 1].bytes \in Seq(Bytes)
    BY <2>2 DEF Blocks
  <2> QED
    BY <2>3
<1>7. PICK p \in Nat : p = t.bufferPos /\ p + 1 \in 1..Len(f[n - 1].bytes)
  <2>1. t.buffer = f[n - 1].bytes
    BY <1>2, <1>4, Zenon
  <2>2. t.bufferPos \in Nat /\ t.bufferPos + 1 \in 1..Len(f[n - 1].bytes)
    BY <1>3, <1>6, <2>1
  <2> QED
    BY <2>2, Zenon
<1>8. Holds(v, ((n - 1) - 1) * BlockLen, f[n - 1].bytes)
  BY <1>5, Zenon DEF Filled
<1>9. f[n - 1].bytes[p + 1] = ByteOf(v, ((n - 1) - 1) * BlockLen + ((p + 1) - 1))
  BY <1>7, <1>8, Zenon DEF Holds
<1>10. (n - 1) - 1 = n - 2 /\ (p + 1) - 1 = p
  BY <1>1, <1>7
<1>11. PICK e \in Nat : e = (n - 2) * BlockLen
  <2>1. n - 2 \in Nat /\ BlockLen \in Nat
    BY <1>1, <1>4, ByteWidth
  <2>2. (n - 2) * BlockLen \in Nat
    BY <2>1
  <2> QED
    BY <2>2, Zenon
<1>12. Past(t, l) = e + p
  BY <1>1, <1>4, <1>7, <1>11, Zenon DEF Past
<1>13. t.buffer[t.bufferPos + 1] = ByteOf(v, Past(t, l))
  BY <1>2, <1>4, <1>7, <1>9, <1>10, <1>11, <1>12, Zenon
<1>14. ASSUME NEW u, NEW r, u.bufferPos = t.bufferPos + 1, r.next = l.next PROVE Past(u, r) = Past(t, l) + 1
  <2>1. Past(u, r) = e + (p + 1)
    BY <1>1, <1>4, <1>7, <1>11, <1>14, Zenon DEF Past
  <2>2. e + (p + 1) = (e + p) + 1
    BY <1>7, <1>11
  <2> QED
    BY <1>12, <2>1, <2>2, Zenon
<1>15. e + p \in Nat
  BY <1>7, <1>11
<1> QED
  BY <1>7, <1>12, <1>13, <1>14, <1>15, Zenon

(* One byte more of the number, at its high end.                           *)
MoreBits(v, o, A, p, s) ==
  /\ p = Bits(v, o, s) /\ ByteBits * A = o + s
  /\ p \in Nat /\ s \in Nat /\ p < Pow2[s]

(* Bits taken up to a byte, and that byte, are the bits up to the next     *)
(* one.                                                                    *)
LEMMA BitsWithByte ==
  ASSUME NEW v \in Nat, NEW o \in Nat, NEW z \in Nat, NEW A \in Nat, ByteBits * A = o + z
  PROVE  MoreBits(v, o, A + 1, Bits(v, o, z) + ByteOf(v, A) * Pow2[z], z + ByteBits)
<1> HIDE DEF Pow2
<1>1. Bits(v, o, z) + ByteOf(v, A) * Pow2[z] = Bits(v, o, z + ByteBits)
      /\ ByteBits * (A + 1) = o + (z + ByteBits)
  BY ByteTaken
<1>2. z + ByteBits \in Nat
  <2>1. ByteBits \in Nat
    BY ByteWidth
  <2> QED
    BY <2>1
<1>3. Bits(v, o, z + ByteBits) \in Nat /\ Bits(v, o, z + ByteBits) < Pow2[z + ByteBits]
  BY <1>2, BitsType
<1> QED
  BY <1>1, <1>2, <1>3, Zenon DEF MoreBits

(* Taking a byte of the sub-block.                                         *)
LEMMA TakeByteTrace ==
  ASSUME image \in Images, TakeByte, HasLoad(image, file, dec, load, shown)
  PROVE  HasLoad(image', file', dec', load', shown')
<1> HIDE DEF Pow2, MaxCode, Codes
<1>1. PICK w, v, T, k, m : /\ T \in Nat /\ k \in Nat /\ m \in Nat
                           /\ LoadTrace(image, file, w, v, T, k, m, dec, load, shown)
  BY Zenon DEF HasLoad
<1>2. /\ Ended(image, w, v, T) /\ Filled(v, T, file) /\ Reader(file, dec, load)
      /\ Shows(image, w, k, m, dec, load, shown) /\ DecoderRange(dec)
      /\ dec.done = FALSE => Knows(image, w, v, Past(dec, load), k, dec)
  BY <1>1, Zenon DEF LoadTrace
<1>3. PICK b : b = dec.buffer[dec.bufferPos + 1]
  OBVIOUS
<1>4. /\ load.at \in {"byte", "codes"} /\ dec.bufferPos < dec.bufferSize
      /\ dec' = [dec EXCEPT !.partial = @ + b * Pow2[dec.partialSize],
                            !.partialSize = @ + ByteBits, !.bufferPos = @ + 1]
      /\ load' = [load EXCEPT !.at = "codes"]
      /\ image' = image /\ file' = file /\ shown' = shown
  BY <1>3 DEF TakeByte, WantsByte, saveVars, fileVars
<1>5. DecoderShape(dec) /\ LoaderShape(load)
  BY <1>2, Zenon DEF DecoderRange, Shows
<1>6. /\ DecoderShape(dec') /\ dec'.bufferSize = dec.bufferSize /\ dec'.buffer = dec.buffer
      /\ dec'.bufferPos = dec.bufferPos + 1 /\ dec'.done = dec.done /\ dec'.strings = dec.strings
      /\ dec'.nextCode = dec.nextCode /\ dec'.codeSize = dec.codeSize /\ dec'.oldCode = dec.oldCode
      /\ dec'.partial = dec.partial + b * Pow2[dec.partialSize]
      /\ dec'.partialSize = dec.partialSize + ByteBits
  BY <1>4, <1>5 DEF DecoderShape
<1>7. /\ LoaderShape(load') /\ load'.at = "codes" /\ load'.next = load.next /\ load'.buf = load.buf
      /\ load'.x = load.x /\ load'.y = load.y /\ load'.pass = load.pass
  BY <1>4, <1>5 DEF LoaderShape
<1>8. dec.bufferSize = Len(dec.buffer) /\ dec.bufferPos \in 0..Len(dec.buffer) /\ dec.done = FALSE
  BY <1>2, <1>4, Zenon DEF Reader
<1>9. dec.bufferPos < Len(dec.buffer)
  BY <1>4, <1>8, Zenon
<1>10. PICK A \in Nat : A = Past(dec, load) /\ b = ByteOf(v, A) /\ Past(dec', load') = A + 1
  <2>1. /\ dec.buffer[dec.bufferPos + 1] = ByteOf(v, Past(dec, load)) /\ Past(dec, load) \in Nat
        /\ \A u, r : u.bufferPos = dec.bufferPos + 1 /\ r.next = load.next => Past(u, r) = Past(dec, load) + 1
    BY <1>2, <1>9, NextByte
  <2> QED
    BY <1>3, <1>6, <1>7, <2>1, Zenon
<1>11. Knows(image, w, v, A, k, dec)
  BY <1>2, <1>8, <1>10, Zenon
<1>12. /\ k <= w.n /\ ByteBits * A = w.off[k] + dec.partialSize
       /\ dec.partial = Bits(v, w.off[k], dec.partialSize)
  BY <1>11, Zenon DEF Knows
<1>13. PICK o, z \in Nat : o = w.off[k] /\ z = dec.partialSize
  <2>1. w.off[k] \in Nat
    BY <1>1, <1>2, <1>12, CodeIsThere
  <2>2. dec.partialSize \in Nat
    BY <1>2, Zenon DEF DecoderRange
  <2> QED
    BY <2>1, <2>2, Zenon
<1>14. v \in Nat
  BY <1>1, <1>2, <1>12, CodeIsThere
<1>15. MoreBits(v, o, A + 1, Bits(v, o, z) + ByteOf(v, A) * Pow2[z], z + ByteBits)
  <2>1. o \in Nat /\ z \in Nat /\ A \in Nat /\ v \in Nat
    BY <1>10, <1>13, <1>14
  <2>2. ByteBits * A = o + z
    BY <1>10, <1>12, <1>13, Zenon
  <2> QED
    BY <2>1, <2>2, BitsWithByte
<1>16. /\ dec'.partial = Bits(v, o, z + ByteBits) /\ dec'.partialSize = z + ByteBits
       /\ dec'.partial \in Nat /\ dec'.partial < Pow2[dec'.partialSize]
  BY <1>6, <1>10, <1>12, <1>13, <1>15, Zenon DEF MoreBits
<1>17. Reader(file, dec', load')
  <2>1. dec.bufferPos + 1 \in 0..Len(dec.buffer)
    BY <1>8, <1>9
  <2>2. /\ load'.next \in 1..Len(file)
        /\ dec'.buffer = IF load'.next = 1 THEN << >> ELSE file[load'.next - 1].bytes
    BY <1>2, <1>6, <1>7, Zenon DEF Reader
  <2>3. /\ dec'.bufferPos \in 0..Len(dec'.buffer) /\ dec'.bufferSize = Len(dec'.buffer)
        /\ dec'.done = FALSE
    BY <1>6, <1>8, <2>1, Zenon
  <2> HIDE <1>1, <1>2, <1>3, <1>4, <1>5, <1>6, <1>15, <1>16
  <2> QED
    BY <1>7, <2>2, <2>3 DEF Reader
<1>18. Shows(image, w, k, m, dec', load', shown')
  BY <1>2, <1>4, <1>6, <1>7, Zenon DEF Shows
<1>19. DecoderRange(dec')
  BY <1>2, <1>6, <1>15, <1>16, Zenon DEF DecoderRange, MoreBits
<1>20. Knows(image, w, v, A + 1, k, dec')
  BY <1>6, <1>11, <1>13, <1>15, <1>16, Zenon DEF Knows, MoreBits
<1>21. LoadTrace(image, file, w, v, T, k, m, dec', load', shown')
  BY <1>2, <1>10, <1>17, <1>18, <1>19, <1>20, Zenon DEF LoadTrace
<1> QED
  BY <1>1, <1>4, <1>21, Zenon DEF HasLoad

(* A decoder and a load that were only started.                            *)
Untouched(i, t, l, sh) ==
  /\ t = StartedDecompressor(i)
  /\ l = [next |-> 1, at |-> "block", buf |-> << >>, x |-> 0, y |-> 0, pass |-> 0]
  /\ sh = [cell \in DOMAIN i.pixel |-> Blank]

(* The table a decoder begins with knows the pixels only.                  *)
LEMMA FirstStrings ==
  ASSUME NEW i \in Images, NEW w, w.from[0] = 0,
         NEW str, str = [c \in Codes |-> IF c < ClearCode(i) THEN <<c>> ELSE << >>]
  PROVE  Strings(i, w, 0, str, None) /\ \A c \in Codes : Len(str[c]) <= 1
<1> HIDE DEF None, MaxCode
<1>1. PICK l, x \in Nat : l = ClearCode(i) /\ x = MaxCode /\ l < x
  <2>1. ClearCode(i) \in Nat /\ MaxCode \in Nat /\ ClearCode(i) >= 4 /\ 2 * ClearCode(i) <= MaxCode
    BY ImageFacts
  <2>2. ClearCode(i) < MaxCode
    BY <2>1
  <2> QED
    BY <2>1, <2>2, Zenon
<1>2. Codes = 0..x-1
  BY <1>1, Zenon DEF Codes
<1>3. str \in [Codes -> Seq(Hues(i))]
  <2>1. ASSUME NEW c \in Codes PROVE (IF c < ClearCode(i) THEN <<c>> ELSE << >>) \in Seq(Hues(i))
    <3>1. c \in Nat
      BY <1>2
    <3>2. c \in Hues(i)
      BY <3>1, Zenon DEF Hues
    <3> QED
      BY <3>2
  <2> QED
    BY <2>1
<1>4. ASSUME NEW c \in Nat, c < ClearCode(i) PROVE str[c] = <<c>>
  <2>1. c \in Codes
    BY <1>1, <1>2, <1>4
  <2> QED
    BY <1>4, <2>1
<1>5. ASSUME NEW q \in Nat, q + 1 < 0 PROVE FALSE
  BY <1>5
<1>6. ASSUME NEW c \in Codes PROVE Len(str[c]) <= 1
  OBVIOUS
<1> QED
  BY <1>3, <1>4, <1>5, <1>6, Zenon DEF Strings

(* An empty picture is that of which no pixel was shown.                   *)
LEMMA NothingShown ==
  ASSUME NEW i \in Images, NEW sh, sh = [cell \in DOMAIN i.pixel |-> Blank]
  PROVE  sh = Picture(i, Origin)
<1>1. Origin.pass = 0 /\ Origin.y = 0 /\ Origin.x = 0
  BY DEF Origin
<1>2. DOMAIN i.pixel = (0..i.height-1) \X (0..i.width-1)
  BY ImageAssumption
<1>3. ASSUME NEW cell \in DOMAIN i.pixel PROVE ~Before(i, cell, Origin)
  <2>1. cell[1] \in 0..i.height-1 /\ cell[2] \in 0..i.width-1
    BY <1>2, <1>3
  <2>2. cell[1] \in Nat /\ cell[2] \in Nat
    BY <2>1, ImageFacts
  <2>3. Class(i, cell[1]) \in 0..3
    BY DEF Class
  <2>4. PICK a, b, c \in Nat : a = cell[1] /\ b = cell[2] /\ c = Class(i, cell[1])
    BY <2>2, <2>3
  <2>5. ~(c < 0) /\ ~(a < 0) /\ ~(b < 0)
    BY <2>4
  <2> QED
    BY <1>1, <2>4, <2>5, Zenon DEF Before
<1> QED
  BY <1>3, Zenon DEF Picture

(* A loader that has done nothing, before a whole file.                    *)
LEMMA OpenedTrace ==
  ASSUME NEW i \in Images, NEW f, HasFile(i, f), NEW t, NEW l, NEW sh, Untouched(i, t, l, sh)
  PROVE  HasLoad(i, f, t, l, sh)
<1> HIDE DEF Pow2, MaxCode, Codes, None
<1>1. PICK w, v, T : T \in Nat /\ Ended(i, w, v, T) /\ Filled(v, T, f)
  BY Zenon DEF HasFile
<1>2. CodesOk(i, w) /\ w.n # 0 /\ Place(i)[w.at[w.n]].y >= i.height
  BY <1>1, Zenon DEF Ended
<1>3. w.off[0] = 0 /\ w.at[0] = 0 /\ w.from[0] = 0
  BY <1>2, Zenon DEF CodesOk
<1>4. l.next = 1 /\ l.at = "block" /\ l.buf = << >> /\ l.x = 0 /\ l.y = 0 /\ l.pass = 0 /\ LoaderShape(l)
  BY DEF Untouched, LoaderShape
<1>5. /\ DecoderShape(t) /\ t.done = FALSE /\ t.partial = 0 /\ t.partialSize = 0
      /\ t.buffer = << >> /\ t.bufferSize = 0 /\ t.bufferPos = 0
      /\ t.strings = [c \in Codes |-> IF c < ClearCode(i) THEN <<c>> ELSE << >>]
      /\ t.nextCode = EndCode(i) + 1 /\ t.codeSize = MinCodeSize(i) + 1 /\ t.oldCode = None
  BY StartDecoder DEF Untouched
<1>6. Len(f) \in Nat /\ Len(f) >= 2
  BY <1>1, Zenon DEF Filled
<1>7. Reader(f, t, l)
  <2>1. 1 \in 1..Len(f)
    BY <1>6
  <2>2. Len(t.buffer) = 0
    BY <1>5
  <2> QED
    BY <1>4, <1>5, <2>1, <2>2 DEF Reader
<1>8. Place(i)[0] = Origin
  BY PlaceFunction, Zenon
<1>9. Shows(i, w, 0, 0, t, l, sh)
  <2>1. Len(l.buf) = 0
    BY <1>4
  <2>2. l.buf = Text(i, 0, 0)
    <3>1. IsText(i, 0, 0, Text(i, 0, 0))
      BY TextFacts
    <3>2. Text(i, 0, 0) \in Seq(Hues(i)) /\ Len(Text(i, 0, 0)) = 0
      BY <3>1, Zenon DEF IsText
    <3> QED
      BY <1>4, <3>2
  <2>3. 0 <= OutLen /\ 0 \in Nat
    BY OutAssumption
  <2>4. w.at[w.n] # 0
    <3>1. ASSUME w.at[w.n] = 0 PROVE FALSE
      <4>1. Origin.y >= i.height
        BY <1>2, <1>8, <3>1, Zenon
      <4>2. Origin.y = 0 /\ i.height \in Nat \ {0}
        BY ImageFacts DEF Origin
      <4> QED
        BY <4>1, <4>2
    <3> QED
      BY <3>1
  <2>5. Place(i)[0] = [y |-> l.y, pass |-> l.pass, x |-> l.x]
    BY <1>4, <1>8, Zenon DEF Origin
  <2>6. sh = Picture(i, Place(i)[0])
    BY <1>8, NothingShown, Zenon DEF Untouched
  <2>7. 0 + Len(l.buf) = w.at[0] /\ ~(t.done = TRUE)
    BY <1>3, <1>5, <2>1
  <2> QED
    BY <1>4, <2>1, <2>2, <2>3, <2>4, <2>5, <2>6, <2>7, Zenon DEF Shows
<1>10. Strings(i, w, 0, t.strings, t.oldCode) /\ \A c \in Codes : Len(t.strings[c]) <= 1
  <2>1. Strings(i, w, 0, t.strings, None) /\ \A c \in Codes : Len(t.strings[c]) <= 1
    BY <1>3, <1>5, FirstStrings
  <2> QED
    BY <1>5, <2>1, Zenon
<1>11. PICK cl, x, mn, cb \in Nat : /\ cl = ClearCode(i) /\ x = MaxCode /\ mn = MinCodeSize(i) /\ cb = CodeBits
                                    /\ cl >= 4 /\ 2 * cl <= x /\ EndCode(i) = cl + 1 /\ mn < cb
  <2>1. /\ ClearCode(i) \in Nat /\ MaxCode \in Nat /\ ClearCode(i) >= 4 /\ 2 * ClearCode(i) <= MaxCode
        /\ MinCodeSize(i) \in Nat /\ CodeBits \in Nat /\ ByteBits \in Nat
        /\ MinCodeSize(i) <= ByteBits /\ ByteBits < CodeBits /\ EndCode(i) = ClearCode(i) + 1
    BY ImageFacts
  <2>2. MinCodeSize(i) < CodeBits
    BY <2>1
  <2> QED
    BY <2>1, <2>2, Zenon
<1>12. DecoderRange(t)
  <2>1. t.nextCode \in 0..MaxCode
    <3>1. (cl + 1) + 1 \in 0..x
      BY <1>11
    <3> QED
      BY <1>5, <1>11, <3>1, Zenon
  <2>2. t.codeSize \in 1..CodeBits
    <3>1. mn + 1 \in 1..cb
      BY <1>11
    <3> QED
      BY <1>5, <1>11, <3>1, Zenon
  <2>3. t.oldCode \in 0..MaxCode
    <3>1. x \in 0..x
      BY <1>11
    <3> QED
      BY <1>5, <1>11, <3>1, Zenon DEF None
  <2>4. ASSUME NEW c \in Codes PROVE Len(t.strings[c]) <= OutLen
    <3>1. t.strings[c] \in Seq(Hues(i))
      BY <1>10 DEF Strings
    <3>2. Len(t.strings[c]) \in Nat /\ Len(t.strings[c]) <= 1
      BY <1>10, <3>1
    <3>3. OutLen \in Nat /\ OutLen >= x
      BY <1>11, OutAssumption DEF MaxCode
    <3> QED
      BY <1>11, <3>2, <3>3
  <2>5. t.partial \in Nat /\ t.partialSize \in Nat /\ t.partial < Pow2[t.partialSize]
    <3>1. Pow2[0] = 1 /\ 0 \in Nat /\ 0 < 1
      BY PowerEquations
    <3> QED
      BY <1>5, <3>1, Zenon
  <2>6. t.done \in BOOLEAN
    BY <1>5
  <2> QED
    BY <1>5, <2>1, <2>2, <2>3, <2>4, <2>5, <2>6, Zenon DEF DecoderRange
<1>13. Knows(i, w, v, Past(t, l), 0, t)
  <2>1. Past(t, l) = 0
    BY <1>4, Zenon DEF Past
  <2>2. v \in Nat /\ w.n \in Nat
    <3>1. TraceType(w)
      BY <1>2, Zenon DEF CodesOk
    <3>2. w.n \in Nat
      BY <3>1, Zenon DEF TraceType
    <3>3. 0 <= w.n
      BY <3>2
    <3> QED
      BY <1>1, <3>2, <3>3, CodeIsThere
  <2>3. ByteBits * 0 = 0 + 0
    BY ByteWidth
  <2>4. Bits(v, 0, 0) = 0
    <3>1. Bits(v, 0, 0) \in Nat /\ Bits(v, 0, 0) < Pow2[0]
      BY <2>2, BitsType
    <3>2. Pow2[0] = 1
      BY PowerEquations
    <3> QED
      BY <3>1, <3>2
  <2>5. t.nextCode = Upto(i, w, 0)
    BY <1>3, <1>5, Zenon DEF Upto
  <2>6. SizeFor(i, t.nextCode, t.codeSize)
    <3>1. EndCode(i) + 1 \in Nat /\ EndCode(i) + 1 < 2 * ClearCode(i)
      BY <1>11
    <3>2. SizeFor(i, EndCode(i) + 1, MinCodeSize(i) + 1)
      BY <3>1, FirstSize
    <3> QED
      BY <1>5, <3>2, Zenon
  <2>7. 0 <= w.n
    BY <2>2
  <2> QED
    BY <1>3, <1>5, <1>10, <2>1, <2>3, <2>4, <2>5, <2>6, <2>7, Zenon DEF Knows
<1>14. LoadTrace(i, f, w, v, T, 0, 0, t, l, sh)
  BY <1>1, <1>7, <1>9, <1>12, <1>13, Zenon DEF LoadTrace
<1>15. 0 \in Nat
  OBVIOUS
<1> QED
  BY <1>1, <1>14, <1>15, Zenon DEF HasLoad

-----------------------------------------------------------------------------
(* End codes and clear codes.                                              *)

(* No code before the last is taken for the end.                           *)
LEMMA NotTheEnd ==
  ASSUME NEW i \in Images, NEW w, CodesOk(i, w), NEW k \in Nat, k < w.n
  PROVE  w.code[k] <= Upto(i, w, k) /\ w.code[k] # EndCode(i)
<1>1. PICK n, e, l, u \in Nat : /\ n = w.n /\ e = EndCode(i) /\ l = ClearCode(i) /\ e = l + 1
                                /\ u = Upto(i, w, k) /\ e < u
  <2>1. w.n \in Nat
    BY Zenon DEF CodesOk, TraceType
  <2>2. k <= w.n
    BY <2>1
  <2>3. Upto(i, w, k) \in Nat /\ EndCode(i) < Upto(i, w, k)
    BY <2>2, UptoBounds
  <2>4. EndCode(i) = ClearCode(i) + 1 /\ ClearCode(i) \in Nat /\ EndCode(i) \in Nat
    BY ImageFacts
  <2> QED
    BY <2>1, <2>3, <2>4, Zenon
<1>2. CASE w.code[k] = ClearCode(i)
  <2>1. l <= u /\ l # e
    BY <1>1
  <2> QED
    BY <1>1, <1>2, <2>1, Zenon
<1>3. CASE w.code[k] # ClearCode(i)
  <2>1. PICK F, L \in Nat : CodeFacts(i, w, k, F, L)
    BY <1>3, CodeNumbers
  <2>2. PICK K \in Nat : K = k + 1
    OBVIOUS
  <2>3. w.code[k] <= Upto(i, w, k)
    BY <2>1, <2>2, UptoMoves
  <2> QED
    BY <2>1, <2>3, Zenon DEF CodeFacts
<1> QED
  BY <1>2, <1>3, Zenon

(* A code is taken from t: d is t without its bits.  It is the next of the *)
(* list, or the end code behind the last.                                  *)
Taking(i, w, v, A, k, t, d) ==
  /\ LowIs(i, w, k, LowCode(t), t.codeSize)
  /\ MoreBits(v, w.off[k] + t.codeSize, A, d.partial, d.partialSize)

(* Taking a code: the numbers of the decoder without its bits.             *)
LEMMA CodeTaken ==
  ASSUME NEW i \in Images, NEW w, NEW v, NEW T \in Nat, Ended(i, w, v, T),
         NEW k \in Nat, NEW A \in Nat, NEW t, Knows(i, w, v, A, k, t), DecoderRange(t),
         t.partialSize >= t.codeSize, NEW d, d = DropBits(t, t.codeSize)
  PROVE  Taking(i, w, v, A, k, t, d)
<1> HIDE DEF Pow2, MaxCode, Codes
<1>1. /\ k <= w.n /\ ByteBits * A = w.off[k] + t.partialSize
      /\ t.partial = Bits(v, w.off[k], t.partialSize)
      /\ SizeFor(i, Upto(i, w, k), t.codeSize)
  BY Zenon DEF Knows
<1>2. PICK o, z, s \in Nat : o = w.off[k] /\ z = t.partialSize /\ s = t.codeSize /\ s <= z
  <2>1. w.off[k] \in Nat
    BY <1>1, CodeIsThere
  <2>2. t.partialSize \in Nat /\ t.codeSize \in 1..CodeBits /\ CodeBits \in Nat
    BY ByteWidth DEF DecoderRange
  <2>3. t.codeSize \in Nat /\ t.codeSize <= t.partialSize
    BY <2>2
  <2> QED
    BY <2>1, <2>2, <2>3, Zenon
<1>3. v \in Nat
  BY <1>1, CodeIsThere
<1>4. LowIs(i, w, k, Bits(v, o, z) % Pow2[s], s) /\ Bits(v, o, z) \div Pow2[s] = Bits(v, o + s, z - s)
  <2>1. k <= w.n /\ SizeFor(i, Upto(i, w, k), s) /\ s <= z /\ s \in Nat /\ z \in Nat
    BY <1>1, <1>2
  <2>2. LowIs(i, w, k, Bits(v, w.off[k], z) % Pow2[s], s) /\ Bits(v, w.off[k], z) \div Pow2[s] = Bits(v, w.off[k] + s, z - s)
    BY <2>1, LowBits
  <2> QED
    BY <1>2, <2>2, Zenon
<1>5. LowCode(t) = Bits(v, o, z) % Pow2[s]
  BY <1>1, <1>2, Zenon DEF LowCode
<1>6. d.partial = Bits(v, o, z) \div Pow2[s] /\ d.partialSize = z - s
  <2>1. d.partial = t.partial \div Pow2[t.codeSize] /\ d.partialSize = t.partialSize - t.codeSize
    BY DropFields DEF DecoderRange
  <2> QED
    BY <1>1, <1>2, <2>1, Zenon
<1>7. PICK y, r \in Nat : y = z - s /\ r = o + s /\ o + z = r + y
  <2>1. z - s \in Nat /\ o + s \in Nat /\ o + z = (o + s) + (z - s)
    BY <1>2
  <2> QED
    BY <2>1, Zenon
<1>8. Bits(v, r, y) \in Nat /\ Bits(v, r, y) < Pow2[y]
  BY <1>3, <1>7, BitsType
<1>9. MoreBits(v, r, A, d.partial, d.partialSize)
  BY <1>1, <1>2, <1>4, <1>6, <1>7, <1>8, Zenon DEF MoreBits
<1> QED
  BY <1>2, <1>4, <1>5, <1>7, <1>9, Zenon DEF Taking

(* How many bytes the decoder has taken is a number.                       *)
LEMMA PastNumber ==
  ASSUME NEW f, NEW v, NEW T, Filled(v, T, f), NEW t, NEW l, Reader(f, t, l)
  PROVE  Past(t, l) \in Nat
<1>1. l.next \in 1..Len(f) /\ t.bufferPos \in 0..Len(t.buffer) /\ Len(f) \in Nat
  BY Zenon DEF Reader, Filled
<1>2. l.next \in Nat /\ l.next >= 1 /\ t.bufferPos \in Nat /\ BlockLen \in Nat
  BY <1>1, ByteWidth
<1>3. CASE l.next = 1
  BY <1>3 DEF Past
<1>4. CASE l.next # 1
  <2>1. l.next - 2 \in Nat
    BY <1>2, <1>4
  <2>2. (l.next - 2) * BlockLen \in Nat
    BY <1>2, <2>1
  <2>3. (l.next - 2) * BlockLen + t.bufferPos \in Nat
    BY <1>2, <2>2
  <2> QED
    BY <1>4, <2>3, Zenon DEF Past
<1> QED
  BY <1>3, <1>4

(* The end code is taken after the last code, and then all is decoded.     *)
LEMMA TakeEndCodeTrace ==
  ASSUME image \in Images, TakeEndCode, HasLoad(image, file, dec, load, shown)
  PROVE  HasLoad(image', file', dec', load', shown')
<1> HIDE DEF Pow2, MaxCode, Codes
<1>1. PICK w, v, T, k, m : /\ T \in Nat /\ k \in Nat /\ m \in Nat
                           /\ LoadTrace(image, file, w, v, T, k, m, dec, load, shown)
  BY Zenon DEF HasLoad
<1>2. /\ Ended(image, w, v, T) /\ Filled(v, T, file) /\ Reader(file, dec, load)
      /\ Shows(image, w, k, m, dec, load, shown) /\ DecoderRange(dec)
      /\ dec.done = FALSE => Knows(image, w, v, Past(dec, load), k, dec)
  BY <1>1, Zenon DEF LoadTrace
<1>3. PICK d : d = DropBits(dec, dec.codeSize)
  OBVIOUS
<1>4. /\ load.at = "codes" /\ dec.partialSize >= dec.codeSize /\ IsEnd(dec)
      /\ dec' = [d EXCEPT !.done = TRUE] /\ load' = [load EXCEPT !.at = "show"]
      /\ image' = image /\ file' = file /\ shown' = shown
  BY <1>3 DEF TakeEndCode, HasCode, saveVars, fileVars
<1>5. DecoderShape(dec) /\ LoaderShape(load)
  BY <1>2, Zenon DEF DecoderRange, Shows
<1>6. /\ DecoderShape(d) /\ SameBuffer(dec, d) /\ d.strings = dec.strings /\ d.nextCode = dec.nextCode
      /\ d.codeSize = dec.codeSize /\ d.oldCode = dec.oldCode
  BY <1>3, <1>5, DropFields
<1>7. /\ DecoderShape(dec') /\ dec'.bufferSize = d.bufferSize /\ dec'.buffer = d.buffer
      /\ dec'.bufferPos = d.bufferPos /\ dec'.done = TRUE /\ dec'.strings = d.strings
      /\ dec'.nextCode = d.nextCode /\ dec'.codeSize = d.codeSize /\ dec'.oldCode = d.oldCode
      /\ dec'.partial = d.partial /\ dec'.partialSize = d.partialSize
  BY <1>4, <1>6 DEF DecoderShape
<1>8. /\ LoaderShape(load') /\ load'.at = "show" /\ load'.next = load.next /\ load'.buf = load.buf
      /\ load'.x = load.x /\ load'.y = load.y /\ load'.pass = load.pass
  BY <1>4, <1>5 DEF LoaderShape
<1>9. dec.bufferSize = Len(dec.buffer) /\ dec.done = FALSE
  BY <1>2, <1>4, Zenon DEF Reader
<1>10. PICK A \in Nat : A = Past(dec, load)
  BY <1>2, PastNumber
<1>11. Knows(image, w, v, A, k, dec)
  BY <1>2, <1>9, <1>10, Zenon
<1>12. Taking(image, w, v, A, k, dec, d)
  BY <1>1, <1>2, <1>3, <1>4, <1>10, <1>11, CodeTaken
<1>13. k = w.n
  <2>1. CodesOk(image, w) /\ k <= w.n /\ dec.nextCode = Upto(image, w, k)
    BY <1>2, <1>11, Zenon DEF Ended, Knows
  <2>2. w.n \in Nat
    BY <2>1, Zenon DEF CodesOk, TraceType
  <2>3. ASSUME k < w.n PROVE FALSE
    <3>1. LowCode(dec) = w.code[k]
      BY <1>12, <2>3, Zenon DEF Taking, LowIs
    <3>2. w.code[k] <= Upto(image, w, k) /\ w.code[k] # EndCode(image)
      BY <1>1, <2>1, <2>3, NotTheEnd
    <3>3. w.code[k] > Upto(image, w, k)
      BY <1>4, <2>1, <3>1, <3>2, Zenon DEF IsEnd
    <3>4. w.code[k] \in Nat /\ Upto(image, w, k) \in Nat
      BY <1>1, <2>1, UptoBounds DEF CodesOk, TraceType
    <3> QED
      BY <3>2, <3>3, <3>4
  <2> QED
    BY <1>1, <2>1, <2>2, <2>3
<1>14. Reader(file, dec', load')
  <2>1. /\ load'.next \in 1..Len(file)
        /\ dec'.buffer = IF load'.next = 1 THEN << >> ELSE file[load'.next - 1].bytes
        /\ dec'.bufferPos \in 0..Len(dec'.buffer) /\ dec'.bufferSize = Len(dec'.buffer)
        /\ dec'.bufferPos = dec.bufferPos /\ dec'.buffer = dec.buffer
    BY <1>2, <1>6, <1>7, <1>8, <1>9, Zenon DEF Reader, SameBuffer
  <2>2. dec'.bufferSize = 0 => dec'.bufferPos = Len(dec'.buffer)
    BY <2>1
  <2> HIDE <1>1, <1>2, <1>3, <1>4, <1>5, <1>6
  <2> QED
    BY <1>8, <2>1, <2>2 DEF Reader
<1>15. Shows(image, w, k, m, dec', load', shown')
  <2>1. m + Len(load.buf) = w.at[k]
    BY <1>2, <1>9 DEF Shows
  <2>2. m + Len(load'.buf) = w.at[w.n]
    BY <1>8, <1>13, <2>1, Zenon
  <2>3. dec'.done # FALSE
    BY <1>7
  <2> QED
    BY <1>2, <1>4, <1>7, <1>8, <2>2, <2>3, Zenon DEF Shows
<1>16. DecoderRange(dec')
  <2>1. dec'.done \in BOOLEAN
    BY <1>7
  <2> QED
    BY <1>2, <1>6, <1>7, <1>12, <2>1, Zenon DEF DecoderRange, Taking, MoreBits
<1>17. dec'.done # FALSE
  BY <1>7
<1>18. LoadTrace(image, file, w, v, T, k, m, dec', load', shown')
  BY <1>2, <1>14, <1>15, <1>16, <1>17, Zenon DEF LoadTrace
<1> QED
  BY <1>1, <1>4, <1>18, Zenon DEF HasLoad

(* Which code it is that is neither of the two codes for the end.          *)
LEMMA CodeKnown ==
  ASSUME NEW i \in Images, NEW w, NEW v, NEW T \in Nat, Ended(i, w, v, T),
         NEW k \in Nat, NEW A, NEW t, NEW d, Knows(i, w, v, A, k, t), Taking(i, w, v, A, k, t, d),
         LowCode(t) # EndCode(i)
  PROVE  /\ k < w.n /\ w.code[k] = LowCode(t)
         /\ MoreBits(v, w.off[k + 1], A, d.partial, d.partialSize)
<1>1. k < w.n
  <2>1. w.n \in Nat /\ k <= w.n
    BY Zenon DEF Ended, CodesOk, TraceType, Knows
  <2>2. ASSUME ~(k < w.n) PROVE FALSE
    BY <2>2, Zenon DEF Taking, LowIs
  <2> QED
    BY <2>2
<1>2. w.code[k] = LowCode(t) /\ t.codeSize = w.size[k]
  BY <1>1, Zenon DEF Taking, LowIs
<1>3. w.off[k + 1] = w.off[k] + w.size[k]
  <2>1. k <= w.n
    BY Zenon DEF Knows
  <2> QED
    BY <1>1, <2>1, CodeIsThere
<1> QED
  BY <1>1, <1>2, <1>3, Zenon DEF Taking

(* A clear code empties the decoder's table where it emptied the coder's.  *)
LEMMA ClearCounts ==
  ASSUME NEW i \in Images, NEW w, NEW v, NEW T \in Nat, Ended(i, w, v, T),
         NEW k \in Nat, NEW A \in Nat, NEW t, Knows(i, w, v, A, k, t), DecoderRange(t),
         t.partialSize >= t.codeSize, LowCode(t) = ClearCode(i),
         NEW u, u = ClearedDecompressor(i, DropBits(t, t.codeSize))
  PROVE  \E K \in Nat :
           /\ K = k + 1 /\ K <= w.n /\ w.at[K] = w.at[k]
           /\ Knows(i, w, v, A, K, u) /\ DecoderRange(u)
           /\ u.partialSize = t.partialSize - t.codeSize
           /\ DecoderShape(u) /\ SameBuffer(t, u) /\ u.done = t.done
<1> HIDE DEF Pow2, MaxCode, Codes, None
<1>1. PICK d : d = DropBits(t, t.codeSize)
  OBVIOUS
<1>2. DecoderShape(t)
  BY Zenon DEF DecoderRange
<1>3. /\ DecoderShape(d) /\ SameBuffer(t, d) /\ d.strings = t.strings /\ d.done = t.done
      /\ d.partialSize = t.partialSize - t.codeSize
  BY <1>1, <1>2, DropFields
<1>4. /\ DecoderShape(u) /\ SameBuffer(d, u) /\ u.done = d.done
      /\ u.partial = d.partial /\ u.partialSize = d.partialSize
      /\ u.strings = [c \in Codes |-> IF c < ClearCode(i) THEN <<c>> ELSE d.strings[c]]
      /\ u.nextCode = EndCode(i) + 1 /\ u.codeSize = MinCodeSize(i) + 1
      /\ u.oldCode = None
  BY <1>1, <1>3, ClearFields
<1>5. Taking(i, w, v, A, k, t, d)
  BY <1>1, CodeTaken
<1>6. PICK e, c, x, mn, cb \in Nat : /\ e = EndCode(i) /\ c = ClearCode(i) /\ e = c + 1 /\ x = MaxCode
                                  /\ mn = MinCodeSize(i) /\ cb = CodeBits /\ c >= 4 /\ 2 * c <= x /\ mn < cb
  <2>1. /\ ClearCode(i) \in Nat /\ MaxCode \in Nat /\ ClearCode(i) >= 4 /\ 2 * ClearCode(i) <= MaxCode
        /\ MinCodeSize(i) \in Nat /\ CodeBits \in Nat /\ ByteBits \in Nat /\ EndCode(i) \in Nat
        /\ MinCodeSize(i) <= ByteBits /\ ByteBits < CodeBits /\ EndCode(i) = ClearCode(i) + 1
    BY ImageFacts
  <2>2. MinCodeSize(i) < CodeBits
    BY <2>1
  <2> QED
    BY <2>1, <2>2, Zenon
<1>7. /\ k < w.n /\ w.code[k] = ClearCode(i)
      /\ MoreBits(v, w.off[k + 1], A, u.partial, u.partialSize)
  <2>1. LowCode(t) # EndCode(i)
    <3>1. c # e
      BY <1>6
    <3> QED
      BY <1>6, <3>1, Zenon
  <2>2. k < w.n /\ w.code[k] = LowCode(t) /\ MoreBits(v, w.off[k + 1], A, d.partial, d.partialSize)
    BY <1>5, <2>1, CodeKnown
  <2> QED
    BY <1>4, <2>2, Zenon
<1>8. PICK K \in Nat : K = k + 1 /\ K <= w.n
  <2>1. w.n \in Nat
    BY Zenon DEF Ended, CodesOk, TraceType
  <2>2. k + 1 \in Nat /\ k + 1 <= w.n
    BY <1>7, <2>1
  <2> QED
    BY <2>2, Zenon
<1>9. Strings(i, w, K, u.strings, None) /\ w.from[K] = K /\ w.at[K] = w.at[k]
  <2>1. CodesOk(i, w) /\ Strings(i, w, k, t.strings, t.oldCode)
    BY Zenon DEF Ended, Knows
  <2>2. u.strings = [h \in Codes |-> IF h < ClearCode(i) THEN <<h>> ELSE t.strings[h]]
    BY <1>3, <1>4
  <2> QED
    BY <1>7, <1>8, <2>1, <2>2, ClearDecodes
<1>10. DecoderRange(u)
  <2>1. u.nextCode \in 0..MaxCode
    <3>1. e + 1 \in 0..x
      BY <1>6
    <3> QED
      BY <1>4, <1>6, <3>1, Zenon
  <2>2. u.codeSize \in 1..CodeBits
    <3>1. mn + 1 \in 1..cb
      BY <1>6
    <3> QED
      BY <1>4, <1>6, <3>1, Zenon
  <2>3. u.oldCode \in 0..MaxCode
    <3>1. x \in 0..x
      BY <1>6
    <3> QED
      BY <1>4, <1>6, <3>1, Zenon DEF None
  <2>4. ASSUME NEW h \in Codes PROVE Len(u.strings[h]) <= OutLen
    <3>1. u.strings[h] = IF h < ClearCode(i) THEN <<h>> ELSE t.strings[h]
      BY <1>3, <1>4
    <3>2. Len(<<h>>) = 1
      OBVIOUS
    <3>3. OutLen \in Nat /\ OutLen >= x
      BY <1>6, OutAssumption DEF MaxCode
    <3>4. 1 <= OutLen
      BY <1>6, <3>3
    <3>5. Len(t.strings[h]) <= OutLen
      BY Zenon DEF DecoderRange
    <3> QED
      BY <3>1, <3>2, <3>4, <3>5, Zenon
  <2>5. u.done \in BOOLEAN
    BY <1>3, <1>4, Zenon DEF DecoderRange
  <2> QED
    BY <1>4, <1>7, <2>1, <2>2, <2>3, <2>4, <2>5, Zenon DEF DecoderRange, MoreBits
<1>11. Knows(i, w, v, A, K, u)
  <2>1. u.nextCode = Upto(i, w, K)
    BY <1>4, <1>9, Zenon DEF Upto
  <2>2. SizeFor(i, u.nextCode, u.codeSize)
    <3>1. EndCode(i) + 1 \in Nat /\ EndCode(i) + 1 < 2 * ClearCode(i)
      BY <1>6
    <3>2. SizeFor(i, EndCode(i) + 1, MinCodeSize(i) + 1)
      BY <3>1, FirstSize
    <3> QED
      BY <1>4, <3>2, Zenon
  <2> QED
    BY <1>4, <1>7, <1>8, <1>9, <2>1, <2>2, Zenon DEF Knows, MoreBits
<1>12. SameBuffer(t, u)
  BY <1>3, <1>4, Zenon DEF SameBuffer
<1> QED
  BY <1>3, <1>4, <1>8, <1>9, <1>10, <1>11, <1>12, Zenon

(* A clear code while loading.                                             *)
LEMMA TakeClearCodeTrace ==
  ASSUME image \in Images, TakeClearCode, HasLoad(image, file, dec, load, shown)
  PROVE  HasLoad(image', file', dec', load', shown')
<1> HIDE DEF Pow2, MaxCode, Codes, None
<1>1. PICK w, v, T, k, m : /\ T \in Nat /\ k \in Nat /\ m \in Nat
                           /\ LoadTrace(image, file, w, v, T, k, m, dec, load, shown)
  BY Zenon DEF HasLoad
<1>2. /\ Ended(image, w, v, T) /\ Filled(v, T, file) /\ Reader(file, dec, load)
      /\ Shows(image, w, k, m, dec, load, shown) /\ DecoderRange(dec)
      /\ dec.done = FALSE => Knows(image, w, v, Past(dec, load), k, dec)
  BY <1>1, Zenon DEF LoadTrace
<1>3. /\ load.at = "codes" /\ dec.partialSize >= dec.codeSize /\ LowCode(dec) = ClearCode(image)
      /\ dec' = ClearedDecompressor(image, DropBits(dec, dec.codeSize)) /\ load' = load
      /\ image' = image /\ file' = file /\ shown' = shown
  BY DEF TakeClearCode, HasCode, saveVars, fileVars
<1>4. dec.done = FALSE
  BY <1>2, <1>3, Zenon DEF Reader
<1>5. PICK A \in Nat : A = Past(dec, load)
  BY <1>2, PastNumber
<1>6. Knows(image, w, v, A, k, dec)
  BY <1>2, <1>4, <1>5, Zenon
<1>7. PICK K \in Nat :
        /\ K = k + 1 /\ K <= w.n /\ w.at[K] = w.at[k]
        /\ Knows(image, w, v, A, K, dec') /\ DecoderRange(dec')
        /\ SameBuffer(dec, dec') /\ dec'.done = dec.done
  BY <1>1, <1>2, <1>3, <1>5, <1>6, ClearCounts
<1>8. /\ dec'.buffer = dec.buffer /\ dec'.bufferSize = dec.bufferSize /\ dec'.bufferPos = dec.bufferPos
      /\ dec'.done = FALSE
  BY <1>4, <1>7, Zenon DEF SameBuffer
<1>9. Reader(file, dec', load)
  BY <1>2, <1>4, <1>8, Zenon DEF Reader
<1>10. Shows(image, w, K, m, dec', load, shown)
  <2>1. m + Len(load.buf) = w.at[k]
    BY <1>2, <1>4 DEF Shows
  <2>2. m + Len(load.buf) = w.at[K] /\ dec'.done # TRUE
    BY <1>7, <1>8, <2>1
  <2> QED
    BY <1>2, <1>4, <1>8, <2>2, Zenon DEF Shows
<1>11. Past(dec', load) = A
  BY <1>5, <1>8, Zenon DEF Past
<1>12. LoadTrace(image, file, w, v, T, K, m, dec', load, shown)
  BY <1>2, <1>7, <1>9, <1>10, <1>11, Zenon DEF LoadTrace
<1> QED
  BY <1>1, <1>3, <1>7, <1>12, Zenon DEF HasLoad

-----------------------------------------------------------------------------
(* Ordinary codes.                                                         *)

(* The string of the next code, the table with the string that is added    *)
(* first, and whether there was one to add.                                *)
Decoded(i, w, k, K, F, L, old, new) ==
  /\ CodeFacts(i, w, k, F, L)
  /\ Decodes(i, w, k, K, L, new, old)
  /\ old = None <=> F = k
  /\ Upto(i, w, k) < MaxCode
  /\ \A c \in Codes : Len(new[c]) <= OutLen

(* A decoder that learns has a code before, and room for its string.       *)
LEMMA OldIsCode ==
  ASSUME NEW i \in Images, NEW w, CodesOk(i, w), NEW k \in Nat, k < w.n,
         NEW F \in Nat, NEW L \in Nat, CodeFacts(i, w, k, F, L), F < k,
         NEW str, NEW old, Strings(i, w, k, str, old)
  PROVE  /\ old # None
         /\ \E j \in Nat : k = j + 1 /\ \E l \in Nat : w.at[k] - w.at[j] = l /\ EndCode(i) + 1 + l < MaxCode
<1> HIDE DEF Pow2, MaxCode, Codes
<1>1. PICK j, l, a \in Nat : Precedes(i, w, k, F, j, l, a)
  BY CodeBefore
<1>2. PICK e, m, c \in Nat : e = EndCode(i) /\ m = MaxCode /\ c = w.code[j]
  <2>1. EndCode(i) \in Nat /\ MaxCode \in Nat
    BY ImageFacts
  <2>2. w.code[j] \in Nat
    BY <1>1, Zenon DEF Precedes
  <2> QED
    BY <2>1, <2>2, Zenon
<1>3. k = j + 1 /\ F <= j /\ c <= e + (j - F) /\ l <= (j - F) + 1
  BY <1>1, <1>2, Zenon DEF Precedes
<1>4. e + 1 + (k - F) < m /\ w.from[k] = F
  BY <1>2, Zenon DEF CodeFacts
<1>5. old = w.code[k - 1]
  <2>1. w.from[k] # k
    BY <1>3, <1>4
  <2> QED
    BY <2>1, Zenon DEF Strings
<1>6. k - 1 = j
  BY <1>1, <1>3
<1>7. c # m
  BY <1>1, <1>2, <1>3, <1>4
<1>8. e + 1 + l < m
  BY <1>1, <1>2, <1>3, <1>4
<1>9. w.at[k] - w.at[j] = l
  <2>1. w.at[j] = a /\ w.at[k] = a + l
    BY <1>1, Zenon DEF Precedes
  <2>2. (a + l) - a = l
    BY <1>1
  <2> QED
    BY <2>1, <2>2, Zenon
<1>10. old # None
  BY <1>2, <1>5, <1>6, <1>7, Zenon DEF None
<1> QED
  BY <1>1, <1>2, <1>3, <1>8, <1>9, <1>10, Zenon

(* The string of an ordinary code is the text of the pixels the code       *)
(* stands for, and the table stays that of the codes taken.                *)
LEMMA DecodedString ==
  ASSUME NEW i \in Images, NEW w, CodesOk(i, w), NEW k \in Nat, k < w.n, w.code[k] # ClearCode(i),
         NEW K \in Nat, K = k + 1, NEW str, NEW old, Strings(i, w, k, str, old),
         \A c \in Codes : Len(str[c]) <= OutLen,
         NEW new, new = Added(str, old, Upto(i, w, k), w.code[k])
  PROVE  \E F, L \in Nat : Decoded(i, w, k, K, F, L, old, new)
<1> HIDE DEF Pow2, MaxCode, Codes, None
<1>1. PICK F, L \in Nat : /\ CodeFacts(i, w, k, F, L)
                          /\ Literal(i, w, k, L) \/ \E q \in Nat : Repeats(i, w, k, F, L, q)
  BY CodeNumbers
<1>2. PICK e, m, u, U \in Nat : /\ e = EndCode(i) /\ m = MaxCode /\ u = Upto(i, w, k) /\ U = Upto(i, w, K)
                                /\ U < m
                                /\ F = k => U = u
                                /\ F # k => U = u + 1 /\ u = e + (k - F)
  <2>1. EndCode(i) \in Nat /\ MaxCode \in Nat /\ w.n \in Nat
    <3>1. EndCode(i) \in Nat /\ MaxCode \in Nat
      BY ImageFacts
    <3>2. w.n \in Nat
      BY Zenon DEF CodesOk, TraceType
    <3> QED
      BY <3>1, <3>2
  <2>2. k <= w.n /\ K <= w.n
    BY <2>1
  <2>3. Upto(i, w, k) \in Nat /\ Upto(i, w, K) \in Nat
    BY <2>2, UptoBounds
  <2>4. /\ Upto(i, w, K) < MaxCode
        /\ F = k => Upto(i, w, K) = Upto(i, w, k)
        /\ F # k => Upto(i, w, K) = Upto(i, w, k) + 1 /\ Upto(i, w, k) = EndCode(i) + (k - F)
    BY <1>1, UptoMoves
  <2> QED
    BY <2>1, <2>3, <2>4, Zenon
<1>3. u < m
  BY <1>2
<1>4. F <= k /\ w.from[k] = F
  BY <1>1, Zenon DEF CodeFacts
<1>5. CASE F = k
  <2>1. old = None
    BY <1>4, <1>5, Zenon DEF Strings
  <2>2. new = str
    BY <2>1, Zenon DEF Added
  <2>3. Decodes(i, w, k, K, L, new, old)
    <3>1. CodeFacts(i, w, k, k, L) /\ (Literal(i, w, k, L) \/ \E q \in Nat : Repeats(i, w, k, k, L, q))
      BY <1>1, <1>5, Zenon
    <3> QED
      BY <1>1, <3>1, FirstDecodes
  <2> QED
    BY <1>1, <1>2, <1>3, <1>5, <2>1, <2>2, <2>3, Zenon DEF Decoded
<1>6. CASE F # k
  <2>1. F < k
    BY <1>1, <1>4, <1>6
  <2>2. new = Added(str, old, EndCode(i) + (k - F), w.code[k])
    BY <1>2, <1>6, Zenon
  <2>3. /\ old # None
        /\ \E j \in Nat : k = j + 1 /\ \E l \in Nat : w.at[k] - w.at[j] = l /\ EndCode(i) + 1 + l < MaxCode
    BY <1>1, <2>1, OldIsCode
  <2>4. PICK j, l \in Nat : k = j + 1 /\ w.at[k] - w.at[j] = l /\ EndCode(i) + 1 + l < MaxCode
    BY <2>3, Zenon
  <2>5. Decodes(i, w, k, K, L, new, old)
    BY <1>1, <2>1, <2>2, LaterDecodes
  <2>6. Adds(i, w, k, F, str, new, j, EndCode(i) + (k - F))
    BY <1>1, <2>1, <2>2, <2>4, StringAdded
  <2>7. ASSUME NEW c \in Codes PROVE Len(new[c]) <= OutLen
    <3>1. CASE c = EndCode(i) + (k - F)
      <4>1. new[c] = Text(i, w.at[j], l + 1)
        BY <2>4, <2>6, <3>1, Zenon DEF Adds
      <4>2. w.at[j] \in Nat
        BY <2>4 DEF CodesOk, TraceType
      <4>3. Len(new[c]) = l + 1
        <5>1. l + 1 \in Nat
          BY <2>4
        <5>2. IsText(i, w.at[j], l + 1, Text(i, w.at[j], l + 1))
          BY <4>2, <5>1, TextFacts
        <5> QED
          BY <4>1, <5>2, Zenon DEF IsText
      <4>4. e + 1 + l < m
        BY <1>2, <2>4, Zenon
      <4>5. OutLen \in Nat /\ OutLen >= m
        BY <1>2, OutAssumption DEF MaxCode
      <4>6. l + 1 <= OutLen
        BY <1>2, <2>4, <4>4, <4>5
      <4> QED
        BY <4>3, <4>6, Zenon
    <3>2. CASE c # EndCode(i) + (k - F)
      BY <2>6, <3>2, Zenon DEF Adds
    <3> QED
      BY <3>1, <3>2
  <2> QED
    BY <1>1, <1>2, <1>3, <1>6, <2>3, <2>5, <2>7, Zenon DEF Decoded
<1> QED
  BY <1>5, <1>6

(* An ordinary code is taken from t, of which A bytes are in: d is the     *)
(* object without the bits of the code, a that with the string added.      *)
Took(i, w, v, A, k, K, F, L, t, code, d, a) ==
  /\ k \in Nat /\ K \in Nat /\ F \in Nat /\ L \in Nat
  /\ K = k + 1 /\ k < w.n /\ K <= w.n /\ w.code[k] = code
  /\ t.done = FALSE /\ Knows(i, w, v, A, k, t)
  /\ MoreBits(v, w.off[K], A, d.partial, d.partialSize)
  /\ Decoded(i, w, k, K, F, L, t.oldCode, a.strings)
  /\ DecoderShape(d) /\ DecoderShape(a) /\ SameBuffer(t, a)
  /\ d.partial = t.partial \div Pow2[t.codeSize] /\ d.partialSize = t.partialSize - t.codeSize
  /\ a.partial = d.partial /\ a.partialSize = d.partialSize /\ a.done = FALSE
  /\ a.nextCode = t.nextCode /\ a.codeSize = t.codeSize /\ a.oldCode = t.oldCode

(* What holds when an ordinary code is taken from the bits.                *)
LEMMA CodeTakes ==
  ASSUME NEW i \in Images, NEW w, NEW v, NEW T \in Nat, Ended(i, w, v, T),
         NEW k \in Nat, NEW A \in Nat, NEW t, Knows(i, w, v, A, k, t), DecoderRange(t),
         t.done = FALSE, t.partialSize >= t.codeSize, LowCode(t) # EndCode(i), LowCode(t) # ClearCode(i),
         NEW d, d = DropBits(t, t.codeSize), NEW a, a = AddString(d, LowCode(t))
  PROVE  \E K, F, L : Took(i, w, v, A, k, K, F, L, t, LowCode(t), d, a)
<1> HIDE DEF Pow2, MaxCode, Codes, None
<1>1. DecoderShape(t)
  BY Zenon DEF DecoderRange
<1>2. /\ DecoderShape(d) /\ SameBuffer(t, d) /\ d.done = t.done
      /\ d.partial = t.partial \div Pow2[t.codeSize] /\ d.partialSize = t.partialSize - t.codeSize
      /\ d.strings = t.strings /\ d.nextCode = t.nextCode /\ d.codeSize = t.codeSize
      /\ d.oldCode = t.oldCode
  BY <1>1, DropFields
<1>3. /\ DecoderShape(a) /\ SameBuffer(d, a) /\ a.done = d.done
      /\ a.partial = d.partial /\ a.partialSize = d.partialSize
      /\ a.strings = Added(d.strings, d.oldCode, d.nextCode, LowCode(t))
      /\ a.nextCode = d.nextCode /\ a.codeSize = d.codeSize /\ a.oldCode = d.oldCode
  BY <1>2, AddFields
<1>4. Taking(i, w, v, A, k, t, d)
  BY CodeTaken
<1>5. k < w.n /\ w.code[k] = LowCode(t) /\ MoreBits(v, w.off[k + 1], A, d.partial, d.partialSize)
  BY <1>4, CodeKnown
<1>6. PICK K \in Nat : K = k + 1 /\ K <= w.n
  <2>1. w.n \in Nat
    BY Zenon DEF Ended, CodesOk, TraceType
  <2>2. k + 1 \in Nat /\ k + 1 <= w.n
    BY <1>5, <2>1
  <2> QED
    BY <2>2, Zenon
<1>7. PICK F, L \in Nat : Decoded(i, w, k, K, F, L, t.oldCode, a.strings)
  <2>1. CodesOk(i, w) /\ Strings(i, w, k, t.strings, t.oldCode)
        /\ t.nextCode = Upto(i, w, k)
    BY Zenon DEF Ended, Knows
  <2>2. a.strings = Added(t.strings, t.oldCode, Upto(i, w, k), w.code[k])
    BY <1>2, <1>3, <1>5, <2>1, Zenon
  <2>3. \A c \in Codes : Len(t.strings[c]) <= OutLen
    BY Zenon DEF DecoderRange
  <2>4. w.code[k] # ClearCode(i)
    BY <1>5, Zenon
  <2> QED
    BY <1>5, <1>6, <2>1, <2>2, <2>3, <2>4, DecodedString
<1>8. SameBuffer(t, a)
  BY <1>2, <1>3, Zenon DEF SameBuffer
<1>9. Took(i, w, v, A, k, K, F, L, t, LowCode(t), d, a)
  BY <1>2, <1>3, <1>5, <1>6, <1>7, <1>8, Zenon DEF Took
<1> QED
  BY <1>9, Zenon

(* What TakeCode knows when it has the code.                               *)
Step(i, f, w, v, T, k, K, F, L, m, t, l, sh, code, d, a) ==
  /\ T \in Nat /\ m \in Nat
  /\ LoadTrace(i, f, w, v, T, k, m, t, l, sh)
  /\ Took(i, w, v, Past(t, l), k, K, F, L, t, code, d, a)

(* It knows that.                                                          *)
LEMMA CodeStep ==
  ASSUME image \in Images, HasCode, ~IsEnd(dec), LowCode(dec) # ClearCode(image),
         HasLoad(image, file, dec, load, shown),
         NEW d, d = DropBits(dec, dec.codeSize), NEW a, a = AddString(d, LowCode(dec))
  PROVE  \E w, v, T, k, K, F, L, m :
           Step(image, file, w, v, T, k, K, F, L, m, dec, load, shown, LowCode(dec), d, a)
<1> HIDE DEF Pow2, MaxCode, Codes, None
<1>1. PICK w, v, T, k, m : /\ T \in Nat /\ k \in Nat /\ m \in Nat
                           /\ LoadTrace(image, file, w, v, T, k, m, dec, load, shown)
  BY Zenon DEF HasLoad
<1>2. /\ Ended(image, w, v, T) /\ Filled(v, T, file) /\ Reader(file, dec, load)
      /\ DecoderRange(dec)
      /\ dec.done = FALSE => Knows(image, w, v, Past(dec, load), k, dec)
  BY <1>1, Zenon DEF LoadTrace
<1>3. load.at = "codes" /\ dec.partialSize >= dec.codeSize /\ LowCode(dec) # EndCode(image)
  BY Zenon DEF HasCode, IsEnd
<1>4. dec.done = FALSE
  BY <1>2, <1>3, Zenon DEF Reader
<1>5. PICK A \in Nat : A = Past(dec, load)
  BY <1>2, PastNumber
<1>6. Knows(image, w, v, A, k, dec)
  BY <1>2, <1>4, <1>5, Zenon
<1>7. PICK K, F, L : Took(image, w, v, A, k, K, F, L, dec, LowCode(dec), d, a)
  BY <1>1, <1>2, <1>3, <1>4, <1>5, <1>6, CodeTakes
<1>8. Step(image, file, w, v, T, k, K, F, L, m, dec, load, shown, LowCode(dec), d, a)
  BY <1>1, <1>5, <1>7, Zenon DEF Step
<1> QED
  BY <1>8, Zenon

(* What holds after a code that counts: its string is the pixels it stands *)
(* for, and the decoder is what it is after one code more.                 *)
AfterOne(i, w, v, A, k, K, L, t, code, a, u) ==
  /\ a.strings[code] = Text(i, w.at[k], L) /\ w.at[k] \in Nat /\ w.at[K] = w.at[k] + L
  /\ Knows(i, w, v, A, K, u) /\ DecoderRange(u)
  /\ u.partialSize = t.partialSize - t.codeSize
  /\ DecoderShape(u) /\ SameBuffer(t, u) /\ u.done = FALSE

(* What holds of the pixels when a code has counted, where m + M of them   *)
(* were decoded before and M of those wait: M + L wait.                    *)
TextNow(i, w, k, K, L, code, a, m, M) ==
  /\ K \in Nat /\ K = k + 1 /\ L \in Nat /\ w.at[k] \in Nat
  /\ a.strings[code] = Text(i, w.at[k], L)
  /\ M + L \in Nat /\ m + (M + L) = w.at[K]
  /\ Text(i, m, M) \o a.strings[code] = Text(i, m, M + L)

(* The code counts: its string is the pixels it stands for, and the        *)
(* decoder is what it is after one code more.                              *)
LEMMA CodeCounts ==
  ASSUME NEW i \in Images, NEW w, NEW v, NEW T \in Nat, Ended(i, w, v, T), NEW A,
         NEW k, NEW K, NEW F, NEW L, NEW t, DecoderRange(t), NEW code, NEW d, NEW a,
         Took(i, w, v, A, k, K, F, L, t, code, d, a),
         NEW u, Counted(a, code, u)
  PROVE  AfterOne(i, w, v, A, k, K, L, t, code, a, u)
<1> HIDE DEF Pow2, MaxCode, Codes, None
<1>1. /\ k \in Nat /\ K \in Nat /\ F \in Nat /\ L \in Nat
      /\ K = k + 1 /\ k < w.n /\ K <= w.n /\ w.code[k] = code
      /\ Knows(i, w, v, A, k, t)
      /\ MoreBits(v, w.off[K], A, d.partial, d.partialSize)
      /\ Decoded(i, w, k, K, F, L, t.oldCode, a.strings)
  BY Zenon DEF Took
<1>2. /\ DecoderShape(a) /\ SameBuffer(t, a) /\ a.partial = d.partial /\ a.partialSize = d.partialSize
      /\ d.partialSize = t.partialSize - t.codeSize
      /\ a.done = FALSE /\ a.nextCode = t.nextCode /\ a.codeSize = t.codeSize /\ a.oldCode = t.oldCode
  BY Zenon DEF Took
<1>3. /\ CodeFacts(i, w, k, F, L) /\ Decodes(i, w, k, K, L, a.strings, t.oldCode)
      /\ (t.oldCode = None <=> F = k) /\ Upto(i, w, k) < MaxCode
      /\ \A c \in Codes : Len(a.strings[c]) <= OutLen
  BY <1>1, Zenon DEF Decoded
<1>4. a.strings[code] = Text(i, w.at[k], L) /\ Strings(i, w, K, a.strings, code)
  BY <1>1, <1>3, Zenon DEF Decodes
<1>5. w.at[k] \in Nat /\ w.at[K] = w.at[k] + L
  BY <1>1, <1>3, Zenon DEF CodeFacts
<1>6. /\ DecoderShape(u) /\ SameBuffer(a, u) /\ u.done = FALSE
      /\ u.partial = a.partial /\ u.partialSize = a.partialSize /\ u.strings = a.strings
      /\ u.nextCode = (IF Grows(a) THEN a.nextCode + 1 ELSE a.nextCode)
      /\ u.codeSize = (IF Grows(a) /\ a.nextCode + 1 < MaxCode /\ (a.nextCode + 1) % Pow2[a.codeSize] = 0
                       THEN a.codeSize + 1 ELSE a.codeSize)
      /\ u.oldCode = code
  BY <1>2, Zenon DEF Counted
<1>7. Grows(a) <=> F # k
  BY <1>1, <1>2, <1>3, Zenon DEF Grows, Knows
<1>8. PICK x, U, V \in Nat : /\ x = MaxCode /\ U = Upto(i, w, k) /\ V = Upto(i, w, K) /\ V < x
                              /\ (F = k => V = U) /\ (F # k => V = U + 1)
                              /\ a.nextCode = U /\ SizeFor(i, U, a.codeSize) /\ code <= U
  <2>1. MaxCode \in Nat
    BY ImageFacts
  <2>2. CodesOk(i, w) /\ w.n \in Nat
    BY Zenon DEF Ended, CodesOk, TraceType
  <2>3. k <= w.n
    BY <1>1, <2>2
  <2>4. Upto(i, w, k) \in Nat /\ Upto(i, w, K) \in Nat
    BY <1>1, <2>2, <2>3, UptoBounds
  <2>5. /\ Upto(i, w, K) < MaxCode
        /\ F = k => Upto(i, w, K) = Upto(i, w, k)
        /\ F # k => Upto(i, w, K) = Upto(i, w, k) + 1 /\ Upto(i, w, k) = EndCode(i) + (k - F)
        /\ w.code[k] <= Upto(i, w, k)
    BY <1>1, <1>3, UptoMoves
  <2>6. a.nextCode = Upto(i, w, k) /\ SizeFor(i, Upto(i, w, k), a.codeSize)
    BY <1>1, <1>2, Zenon DEF Knows
  <2> QED
    BY <1>1, <2>1, <2>4, <2>5, <2>6, Zenon
<1>9. u.nextCode = V
  BY <1>6, <1>7, <1>8, Zenon
<1>10. SizeFor(i, V, u.codeSize)
  <2>1. CASE F = k
    BY <1>6, <1>7, <1>8, <2>1, Zenon
  <2>2. CASE F # k
    <3>1. SizeFor(i, V, IF V % Pow2[a.codeSize] = 0 THEN a.codeSize + 1 ELSE a.codeSize)
      BY <1>8, <2>2, SizeGrows
    <3>2. a.nextCode + 1 = V /\ V < MaxCode
      BY <1>8, <2>2, Zenon
    <3>3. u.codeSize = IF V % Pow2[a.codeSize] = 0 THEN a.codeSize + 1 ELSE a.codeSize
      BY <1>6, <1>7, <2>2, <3>2, Zenon
    <3> QED
      BY <3>1, <3>3, Zenon
  <2> QED
    BY <2>1, <2>2, Zenon
<1>11. Knows(i, w, v, A, K, u)
  BY <1>1, <1>2, <1>4, <1>6, <1>8, <1>9, <1>10, Zenon DEF Knows, MoreBits
<1>12. DecoderRange(u)
  <2>1. u.nextCode \in 0..MaxCode
    <3>1. V \in 0..x
      BY <1>8
    <3> QED
      BY <1>8, <1>9, <3>1, Zenon
  <2>2. u.codeSize \in 1..CodeBits
    <3>1. u.codeSize \in MinCodeSize(i) + 1 .. CodeBits /\ MinCodeSize(i) \in Nat /\ CodeBits \in Nat
      BY <1>10, ImageFacts DEF SizeFor
    <3> QED
      BY <3>1
  <2>3. u.oldCode \in 0..MaxCode
    <3>1. code \in Nat /\ code <= x
      <4>1. code \in Nat
        BY <1>1, <1>3, Zenon DEF CodeFacts
      <4>2. U <= x
        BY <1>8
      <4> QED
        BY <1>8, <4>1, <4>2
    <3>2. code \in 0..x
      BY <1>8, <3>1
    <3> QED
      BY <1>6, <1>8, <3>2, Zenon
  <2>4. u.done \in BOOLEAN
    BY <1>6
  <2> QED
    BY <1>1, <1>2, <1>3, <1>6, <2>1, <2>2, <2>3, <2>4, Zenon DEF DecoderRange, MoreBits
<1>13. SameBuffer(t, u)
  BY <1>2, <1>6, Zenon DEF SameBuffer
<1> QED
  BY <1>2, <1>4, <1>5, <1>6, <1>11, <1>12, <1>13, Zenon DEF AfterOne

(* A code that is taken adds its pixels to those before.                   *)
LEMMA TakenText ==
  ASSUME NEW i \in Images, NEW w, NEW v, NEW T \in Nat, Ended(i, w, v, T), NEW A,
         NEW k, NEW K, NEW F, NEW L, NEW t, DecoderRange(t), NEW code, NEW d, NEW a,
         Took(i, w, v, A, k, K, F, L, t, code, d, a),
         NEW u, Counted(a, code, u),
         NEW m \in Nat, NEW M \in Nat, m + M = w.at[k]
  PROVE  /\ TextNow(i, w, k, K, L, code, a, m, M)
         /\ AfterOne(i, w, v, A, k, K, L, t, code, a, u)
<1> HIDE DEF Pow2, MaxCode, Codes, None
<1>1. AfterOne(i, w, v, A, k, K, L, t, code, a, u)
  BY CodeCounts
<1>2. a.strings[code] = Text(i, w.at[k], L) /\ w.at[k] \in Nat /\ w.at[K] = w.at[k] + L
  BY <1>1, Zenon DEF AfterOne
<1>3. K \in Nat /\ K = k + 1 /\ L \in Nat
  BY Zenon DEF Took
<1>4. Text(i, m, M) \o Text(i, m + M, L) = Text(i, m, M + L)
  <2>1. TextsJoin(i, m, M, L)
    BY <1>3, TextJoins
  <2> QED
    BY <2>1, Zenon DEF TextsJoin
<1>5. M + L \in Nat /\ m + (M + L) = (m + M) + L
  BY <1>3
<1>6. Text(i, m, M) \o a.strings[code] = Text(i, m, M + L) /\ m + (M + L) = w.at[K]
  BY <1>2, <1>4, <1>5, Zenon
<1> QED
  BY <1>1, <1>2, <1>3, <1>5, <1>6, Zenon DEF TextNow

(* A string is put behind what waits in Load's buffer.                     *)
PutOut(l, s, r) ==
  /\ LoaderShape(r) /\ r.at = l.at /\ r.next = l.next /\ r.buf = l.buf \o s
  /\ r.x = l.x /\ r.y = l.y /\ r.pass = l.pass

(* The string fits: it is put out.                                         *)
LEMMA StringOut ==
  ASSUME NEW i \in Images, NEW f, NEW w, NEW v, NEW T, NEW k, NEW K, NEW F, NEW L, NEW m, NEW t, NEW l,
         NEW sh, NEW code, NEW d, NEW a, Step(i, f, w, v, T, k, K, F, L, m, t, l, sh, code, d, a),
         l.at = "codes", Len(a.strings[code]) <= OutLen - Len(l.buf),
         NEW u, Counted(a, code, u), NEW r, PutOut(l, a.strings[code], r)
  PROVE  HasLoad(i, f, u, r, sh)
<1> HIDE DEF Pow2, MaxCode, Codes, None
<1>1. /\ T \in Nat /\ m \in Nat /\ LoadTrace(i, f, w, v, T, k, m, t, l, sh)
      /\ Took(i, w, v, Past(t, l), k, K, F, L, t, code, d, a)
  BY Zenon DEF Step
<1>2. k \in Nat /\ K \in Nat /\ L \in Nat /\ t.done = FALSE
  BY <1>1, Zenon DEF Took
<1>3. /\ Ended(i, w, v, T) /\ Filled(v, T, f) /\ Reader(f, t, l)
      /\ Shows(i, w, k, m, t, l, sh) /\ DecoderRange(t)
  BY <1>1, Zenon DEF LoadTrace
<1>4. PICK N \in Nat : N = Len(l.buf) /\ m + N = w.at[k] /\ l.buf = Text(i, m, N)
  <2>1. Len(l.buf) \in Nat /\ l.buf = Text(i, m, Len(l.buf)) /\ m + Len(l.buf) = w.at[k]
    BY <1>2, <1>3 DEF Shows
  <2> QED
    BY <2>1, Zenon
<1>5. /\ w.at[k] \in Nat /\ a.strings[code] = Text(i, w.at[k], L)
      /\ N + L \in Nat /\ m + (N + L) = w.at[K]
      /\ Text(i, m, N) \o a.strings[code] = Text(i, m, N + L)
      /\ Knows(i, w, v, Past(t, l), K, u) /\ DecoderRange(u)
      /\ SameBuffer(t, u) /\ u.done = FALSE
  <2>1. /\ TextNow(i, w, k, K, L, code, a, m, N)
        /\ AfterOne(i, w, v, Past(t, l), k, K, L, t, code, a, u)
    BY <1>1, <1>3, <1>4, TakenText
  <2> QED
    BY <2>1, Zenon DEF TextNow, AfterOne
<1>6. /\ LoaderShape(r) /\ r.at = l.at /\ r.next = l.next /\ r.buf = l.buf \o a.strings[code]
      /\ r.x = l.x /\ r.y = l.y /\ r.pass = l.pass
  BY Zenon DEF PutOut
<1>7. PICK at \in Nat : at = w.at[k]
  BY <1>5, Zenon
<1>8. r.buf = Text(i, m, N + L)
  BY <1>4, <1>5, <1>6, Zenon
<1>9. Len(r.buf) = N + L /\ N + L \in Nat /\ Len(a.strings[code]) = L
  <2>1. N + L \in Nat
    BY <1>5
  <2>2. IsText(i, m, N + L, Text(i, m, N + L)) /\ IsText(i, at, L, Text(i, at, L))
    BY <1>1, <1>2, <1>4, <1>7, <2>1, TextFacts
  <2> QED
    BY <1>5, <1>7, <1>8, <2>1, <2>2, Zenon DEF IsText
<1>10. Shows(i, w, K, m, u, r, sh)
  <2>1. N + L <= OutLen
    <3>1. L <= OutLen - N
      BY <1>4, <1>9, Zenon
    <3>2. OutLen \in Nat
      BY OutAssumption
    <3> QED
      BY <1>2, <1>4, <3>1, <3>2
  <2>2. m + (N + L) = w.at[K]
    BY <1>5
  <2>3. u.done # TRUE
    BY <1>5
  <2> QED
    BY <1>2, <1>3, <1>5, <1>6, <1>8, <1>9, <2>1, <2>2, <2>3, Zenon DEF Shows
<1>11. Reader(f, u, r)
  <2>1. u.buffer = t.buffer /\ u.bufferSize = t.bufferSize /\ u.bufferPos = t.bufferPos
    BY <1>5, Zenon DEF SameBuffer
  <2>2. /\ r.next \in 1..Len(f) /\ r.at = "codes"
        /\ u.buffer = IF r.next = 1 THEN << >> ELSE f[r.next - 1].bytes
        /\ u.bufferPos \in 0..Len(u.buffer) /\ u.bufferSize = Len(u.buffer)
    BY <1>3, <1>6, <2>1, Zenon DEF Reader
  <2> HIDE <1>1, <1>2, <1>3, <1>4, <1>6, <1>8
  <2> QED
    BY <1>5, <2>2 DEF Reader
<1>12. Past(u, r) = Past(t, l)
  <2>1. u.bufferPos = t.bufferPos /\ r.next = l.next
    BY <1>5, <1>6, Zenon DEF SameBuffer
  <2> QED
    BY <2>1 DEF Past
<1>13. LoadTrace(i, f, w, v, T, K, m, u, r, sh)
  BY <1>3, <1>5, <1>10, <1>11, <1>12, Zenon DEF LoadTrace
<1> QED
  BY <1>1, <1>2, <1>13, Zenon DEF HasLoad

(* It does not fit: the bits of the code are put back below the others,    *)
(* and the string that was added stays.                                    *)
LEMMA PutBack ==
  ASSUME NEW x \in Nat, NEW s \in Nat
  PROVE  (x \div Pow2[s]) * Pow2[s] + (x % Pow2[s]) = x
<1> HIDE DEF Pow2
<1>1. PICK p \in Nat : p = Pow2[s] /\ p \in Nat \ {0}
  BY PowerEquations
<1>2. PICK q, r \in Nat : q = x \div p /\ r = x % p /\ r < p /\ x = q * p + r
  BY <1>1, Divided
<1>3. q * p + r = x
  BY <1>2, Zenon
<1>4. x \div Pow2[s] = q /\ x % Pow2[s] = r /\ Pow2[s] = p
  BY <1>1, <1>2, Zenon
<1> QED
  BY <1>3, <1>4

(* A code stuffed back because its string finds no room is the next code   *)
(* still.                                                                  *)
LEMMA StringKept ==
  ASSUME NEW i \in Images, NEW f, NEW w, NEW v, NEW T, NEW k, NEW K, NEW F, NEW L, NEW m, NEW t, NEW l,
         NEW sh, NEW code, NEW d, NEW a, Step(i, f, w, v, T, k, K, F, L, m, t, l, sh, code, d, a),
         l.at = "codes", code = LowCode(t), NEW u, u = StuffBack(a, code, d),
         NEW r, r = [l EXCEPT !.at = "show"]
  PROVE  HasLoad(i, f, u, r, sh)
<1> HIDE DEF Pow2, MaxCode, Codes, None
<1>1. /\ T \in Nat /\ k \in Nat /\ m \in Nat /\ t.done = FALSE
      /\ Knows(i, w, v, Past(t, l), k, t)
      /\ Decoded(i, w, k, K, F, L, t.oldCode, a.strings)
  BY Zenon DEF Step, Took
<1>2. /\ DecoderShape(a) /\ SameBuffer(t, a) /\ a.done = FALSE /\ a.nextCode = t.nextCode
      /\ a.codeSize = t.codeSize /\ a.oldCode = t.oldCode
      /\ d.partial = t.partial \div Pow2[t.codeSize] /\ d.partialSize = t.partialSize - t.codeSize
  BY Zenon DEF Step, Took
<1>3. /\ Ended(i, w, v, T) /\ Filled(v, T, f) /\ Reader(f, t, l)
      /\ Shows(i, w, k, m, t, l, sh) /\ DecoderRange(t)
  BY Zenon DEF Step, LoadTrace
<1>4. Strings(i, w, k, a.strings, t.oldCode) /\ \A c \in Codes : Len(a.strings[c]) <= OutLen
  BY <1>1, Zenon DEF Decoded, Decodes
<1>5. /\ DecoderShape(u) /\ SameBuffer(a, u) /\ u.done = a.done /\ u.strings = a.strings
      /\ u.partial = d.partial * Pow2[a.codeSize] + code
      /\ u.partialSize = d.partialSize + a.codeSize
      /\ u.nextCode = a.nextCode /\ u.codeSize = a.codeSize /\ u.oldCode = a.oldCode
  BY <1>2, StuffFields
<1>6. u.partial = t.partial /\ u.partialSize = t.partialSize
  <2>1. PICK x, z, s \in Nat : x = t.partial /\ z = t.partialSize /\ s = t.codeSize
    <3>1. t.partial \in Nat /\ t.partialSize \in Nat /\ t.codeSize \in 1..CodeBits /\ CodeBits \in Nat
      BY <1>3, ByteWidth DEF DecoderRange
    <3>2. t.codeSize \in Nat
      BY <3>1
    <3> QED
      BY <3>1, <3>2, Zenon
  <2>2. (x \div Pow2[s]) * Pow2[s] + (x % Pow2[s]) = x
    BY <2>1, PutBack
  <2>3. (z - s) + s = z
    BY <2>1
  <2>4. u.partial = (x \div Pow2[s]) * Pow2[s] + (x % Pow2[s])
    <3>1. d.partial = x \div Pow2[s] /\ Pow2[a.codeSize] = Pow2[s]
      BY <1>2, <2>1, Zenon
    <3>2. code = x % Pow2[s]
      BY <2>1, Zenon DEF LowCode
    <3>3. u.partial = d.partial * Pow2[a.codeSize] + code
      BY <1>5, Zenon
    <3> QED
      BY <3>1, <3>2, <3>3
  <2>5. u.partialSize = (z - s) + s
    BY <1>2, <1>5, <2>1, Zenon
  <2> QED
    BY <2>1, <2>2, <2>3, <2>4, <2>5, Zenon
<1>7. LoaderShape(l)
  BY <1>3, Zenon DEF Shows
<1>8. /\ LoaderShape(r) /\ r.at = "show" /\ r.next = l.next /\ r.buf = l.buf
      /\ r.x = l.x /\ r.y = l.y /\ r.pass = l.pass
  BY <1>7 DEF LoaderShape
<1>9. u.buffer = t.buffer /\ u.bufferSize = t.bufferSize /\ u.bufferPos = t.bufferPos /\ u.done = FALSE
  BY <1>2, <1>5, Zenon DEF SameBuffer
<1>10. Reader(f, u, r)
  <2>1. /\ r.next \in 1..Len(f)
        /\ u.buffer = IF r.next = 1 THEN << >> ELSE f[r.next - 1].bytes
        /\ u.bufferPos \in 0..Len(u.buffer) /\ u.bufferSize = Len(u.buffer)
        /\ t.bufferSize = Len(t.buffer) /\ t.bufferPos \in 0..Len(t.buffer)
    BY <1>3, <1>8, <1>9, Zenon DEF Reader
  <2>2. u.bufferSize = 0 => u.bufferPos = Len(u.buffer)
    BY <2>1
  <2> HIDE <1>1, <1>2, <1>3, <1>4, <1>5
  <2> QED
    BY <1>8, <2>1, <2>2 DEF Reader
<1>11. Shows(i, w, k, m, u, r, sh)
  BY <1>1, <1>3, <1>8, <1>9, Zenon DEF Shows
<1>12. DecoderRange(u)
  <2>1. u.done \in BOOLEAN
    BY <1>9
  <2>2. u.nextCode = t.nextCode /\ u.codeSize = t.codeSize /\ u.oldCode = t.oldCode /\ u.strings = a.strings
    BY <1>2, <1>5, Zenon
  <2>3. /\ t.nextCode \in 0..MaxCode /\ t.codeSize \in 1..CodeBits /\ t.oldCode \in 0..MaxCode
        /\ t.partial \in Nat /\ t.partialSize \in Nat /\ t.partial < Pow2[t.partialSize]
    BY <1>3, Zenon DEF DecoderRange
  <2>4. \A c \in Codes : Len(u.strings[c]) <= OutLen
    BY <1>4, <2>2, Zenon
  <2> QED
    BY <1>5, <1>6, <2>1, <2>2, <2>3, <2>4, Zenon DEF DecoderRange
<1>13. Past(u, r) = Past(t, l)
  BY <1>8, <1>9 DEF Past
<1>14. Knows(i, w, v, Past(u, r), k, u)
  BY <1>1, <1>2, <1>4, <1>5, <1>6, <1>13, Zenon DEF Knows
<1>15. LoadTrace(i, f, w, v, T, k, m, u, r, sh)
  BY <1>3, <1>10, <1>11, <1>12, <1>14, Zenon DEF LoadTrace
<1> QED
  BY <1>1, <1>15, Zenon DEF HasLoad

(* An ordinary code: its string is returned, or stuffed back.              *)
LEMMA TakeCodeTrace ==
  ASSUME image \in Images, TakeCode, HasLoad(image, file, dec, load, shown)
  PROVE  HasLoad(image', file', dec', load', shown')
<1> HIDE DEF Pow2, MaxCode, Codes, None
<1>1. PICK code, d, a : code = LowCode(dec) /\ d = DropBits(dec, dec.codeSize) /\ a = AddString(d, code)
  OBVIOUS
<1>2. HasCode /\ ~IsEnd(dec) /\ code # ClearCode(image) /\ load.at = "codes"
  BY <1>1, Zenon DEF TakeCode, HasCode
<1>3. image' = image /\ file' = file /\ shown' = shown
  BY DEF TakeCode, saveVars, fileVars
<1>4. IF Len(a.strings[code]) <= OutLen - Len(load.buf)
      THEN /\ dec' = [Count(a) EXCEPT !.oldCode = code]
           /\ load' = [load EXCEPT !.buf = @ \o a.strings[code]]
      ELSE /\ dec' = StuffBack(a, code, d)
           /\ load' = [load EXCEPT !.at = "show"]
  BY <1>1, Zenon DEF TakeCode
<1>5. PICK w, v, T, k, K, F, L, m :
        Step(image, file, w, v, T, k, K, F, L, m, dec, load, shown, code, d, a)
  <2>1. ~IsEnd(dec) /\ LowCode(dec) # ClearCode(image) /\ a = AddString(d, LowCode(dec))
    BY <1>1, <1>2, Zenon
  <2>2. \E w, v, T, k, K, F, L, m :
          Step(image, file, w, v, T, k, K, F, L, m, dec, load, shown, LowCode(dec), d, a)
    BY <1>1, <1>2, <2>1, CodeStep
  <2> QED
    BY <1>1, <2>2, Zenon
<1>6. CASE Len(a.strings[code]) <= OutLen - Len(load.buf)
  <2>1. /\ dec' = [Count(a) EXCEPT !.oldCode = code]
        /\ load' = [load EXCEPT !.buf = @ \o a.strings[code]]
    BY <1>4, <1>6, Zenon
  <2>2. Counted(a, code, dec')
    <3>1. DecoderShape(a)
      BY <1>5, Zenon DEF Step, Took
    <3> QED
      BY <2>1, <3>1, CountFields
  <2>3. PutOut(load, a.strings[code], load')
    <3>1. LoaderShape(load)
      BY <1>5, Zenon DEF Step, LoadTrace, Shows
    <3> QED
      BY <2>1, <3>1 DEF LoaderShape, PutOut
  <2> HIDE <2>1
  <2>4. HasLoad(image, file, dec', load', shown)
    BY <1>2, <1>5, <1>6, <2>2, <2>3, StringOut
  <2> QED
    BY <1>3, <2>4, Zenon
<1>7. CASE ~(Len(a.strings[code]) <= OutLen - Len(load.buf))
  <2>1. dec' = StuffBack(a, code, d) /\ load' = [load EXCEPT !.at = "show"]
    BY <1>4, <1>7, Zenon
  <2>2. HasLoad(image, file, dec', load', shown)
    BY <1>1, <1>2, <1>5, <2>1, StringKept
  <2> QED
    BY <1>3, <2>2, Zenon
<1> QED
  BY <1>6, <1>7

-----------------------------------------------------------------------------
(* Pixels shown.                                                           *)

(* A picture with one pixel more.                                          *)
OnePixel(i, a, b) ==
  \E c \in DOMAIN i.pixel :
    /\ a[c] = Blank /\ b[c] = i.pixel[c] /\ i.pixel[c] # Blank
    /\ DOMAIN a = DOMAIN i.pixel /\ b = [d \in DOMAIN i.pixel |-> b[d]]
    /\ \A d \in DOMAIN i.pixel : d # c => b[d] = a[d]

(* Setting the pixel at place p in what is shown.                          *)
Drawn(i, p, sh, e) ==
  /\ p.y < i.height /\ sh = Picture(i, p)
  /\ e = [sh EXCEPT ![<<p.y, p.x>>] = Or(@, i.pixel[<<p.y, p.x>>] % Pow2[i.bpp])]

(* Drawing the pixel at a place onto the picture of those before it makes  *)
(* the picture of one pixel more.                                          *)
LEMMA PictureGrows ==
  ASSUME NEW i \in Images, NEW p \in PlaceSet(i), NEW sh, NEW new, Drawn(i, p, sh, new)
  PROVE  new = Picture(i, NextPlace(i, p)) /\ OnePixel(i, sh, new)
<1> HIDE DEF Pow2
<1>1. PICK n : n = NextPlace(i, p)
  OBVIOUS
<1>2. PICK x : x = i.pixel[<<p.y, p.x>>]
  OBVIOUS
<1>3. p.y < i.height /\ sh = Picture(i, p) /\ new = [sh EXCEPT ![<<p.y, p.x>>] = Or(@, x % Pow2[i.bpp])]
  BY <1>2 DEF Drawn
<1> USE <1>1, <1>2, <1>3
<1>4. DOMAIN i.pixel = (0..i.height-1) \X (0..i.width-1) /\ i.pixel \in [DOMAIN i.pixel -> 0..Pow2[i.bpp]-1]
  BY ImageAssumption
<1>5. PICK here : here = <<p.y, p.x>>
  OBVIOUS
<1>6. here \in DOMAIN i.pixel
  <2>1. p.y \in Nat /\ p.x \in Nat /\ p.x < i.width /\ i.height \in Nat /\ i.width \in Nat
    BY PlaceFacts, ImageFacts
  <2>2. p.y \in 0..i.height-1 /\ p.x \in 0..i.width-1
    BY <2>1
  <2> QED
    BY <1>4, <1>5, <2>2
<1>7. PICK b \in Nat : b = Pow2[i.bpp] /\ x \in 0..b-1
  <2>1. Pow2[i.bpp] \in Nat
    BY ImageFacts
  <2>2. x \in 0..Pow2[i.bpp]-1
    <3>1. i.pixel[here] \in 0..Pow2[i.bpp]-1
      BY <1>4, <1>6
    <3> QED
      BY <1>5, <3>1, Zenon
  <2> QED
    BY <2>1, <2>2, Zenon
<1>8. x % Pow2[i.bpp] = x /\ x # Blank
  <2>1. x % b = x /\ x # -1
    BY <1>7
  <2> QED
    BY <1>7, <2>1, Zenon DEF Blank
<1>9. \A c \in DOMAIN i.pixel : Before(i, c, n) <=> Before(i, c, p) \/ c = here
  BY <1>4, <1>5, PlaceStep, Zenon
<1>10. ~Before(i, here, p)
  BY <1>5, PlaceStep, Zenon
<1>11. DOMAIN sh = DOMAIN i.pixel
  BY DEF Picture
<1>12. sh[here] = Blank
  BY <1>6, <1>10 DEF Picture
<1>13. new = [c \in DOMAIN i.pixel |-> IF c = here THEN x ELSE sh[c]]
  <2>1. Or(sh[here], x % Pow2[i.bpp]) = x
    BY <1>8, <1>12, Zenon DEF Or
  <2>2. new = [sh EXCEPT ![here] = Or(sh[here], x % Pow2[i.bpp])]
    BY <1>5, Zenon
  <2>3. new = [sh EXCEPT ![here] = x]
    BY <2>1, <2>2, Zenon
  <2> QED
    BY <1>11, <2>3, Zenon
<1>14. ASSUME NEW c \in DOMAIN i.pixel PROVE new[c] = IF Before(i, c, n) THEN i.pixel[c] ELSE Blank
  <2>1. new[c] = IF c = here THEN x ELSE sh[c]
    BY <1>13, <1>14, Zenon
  <2>2. sh[c] = IF Before(i, c, p) THEN i.pixel[c] ELSE Blank
    BY <1>14, Zenon DEF Picture
  <2>3. CASE c = here
    BY <1>5, <1>9, <2>1, <2>3, Zenon
  <2>4. CASE c # here
    BY <1>9, <2>1, <2>2, <2>4, Zenon
  <2> QED
    BY <2>3, <2>4, Zenon
<1>15. new = Picture(i, n)
  BY <1>13, <1>14, Zenon DEF Picture
<1>16. /\ new[here] = i.pixel[here] /\ i.pixel[here] # Blank
       /\ \A d \in DOMAIN i.pixel : d # here => new[d] = sh[d]
       /\ new = [d \in DOMAIN i.pixel |-> new[d]]
  <2>1. new[here] = x
    BY <1>6, <1>13, Zenon
  <2>2. \A d \in DOMAIN i.pixel : d # here => new[d] = sh[d]
    BY <1>13, Zenon
  <2>3. new = [d \in DOMAIN i.pixel |-> new[d]]
    BY <1>13
  <2> QED
    BY <1>5, <1>8, <2>1, <2>2, <2>3, Zenon
<1> QED
  BY <1>6, <1>11, <1>12, <1>15, <1>16, Zenon DEF OnePixel

(* Where the loader goes is where the coder went.                          *)
After(i, l) ==
  IF l.x + 1 < i.width THEN [l EXCEPT !.x = @ + 1] ELSE NextRow(i, [l EXCEPT !.x = 0])

(* Behind a pixel Load is at the next place of the order in which Save     *)
(* writes them.                                                            *)
LEMMA LoaderMoves ==
  ASSUME NEW i \in Images, NEW p \in PlaceSet(i), p.y < i.height, NEW l, LoaderShape(l),
         p = [y |-> l.y, pass |-> l.pass, x |-> l.x], NEW a, a = After(i, l)
  PROVE  /\ LoaderShape(a) /\ a.next = l.next /\ a.at = l.at /\ a.buf = l.buf
         /\ NextPlace(i, p) = [y |-> a.y, pass |-> a.pass, x |-> a.x]
         /\ a.y \in Nat
<1>1. p.y = l.y /\ p.pass = l.pass /\ p.x = l.x
  OBVIOUS
<1>2. p.y \in Nat /\ p.x \in Nat /\ p.pass \in 0..3 /\ i.height \in Nat /\ PlaceShape(p)
  BY PlaceFacts, ImageFacts
<1>3. ~(p.y >= i.height)
  BY <1>2
<1>4. CASE l.x + 1 < i.width
  <2>1. a = [l EXCEPT !.x = @ + 1]
    BY <1>4, Zenon DEF After
  <2>2. LoaderShape(a) /\ a.next = l.next /\ a.at = l.at /\ a.buf = l.buf /\ a.x = l.x + 1 /\ a.y = l.y /\ a.pass = l.pass
    BY <2>1 DEF LoaderShape
  <2>3. NextPlace(i, p) = [p EXCEPT !.x = @ + 1]
    BY <1>1, <1>3, <1>4, Zenon DEF NextPlace
  <2>4. NextPlace(i, p) = [y |-> l.y, pass |-> l.pass, x |-> l.x + 1]
    BY <2>3
  <2> QED
    BY <1>1, <1>2, <2>2, <2>4, Zenon
<1>5. CASE ~(l.x + 1 < i.width)
  <2>1. a = NextRow(i, [l EXCEPT !.x = 0])
    BY <1>5, Zenon DEF After
  <2>2. [l EXCEPT !.x = 0] = [next |-> l.next, at |-> l.at, buf |-> l.buf, x |-> 0, y |-> l.y, pass |-> l.pass]
    BY DEF LoaderShape
  <2>3. l.y \in Nat /\ l.pass \in 0..3
    BY <1>1, <1>2, Zenon
  <2>4. a = [next |-> l.next, at |-> l.at, buf |-> l.buf, x |-> 0,
             y |-> NextY(i, l.y, l.pass), pass |-> NextPass(i, l.y, l.pass)]
    <3>1. NextRow(i, [next |-> l.next, at |-> l.at, buf |-> l.buf, x |-> 0, y |-> l.y, pass |-> l.pass])
            = [next |-> l.next, at |-> l.at, buf |-> l.buf, x |-> 0,
               y |-> NextY(i, l.y, l.pass), pass |-> NextPass(i, l.y, l.pass)]
      BY <2>3, NextRowOfLoad
    <3> QED
      BY <2>1, <2>2, <3>1, Zenon
  <2>5. /\ LoaderShape(a) /\ a.next = l.next /\ a.at = l.at /\ a.buf = l.buf /\ a.x = 0
        /\ a.y = NextY(i, l.y, l.pass) /\ a.pass = NextPass(i, l.y, l.pass)
    BY <2>4 DEF LoaderShape
  <2>6. NextPlace(i, p) = NextRow(i, [p EXCEPT !.x = 0])
    BY <1>1, <1>3, <1>5, Zenon DEF NextPlace
  <2>7. [p EXCEPT !.x = 0] = [y |-> l.y, pass |-> l.pass, x |-> 0]
    OBVIOUS
  <2>8. NextRow(i, [y |-> l.y, pass |-> l.pass, x |-> 0])
          = [y |-> NextY(i, l.y, l.pass), pass |-> NextPass(i, l.y, l.pass), x |-> 0]
    BY <2>3, NextRowOfPlace
  <2>9. NextPlace(i, p) = [y |-> a.y, pass |-> a.pass, x |-> a.x]
    BY <2>5, <2>6, <2>7, <2>8, Zenon
  <2>10. NextPlace(i, p) \in PlaceSet(i)
    BY PlaceStep
  <2>11. NextPlace(i, p).y \in Nat
    BY <2>10, PlaceFacts
  <2>12. NextPlace(i, p).y = a.y
    BY <2>9
  <2> QED
    BY <2>5, <2>9, <2>11, <2>12, Zenon
<1> QED
  BY <1>4, <1>5, Zenon

(* A pixel is shown: of the text one less, of the picture one more.        *)
Pixels(i, w, k, m, t, l, sh, a, e) ==
  /\ LoaderShape(a) /\ a.next = l.next /\ a.at = l.at /\ a.buf = l.buf
  /\ Place(i)[m + 1] = [y |-> a.y, pass |-> a.pass, x |-> a.x]
  /\ e = Picture(i, Place(i)[m + 1]) /\ OnePixel(i, sh, e)
  /\ a.y >= i.height <=> m + 1 = w.at[w.n]
  /\ \E N \in Nat : /\ Len(l.buf) = N + 1 /\ N + 1 <= OutLen /\ Tail(l.buf) = Text(i, m + 1, N)
                    /\ Len(Text(i, m + 1, N)) = N
                    /\ m + 1 + N = IF t.done = TRUE THEN w.at[w.n] ELSE w.at[k]

(* The first of n pixels, and how many are left.                           *)
LEMMA FirstOfSome ==
  ASSUME NEW s, Len(s) \in Nat, Len(s) # 0, NEW m \in Nat
  PROVE  \E N, n \in Nat : n = Len(s) /\ n = N + 1 /\ n - 1 = N /\ n > 0 /\ m + 1 + N = m + n
<1>1. PICK n \in Nat : n = Len(s)
  OBVIOUS
<1>2. n # 0
  BY <1>1, Zenon
<1>3. PICK N \in Nat : N = n - 1
  BY <1>2
<1>4. n = N + 1 /\ n - 1 = N /\ n > 0 /\ m + 1 + N = m + n
  BY <1>3
<1> QED
  BY <1>1, <1>4, Zenon

(* The pixel that Load draws is the one that is next, with the value it    *)
(* has in the picture saved.                                               *)
LEMMA PixelShown ==
  ASSUME NEW i \in Images, NEW w, NEW v, NEW T, Ended(i, w, v, T), NEW k \in Nat, NEW m \in Nat,
         NEW t, t.done = FALSE => k <= w.n, t.done \in BOOLEAN, NEW l, NEW sh, Shows(i, w, k, m, t, l, sh),
         l.buf # << >>,
         NEW e, e = [sh EXCEPT ![<<l.y, l.x>>] = Or(@, Head(l.buf) % Pow2[i.bpp])]
  PROVE  Pixels(i, w, k, m, t, l, sh, After(i, l), e)
<1> HIDE DEF Pow2
<1>1. /\ LoaderShape(l) /\ Len(l.buf) \in Nat /\ Len(l.buf) <= OutLen
      /\ l.buf = Text(i, m, Len(l.buf))
      /\ m + Len(l.buf) = IF t.done = TRUE THEN w.at[w.n] ELSE w.at[k]
      /\ Place(i)[m] = [y |-> l.y, pass |-> l.pass, x |-> l.x]
      /\ sh = Picture(i, Place(i)[m])
  BY Zenon DEF Shows
<1>2. /\ CodesOk(i, w) /\ Place(i)[w.at[w.n]].y >= i.height
      /\ \A q \in 0..w.at[w.n]-1 : Place(i)[q].y < i.height
  BY Zenon DEF Ended
<1>3. PICK P \in Nat : P = w.at[w.n] /\ m + Len(l.buf) <= P
  <2>1. w.n \in Nat /\ w.at[w.n] \in Nat
    <3>1. w.n \in Nat /\ w.at \in [Nat -> Nat]
      BY <1>2, Zenon DEF CodesOk, TraceType
    <3> QED
      BY <3>1
  <2>2. CASE t.done = TRUE
    <3>1. m + Len(l.buf) = w.at[w.n]
      BY <1>1, <2>2, Zenon
    <3>2. m + Len(l.buf) <= w.at[w.n]
      BY <2>1, <3>1
    <3> QED
      BY <2>1, <3>2, Zenon
  <2>3. CASE t.done # TRUE
    <3>1. k <= w.n
      BY <2>3
    <3>2. w.at[k] <= w.at[w.n]
      BY <1>2, <3>1, AtGrows
    <3>3. m + Len(l.buf) = w.at[k]
      BY <1>1, <2>3, Zenon
    <3> QED
      BY <2>1, <3>2, <3>3, Zenon
  <2> QED
    BY <2>2, <2>3
<1>4. Len(l.buf) # 0
  <2>1. ASSUME Len(l.buf) = 0 PROVE FALSE
    <3>1. IsText(i, m, 0, Text(i, m, 0))
      BY TextFacts
    <3>2. l.buf = Text(i, m, 0)
      BY <1>1, <2>1, Zenon
    <3>3. l.buf \in Seq(Hues(i)) /\ Len(l.buf) = 0
      BY <3>1, <3>2, Zenon DEF IsText
    <3> QED
      BY <3>3
  <2> QED
    BY <2>1
<1>5. PICK N, n \in Nat : n = Len(l.buf) /\ n = N + 1 /\ n - 1 = N /\ n > 0 /\ m + 1 + N = m + n
  <2>1. \E N, n \in Nat : n = Len(l.buf) /\ n = N + 1 /\ n - 1 = N /\ n > 0 /\ m + 1 + N = m + n
    BY <1>1, <1>4, FirstOfSome, Zenon
  <2> QED
    BY <2>1, Zenon
<1>6. m \in 0..w.at[w.n]-1 /\ m + 1 <= P
  <2>1. m \in 0..P-1 /\ m + 1 <= P
    <3>1. m + n <= P
      BY <1>3, <1>5, Zenon
    <3> QED
      BY <1>3, <1>5, <3>1
  <2> QED
    BY <1>3, <2>1, Zenon
<1>7. PICK p \in PlaceSet(i) : p = Place(i)[m] /\ p.y < i.height /\ Place(i)[m + 1] = NextPlace(i, p)
  <2>1. Place(i) \in [Nat -> PlaceSet(i)] /\ Place(i)[m + 1] = NextPlace(i, Place(i)[m])
    BY PlaceFunction
  <2>2. Place(i)[m] \in PlaceSet(i)
    BY <2>1
  <2>3. Place(i)[m].y < i.height
    BY <1>2, <1>6, Zenon
  <2> QED
    BY <2>1, <2>2, <2>3, Zenon
<1>8. p = [y |-> l.y, pass |-> l.pass, x |-> l.x] /\ p.y = l.y /\ p.x = l.x
  <2>1. p = [y |-> l.y, pass |-> l.pass, x |-> l.x]
    BY <1>1, <1>7, Zenon
  <2> QED
    BY <2>1
<1>9. PICK a : a = After(i, l)
  OBVIOUS
<1>10. /\ LoaderShape(a) /\ a.next = l.next /\ a.at = l.at /\ a.buf = l.buf
       /\ NextPlace(i, p) = [y |-> a.y, pass |-> a.pass, x |-> a.x]
       /\ a.y \in Nat
  BY <1>1, <1>7, <1>8, <1>9, LoaderMoves
<1>11. Place(i)[m + 1].y = a.y
  <2>1. Place(i)[m + 1] = [y |-> a.y, pass |-> a.pass, x |-> a.x]
    BY <1>7, <1>10, Zenon
  <2> QED
    BY <2>1
<1>12. a.y >= i.height <=> m + 1 = P
  <2>1. CASE m + 1 = P
    BY <1>2, <1>3, <1>11, <2>1, Zenon
  <2>2. CASE m + 1 # P
    <3>1. m + 1 \in 0..P-1
      BY <1>3, <1>6, <2>2
    <3>2. a.y < i.height
      BY <1>2, <1>3, <1>11, <3>1, Zenon
    <3>3. i.height \in Nat
      BY ImageFacts
    <3> QED
      BY <1>10, <2>2, <3>2, <3>3
  <2> QED
    BY <2>1, <2>2
<1>13. /\ Head(l.buf) = Pixel(i)[m] /\ Tail(l.buf) = Text(i, m + 1, N)
  <2>1. /\ Head(Text(i, m, n)) = Pixel(i)[m]
        /\ Tail(Text(i, m, n)) = Text(i, m + 1, n - 1)
    <3>1. m \in Nat /\ n \in Nat /\ n > 0
      BY <1>5
    <3> QED
      BY <3>1, TextEnds
  <2>2. l.buf = Text(i, m, n)
    BY <1>1, <1>5, Zenon
  <2> QED
    BY <1>5, <2>1, <2>2, Zenon
<1>14. Len(Text(i, m + 1, N)) = N
  <2>1. m + 1 \in Nat /\ N \in Nat
    BY <1>5
  <2>2. IsText(i, m + 1, N, Text(i, m + 1, N))
    BY <2>1, TextFacts
  <2> QED
    BY <2>2, Zenon DEF IsText
<1>15. Pixel(i)[m] = i.pixel[<<p.y, p.x>>]
  BY <1>7 DEF Pixel
<1>16. e = Picture(i, Place(i)[m + 1]) /\ OnePixel(i, sh, e)
  <2>1. e = [sh EXCEPT ![<<p.y, p.x>>] = Or(@, Pixel(i)[m] % Pow2[i.bpp])]
    BY <1>8, <1>13
  <2>2. sh = Picture(i, p)
    BY <1>1, <1>7, Zenon
  <2>3. e = Picture(i, NextPlace(i, p)) /\ OnePixel(i, sh, e)
    <3>1. Drawn(i, p, sh, e)
      BY <1>7, <1>15, <2>1, <2>2, Zenon DEF Drawn
    <3> QED
      BY <3>1, PictureGrows, Zenon
  <2> QED
    BY <1>7, <2>3, Zenon
<1>17. /\ Len(l.buf) = N + 1 /\ N + 1 <= OutLen
       /\ m + 1 + N = IF t.done = TRUE THEN w.at[w.n] ELSE w.at[k]
  BY <1>1, <1>5, Zenon
<1>18. Pixels(i, w, k, m, t, l, sh, a, e)
  <2>1. \E NN \in Nat : /\ Len(l.buf) = NN + 1 /\ NN + 1 <= OutLen /\ Tail(l.buf) = Text(i, m + 1, NN)
                        /\ Len(Text(i, m + 1, NN)) = NN
                        /\ m + 1 + NN = IF t.done = TRUE THEN w.at[w.n] ELSE w.at[k]
    BY <1>5, <1>13, <1>14, <1>17, Zenon
  <2> QED
    BY <1>3, <1>7, <1>10, <1>12, <1>16, <2>1, Zenon DEF Pixels
<1> QED
  BY <1>9, <1>18, Zenon

(* Showing a pixel.                                                        *)
LEMMA ShowPixelTrace ==
  ASSUME image \in Images, ShowPixel, HasLoad(image, file, dec, load, shown)
  PROVE  /\ HasLoad(image', file', dec', load', shown') /\ OnePixel(image, shown, shown')
         /\ load'.at = "show"
<1> HIDE DEF Pow2, MaxCode, Codes
<1>1. PICK w, v, T, k, m : /\ T \in Nat /\ k \in Nat /\ m \in Nat
                           /\ LoadTrace(image, file, w, v, T, k, m, dec, load, shown)
  BY Zenon DEF HasLoad
<1>2. /\ Ended(image, w, v, T) /\ Filled(v, T, file) /\ Reader(file, dec, load)
      /\ Shows(image, w, k, m, dec, load, shown) /\ DecoderRange(dec)
      /\ dec.done = FALSE => Knows(image, w, v, Past(dec, load), k, dec)
  BY <1>1, Zenon DEF LoadTrace
<1>3. PICK a : a = After(image, load)
  OBVIOUS
<1>4. PICK c \in BOOLEAN : c = (dec.done \/ a.y >= image.height)
  OBVIOUS
<1>5. PICK s : s = IF a.y >= image.height THEN << >> ELSE Tail(a.buf)
  OBVIOUS
<1>6. /\ load.at = "show" /\ load.buf # << >>
      /\ shown' = [shown EXCEPT ![<<load.y, load.x>>] = Or(@, Head(load.buf) % Pow2[image.bpp])]
      /\ load' = [a EXCEPT !.buf = IF a.y >= image.height THEN << >> ELSE Tail(@)]
      /\ dec' = [dec EXCEPT !.done = @ \/ a.y >= image.height]
      /\ image' = image /\ file' = file
  BY <1>3 DEF ShowPixel, After, saveVars, fileVars
<1>7. load' = [a EXCEPT !.buf = s] /\ dec' = [dec EXCEPT !.done = c]
  BY <1>4, <1>5, <1>6
<1>8. dec.done \in BOOLEAN /\ DecoderShape(dec)
  BY <1>2, Zenon DEF DecoderRange
<1>9. Pixels(image, w, k, m, dec, load, shown, a, shown')
  <2>1. dec.done = FALSE => k <= w.n
    BY <1>2, Zenon DEF Knows
  <2> QED
    BY <1>1, <1>2, <1>3, <1>6, <1>8, <2>1, PixelShown
<1>10. /\ LoaderShape(a) /\ a.next = load.next /\ a.at = load.at /\ a.buf = load.buf
       /\ Place(image)[m + 1] = [y |-> a.y, pass |-> a.pass, x |-> a.x]
       /\ shown' = Picture(image, Place(image)[m + 1]) /\ OnePixel(image, shown, shown')
       /\ a.y >= image.height <=> m + 1 = w.at[w.n]
  BY <1>9, Zenon DEF Pixels
<1>11. PICK N \in Nat : /\ Len(load.buf) = N + 1 /\ N + 1 <= OutLen /\ Tail(load.buf) = Text(image, m + 1, N)
                        /\ Len(Text(image, m + 1, N)) = N
                        /\ m + 1 + N = IF dec.done = TRUE THEN w.at[w.n] ELSE w.at[k]
  BY <1>9, Zenon DEF Pixels
<1>12. /\ DecoderShape(dec') /\ dec'.bufferSize = dec.bufferSize /\ dec'.buffer = dec.buffer
       /\ dec'.bufferPos = dec.bufferPos /\ dec'.done = c /\ dec'.strings = dec.strings
       /\ dec'.nextCode = dec.nextCode /\ dec'.codeSize = dec.codeSize /\ dec'.oldCode = dec.oldCode
       /\ dec'.partial = dec.partial /\ dec'.partialSize = dec.partialSize
  BY <1>7, <1>8 DEF DecoderShape
<1>13. /\ LoaderShape(load') /\ load'.at = a.at /\ load'.next = a.next /\ load'.buf = s
       /\ load'.x = a.x /\ load'.y = a.y /\ load'.pass = a.pass
  BY <1>7, <1>10 DEF LoaderShape
<1>14. m + 1 \in Nat
  BY <1>1
<1>15. CASE a.y >= image.height
  <2>1. s = << >> /\ m + 1 = w.at[w.n] /\ c = TRUE
    <3>1. c = TRUE
      BY <1>4, <1>15
    <3> QED
      BY <1>5, <1>10, <1>15, <3>1, Zenon
  <2>2. load'.buf = << >> /\ Len(load'.buf) = 0 /\ dec'.done = TRUE /\ load'.at = "show"
    <3>1. load'.buf = << >> /\ dec'.done = TRUE /\ load'.at = "show"
      BY <1>6, <1>10, <1>12, <1>13, <2>1, Zenon
    <3>2. Len(<< >>) = 0
      OBVIOUS
    <3> QED
      BY <3>1, <3>2, Zenon
  <2>3. Shows(image, w, k, m + 1, dec', load', shown')
    <3>1. Text(image, m + 1, 0) = << >>
      <4>1. IsText(image, m + 1, 0, Text(image, m + 1, 0))
        BY <1>14, TextFacts
      <4>2. Text(image, m + 1, 0) \in Seq(Hues(image)) /\ Len(Text(image, m + 1, 0)) = 0
        BY <4>1, Zenon DEF IsText
      <4> QED
        BY <4>2
    <3>2. 0 <= OutLen /\ 0 \in Nat /\ (m + 1) + 0 = m + 1
      BY <1>1, OutAssumption
    <3>3. (m + 1) + Len(load'.buf) = w.at[w.n]
      BY <2>1, <2>2, <3>2, Zenon
    <3>4. dec'.done # FALSE
      BY <2>2
    <3> QED
      BY <1>10, <1>13, <2>2, <3>1, <3>2, <3>3, <3>4, Zenon DEF Shows
  <2>4. Reader(file, dec', load')
    <3>1. /\ load'.next \in 1..Len(file)
          /\ dec'.buffer = IF load'.next = 1 THEN << >> ELSE file[load'.next - 1].bytes
          /\ dec'.bufferPos \in 0..Len(dec'.buffer) /\ dec'.bufferSize \in {0, Len(dec'.buffer)}
          /\ dec'.bufferSize = 0 => dec'.bufferPos = Len(dec'.buffer)
      BY <1>2, <1>6, <1>10, <1>12, <1>13, Zenon DEF Reader
    <3> HIDE <1>1, <1>2, <1>6, <1>7, <1>8, <1>9, <1>10, <1>11, <1>12, <1>13
    <3> QED
      BY <2>2, <3>1 DEF Reader
  <2>5. dec'.done \in BOOLEAN /\ dec'.done # FALSE
    BY <2>2
  <2>6. DecoderRange(dec')
    BY <1>2, <1>12, <2>5, Zenon DEF DecoderRange
  <2>7. LoadTrace(image, file, w, v, T, k, m + 1, dec', load', shown')
    BY <1>2, <2>3, <2>4, <2>5, <2>6, Zenon DEF LoadTrace
  <2> QED
    BY <1>1, <1>6, <1>10, <1>14, <2>2, <2>7, Zenon DEF HasLoad
<1>16. CASE ~(a.y >= image.height)
  <2>1. s = Text(image, m + 1, N) /\ m + 1 # w.at[w.n] /\ c = dec.done
    <3>1. c = dec.done
      BY <1>4, <1>8, <1>16
    <3> QED
      BY <1>5, <1>10, <1>11, <1>16, <3>1, Zenon
  <2>2. load'.buf = Text(image, m + 1, N) /\ Len(load'.buf) = N /\ dec'.done = dec.done /\ load'.at = "show"
    BY <1>6, <1>10, <1>11, <1>12, <1>13, <2>1, Zenon
  <2>3. Shows(image, w, k, m + 1, dec', load', shown')
    <3>1. N <= OutLen
      BY <1>11, OutAssumption
    <3> QED
      BY <1>10, <1>11, <1>13, <2>1, <2>2, <3>1, Zenon DEF Shows
  <2>4. Reader(file, dec', load')
    <3>1. /\ load'.next \in 1..Len(file)
          /\ dec'.buffer = IF load'.next = 1 THEN << >> ELSE file[load'.next - 1].bytes
          /\ dec'.bufferPos \in 0..Len(dec'.buffer) /\ dec'.bufferSize \in {0, Len(dec'.buffer)}
          /\ dec'.bufferSize = 0 => dec'.bufferPos = Len(dec'.buffer)
      BY <1>2, <1>6, <1>10, <1>12, <1>13, Zenon DEF Reader
    <3> HIDE <1>1, <1>2, <1>6, <1>7, <1>8, <1>9, <1>10, <1>11, <1>12, <1>13
    <3> QED
      BY <2>2, <3>1 DEF Reader
  <2>5. dec'.done \in BOOLEAN
    BY <1>8, <2>2
  <2>6. DecoderRange(dec')
    BY <1>2, <1>12, <2>5, Zenon DEF DecoderRange
  <2>7. dec'.done = FALSE => Knows(image, w, v, Past(dec', load'), k, dec')
    <3>1. Past(dec', load') = Past(dec, load)
      <4>1. dec'.bufferPos = dec.bufferPos /\ load'.next = load.next
        BY <1>10, <1>12, <1>13, Zenon
      <4> QED
        BY <4>1 DEF Past
    <3> QED
      BY <1>2, <1>12, <2>2, <3>1, Zenon DEF Knows
  <2>8. LoadTrace(image, file, w, v, T, k, m + 1, dec', load', shown')
    BY <1>2, <2>3, <2>4, <2>6, <2>7, Zenon DEF LoadTrace
  <2> QED
    BY <1>1, <1>6, <1>10, <1>14, <2>2, <2>8, Zenon DEF HasLoad
<1> QED
  BY <1>15, <1>16

-----------------------------------------------------------------------------
(* Saving and loading, as a whole.                                         *)

(* Blocks among which there is no terminator.                              *)
NoEnd(f) == \A k \in 1..Len(f) : f[k] # End

(* Which of them holds in which phase: while a save goes on, the file is   *)
(* the bytes of a list of codes; when it is over, of all codes of the      *)
(* picture; and a load is somewhere in them, with the pixels before that   *)
(* place shown.  If the medium filled up there is no terminator, and no    *)
(* load begins.                                                            *)
Stands(p, cut, i, t, at, f, u, l, sh) ==
  /\ p \in {"saving", "overrun", "saved", "refused"} => Untouched(i, u, l, sh)
  /\ p = "saving" /\ cut = FALSE => HasTrace(i, t, at, f)
  /\ cut = TRUE => NoEnd(f)
  /\ p = "saved" /\ cut = FALSE => HasFile(i, f)
  /\ p \in {"loading", "loaded"} => cut = FALSE /\ HasLoad(i, f, u, l, sh)
  /\ p = "loaded" => l.at = "block" /\ l.next <= Len(f) /\ f[l.next] = End

(* All that is known of coder, file and decoder: the inductive invariant.  *)
TransferInv ==
  CoderInv /\ Stands(phase, full, image, enc, save, file, dec, load, shown)

(* What a failed write leaves has no terminator.                           *)
LEMMA NoEndInStump ==
  ASSUME NEW blocks, Batch(blocks, "saved"), NEW q \in Stumps(blocks)
  PROVE  q \in Seq(Blocks) /\ NoEnd(q)
<1>1. /\ blocks \in Seq(Blocks)
      /\ \A k \in 1..Len(blocks) :
           /\ blocks[k] # End => blocks[k].len \in 1..BlockLen
           /\ blocks[k] = End => k = Len(blocks)
  BY DEF Batch
<1>2. CASE \E n \in 0..Len(blocks)-1 : q = SubSeq(blocks, 1, n)
  <2>1. PICK n \in 0..Len(blocks)-1 : q = SubSeq(blocks, 1, n)
    BY <1>2
  <2>2. Len(blocks) \in Nat /\ n \in Nat /\ n < Len(blocks)
    BY <1>1, <2>1
  <2>3. q \in Seq(Blocks) /\ Len(q) = n /\ \A k \in 1..n : q[k] = blocks[k]
    BY <1>1, <2>1, <2>2
  <2>4. ASSUME NEW k \in 1..Len(q) PROVE q[k] # End
    <3>1. k \in 1..Len(blocks) /\ k # Len(blocks) /\ q[k] = blocks[k]
      BY <2>2, <2>3
    <3> QED
      BY <1>1, <3>1, Zenon
  <2> QED
    BY <2>3, <2>4, Zenon DEF NoEnd
<1>3. CASE \E n \in {k \in 1..Len(blocks) : blocks[k] # End} :
             q = Append(SubSeq(blocks, 1, n - 1), [blocks[n] EXCEPT !.bytes = << >>])
  <2>1. PICK n \in 1..Len(blocks) :
          blocks[n] # End /\ q = Append(SubSeq(blocks, 1, n - 1), [blocks[n] EXCEPT !.bytes = << >>])
    BY <1>3, Zenon
  <2>2. PICK N, m \in Nat : N = Len(blocks) /\ m = n - 1 /\ n = m + 1 /\ n <= N /\ n \in Nat
    <3>1. Len(blocks) \in Nat
      BY <1>1
    <3> QED
      BY <2>1, <3>1
  <2>3. PICK r : r = SubSeq(blocks, 1, m)
    OBVIOUS
  <2>4. PICK e : e = [blocks[n] EXCEPT !.bytes = << >>]
    OBVIOUS
  <2>5. r \in Seq(Blocks) /\ Len(r) = m /\ \A k \in 1..m : r[k] = blocks[k]
    BY <1>1, <2>2, <2>3
  <2>6. e \in Blocks /\ e # End
    <3>1. blocks[n] \in Blocks
      BY <1>1, <2>1
    <3>2. blocks[n].len \in 1..BlockLen
      BY <1>1, <2>1, Zenon
    <3>3. e.len = blocks[n].len /\ e \in Blocks
      <4>1. PICK b \in Blocks : b = blocks[n]
        BY <3>1
      <4>2. b = [len |-> b.len, bytes |-> b.bytes] /\ b.len \in 0..BlockLen
        BY <4>1 DEF Blocks
      <4>3. << >> \in Seq(Bytes)
        OBVIOUS
      <4>4. e = [b EXCEPT !.bytes = << >>]
        BY <2>4, <4>1
      <4>5. e = [len |-> b.len, bytes |-> << >>]
        BY <4>2, <4>4
      <4>6. e.len = b.len
        BY <4>5
      <4>7. e \in Blocks
        BY <4>2, <4>3, <4>5 DEF Blocks
      <4> QED
        BY <4>1, <4>6, <4>7, Zenon
    <3>4. End.len = 0
      BY DEF End
    <3>5. e.len # 0
      BY <3>2, <3>3, ByteWidth
    <3> QED
      BY <3>3, <3>4, <3>5, Zenon
  <2>7. q = Append(r, e)
    BY <2>1, <2>2, <2>3, <2>4, Zenon
  <2>8. /\ q \in Seq(Blocks) /\ Len(q) = Len(r) + 1
        /\ (\A k \in 1..Len(r) : q[k] = r[k]) /\ q[Len(r) + 1] = e
    <3>1. r \in Seq(Blocks) /\ e \in Blocks /\ q = Append(r, e)
      BY <2>5, <2>6, <2>7, Zenon
    <3> QED
      BY <3>1, Appended
  <2>9. ASSUME NEW k \in 1..Len(q) PROVE q[k] # End
    <3>1. Len(q) = n /\ q[n] = e /\ \A j \in 1..m : q[j] = r[j]
      BY <2>2, <2>5, <2>8, Zenon
    <3>2. CASE k = n
      BY <2>6, <3>1, <3>2, Zenon
    <3>3. CASE k # n
      <4>1. k \in 1..m /\ k \in 1..Len(blocks) /\ k # Len(blocks)
        <5>1. k \in 1..n
          BY <3>1, Zenon
        <5>2. k \in 1..m /\ k \in 1..N /\ k # N
          BY <2>2, <3>3, <5>1
        <5> QED
          BY <2>2, <5>2, Zenon
      <4>2. q[k] = blocks[k]
        BY <2>5, <3>1, <4>1, Zenon
      <4> QED
        BY <1>1, <4>1, <4>2, Zenon
    <3> QED
      BY <3>2, <3>3, Zenon
  <2> QED
    BY <2>8, <2>9, Zenon DEF NoEnd
<1> QED
  BY <1>2, <1>3 DEF Stumps

(* Blocks without a terminator and blocks without one.                     *)
LEMMA NoEndJoined ==
  ASSUME NEW f \in Seq(Blocks), NEW q \in Seq(Blocks), NoEnd(f), NoEnd(q), NEW g, g = f \o q
  PROVE  NoEnd(g)
<1>1. /\ g \in Seq(Blocks) /\ Len(g) = Len(f) + Len(q)
      /\ \A k \in 1..Len(f) : g[k] = f[k]
      /\ \A k \in 1..Len(g) : k > Len(f) => g[k] = q[k - Len(f)]
  <2>1. g \in Seq(Blocks)
    OBVIOUS
  <2>2. Len(g) = Len(f) + Len(q) /\ \A k \in 1..Len(f) + Len(q) : g[k] = IF k <= Len(f) THEN f[k] ELSE q[k - Len(f)]
    BY ConcatProperties
  <2>3. Len(f) \in Nat /\ Len(q) \in Nat
    OBVIOUS
  <2> QED
    BY <2>1, <2>2, <2>3
<1>2. PICK a, b \in Nat : a = Len(f) /\ b = Len(q)
  OBVIOUS
<1>3. ASSUME NEW k \in 1..Len(g) PROVE g[k] # End
  <2>1. k \in 1..(a + b)
    BY <1>1, <1>2, Zenon
  <2>2. CASE k <= a
    <3>1. k \in 1..a
      BY <2>1, <2>2, <1>2
    <3> QED
      BY <1>1, <1>2, <3>1, Zenon DEF NoEnd
  <2>3. CASE ~(k <= a)
    <3>1. k > a /\ k - a \in 1..b
      BY <2>1, <2>3, <1>2
    <3> QED
      BY <1>1, <1>2, <3>1, Zenon DEF NoEnd
  <2> QED
    BY <2>2, <2>3
<1> QED
  BY <1>3 DEF NoEnd

(* At the beginning.                                                       *)
LEMMA InitStands == Init => TransferInv
<1> HIDE DEF Pow2, MaxCode, Codes
<1> SUFFICES ASSUME Init PROVE TransferInv
  OBVIOUS
<1>1. CoderInv
  BY InitCoder
<1>2. HasTrace(image, enc, save, file)
  BY InitTrace
<1>3. phase = "saving" /\ full = FALSE
  BY DEF Init, SaveInit
<1>4. Untouched(image, dec, load, shown)
  BY DEF Init, Untouched
<1>5. Stands("saving", FALSE, image, enc, save, file, dec, load, shown)
  BY <1>2, <1>4 DEF Stands
<1> QED
  BY <1>1, <1>3, <1>5, Zenon DEF TransferInv

(* While pixels are taken: what was lost with a write is never looked at.  *)
LEMMA SavingStands ==
  ASSUME TransferInv, CoderInv', phase = "saving", phase' = "saving", UNCHANGED <<image, loadVars>>,
         full' = FALSE => full = FALSE /\ HasTrace(image', enc', save', file')
  PROVE  TransferInv'
<1>1. Untouched(image, dec, load, shown)
  BY Zenon DEF TransferInv, Stands
<1>2. image' = image /\ dec' = dec /\ load' = load /\ shown' = shown
  BY DEF loadVars
<1>3. Untouched(image', dec', load', shown')
  BY <1>1, <1>2, Zenon
<1>4. NoEnd(file')
  <2>1. \A k \in 1..Len(file') : file'[k] = End => phase' # "saving"
    BY DEF CoderInv, FileOk
  <2> QED
    BY <2>1, Zenon DEF NoEnd
<1>5. Stands(phase', full', image', enc', save', file', dec', load', shown')
  BY <1>3, <1>4 DEF Stands
<1> QED
  BY <1>5, Zenon DEF TransferInv

(* The last step of a save.                                                *)
LEMMA FinishSaveStands ==
  ASSUME TransferInv, CoderInv', FinishSave, UNCHANGED loadVars
  PROVE  TransferInv'
<1> HIDE DEF Pow2, MaxCode, Codes
<1>0. CoderInv /\ phase = "saving" /\ phase' = "saved" /\ image' = image
  BY DEF TransferInv, FinishSave
<1>1. Untouched(image, dec, load, shown) /\ (full = FALSE => HasTrace(image, enc, save, file))
  BY <1>0, Zenon DEF TransferInv, Stands
<1>2. dec' = dec /\ load' = load /\ shown' = shown
  BY DEF loadVars
<1>3. Untouched(image', dec', load', shown')
  BY <1>0, <1>1, <1>2, Zenon
<1>4. PICK blocks : blocks = Append(LastBlocks(save.buf \o CompressEnd(enc)), End)
  OBVIOUS
<1>5. Store(blocks)
  BY <1>4 DEF FinishSave
<1>6. full \in BOOLEAN /\ full' \in BOOLEAN
  BY <1>0 DEF CoderInv
<1>7. full' = FALSE => HasFile(image', file')
  <2>1. full' = FALSE => ~full
    BY <1>5, <1>6 DEF Store, fileVars
  <2> QED
    BY <1>0, <1>1, <1>6, <2>1, FinishSaveTrace
<1>8. file \in Seq(Blocks) /\ NoEnd(file)
  <2>1. FileOk(file, "saving", full)
    BY <1>0, Zenon DEF CoderInv
  <2>2. file \in Seq([len : 0..BlockLen, bytes : Seq(Bytes)])
        /\ \A k \in 1..Len(file) : file[k] = End => "saving" # "saving"
    BY <2>1, Zenon DEF FileOk
  <2> QED
    BY <2>2, Zenon DEF NoEnd, Blocks
<1>9. Batch(blocks, "saved")
  <2>1. /\ image \in Images /\ CoderType(enc) /\ TableInv(image, enc)
        /\ save.buf \in Seq(Bytes) /\ Len(save.buf) < BlockLen /\ BitsInv(image, enc, save.buf)
    BY <1>0, Zenon DEF CoderInv, CoderOk
  <2>2. PICK e : e = CompressEnd(enc)
    OBVIOUS
  <2>3. e \in Seq(Bytes) /\ Len(e) \in 1..8
    BY <2>1, <2>2, EndBytes, Zenon
  <2>4. PICK s : s = save.buf \o e
    OBVIOUS
  <2>5. s \in Seq(Bytes) /\ Len(s) = Len(save.buf) + Len(e)
    BY <2>1, <2>3, <2>4, ConcatProperties
  <2>6. Len(s) \in 1..2 * BlockLen
    <3>1. Len(save.buf) \in Nat
      BY <2>1
    <3>2. PICK a, b \in Nat : a = Len(save.buf) /\ b = Len(e)
      BY <2>3, <3>1
    <3>3. a < BlockLen /\ b \in 1..8 /\ Len(s) = a + b
      BY <2>1, <2>3, <2>5, <3>2, Zenon
    <3>4. a + b \in 1..2 * BlockLen
      BY <3>3, ByteWidth
    <3> QED
      BY <3>3, <3>4, Zenon
  <2>7. Batch(Append(LastBlocks(s), End), "saved")
    <3>1. "saved" # "saving"
      OBVIOUS
    <3>2. PICK p : p = "saved" /\ p # "saving"
      BY <3>1, Zenon
    <3>3. Batch(Append(LastBlocks(s), End), p)
      BY <2>5, <2>6, <3>2, LastBatch
    <3> QED
      BY <3>2, <3>3, Zenon
  <2> QED
    BY <1>4, <2>2, <2>4, <2>7, Zenon
<1>10. full' = TRUE => NoEnd(file')
  <2>1. CASE full /\ UNCHANGED fileVars
    <3>1. file' = file
      BY <2>1 DEF fileVars
    <3> QED
      BY <1>8, <3>1, Zenon
  <2>2. CASE ~full /\ file' = file \o blocks /\ UNCHANGED full
    BY <1>6, <2>2
  <2>3. CASE \E stump \in Stumps(blocks) : file' = file \o stump
    <3>1. PICK stump \in Stumps(blocks) : file' = file \o stump
      BY <2>3, Zenon
    <3>2. stump \in Seq(Blocks) /\ NoEnd(stump)
      BY <1>9, <3>1, NoEndInStump
    <3> QED
      BY <1>8, <3>1, <3>2, NoEndJoined, Zenon
  <2> QED
    BY <1>5, <2>1, <2>2, <2>3, Zenon DEF Store
<1>11. Stands("saved", full', image', enc', save', file', dec', load', shown')
  BY <1>3, <1>7, <1>10 DEF Stands
<1> QED
  BY <1>0, <1>11, Zenon DEF TransferInv

(* Opening the file that was saved.                                        *)
LEMMA OpenStands ==
  ASSUME TransferInv, CoderInv', Open
  PROVE  TransferInv'
<1>1. /\ phase = "saved" /\ image' = image /\ enc' = enc /\ save' = save /\ file' = file /\ full' = full
      /\ dec' = dec /\ load' = load /\ shown' = shown
      /\ phase' = IF Complete(file) THEN "loading" ELSE "refused"
  BY DEF Open, saveVars, fileVars, loadVars
<1>2. CoderInv /\ full \in BOOLEAN /\ image \in Images /\ file \in Seq(Blocks)
  <2>1. FileOk(file, phase, full) /\ CoderInv /\ full \in BOOLEAN /\ image \in Images
    BY Zenon DEF TransferInv, CoderInv
  <2> QED
    BY <2>1 DEF FileOk, Blocks
<1>3. /\ Untouched(image, dec, load, shown) /\ (full = TRUE => NoEnd(file))
      /\ full = FALSE => HasFile(image, file)
  BY <1>1, Zenon DEF TransferInv, Stands
<1>4. CASE Complete(file)
  <2>1. full = FALSE
    <3>1. Len(file) \in 1..Len(file) /\ file[Len(file)] = End
      BY <1>2, <1>4 DEF Complete
    <3> QED
      BY <1>2, <1>3, <3>1 DEF NoEnd
  <2>2. HasLoad(image, file, dec, load, shown)
    BY <1>2, <1>3, <2>1, OpenedTrace, Zenon
  <2>3. Stands("loading", FALSE, image, enc, save, file, dec, load, shown)
    BY <2>2 DEF Stands
  <2>4. phase' = "loading" /\ full' = FALSE
    BY <1>1, <1>4, <2>1
  <2> QED
    BY <1>1, <2>3, <2>4, Zenon DEF TransferInv
<1>5. CASE ~Complete(file)
  <2>1. phase' = "refused"
    BY <1>1, <1>5
  <2>2. Stands("refused", full, image, enc, save, file, dec, load, shown)
    BY <1>3 DEF Stands
  <2> QED
    BY <1>1, <2>1, <2>2, Zenon DEF TransferInv
<1> QED
  BY <1>4, <1>5

(* The step that meets the terminator.                                     *)
LEMMA FinishLoadStands ==
  ASSUME TransferInv, CoderInv', FinishLoad
  PROVE  TransferInv'
<1>1. /\ phase = "loading" /\ image' = image /\ enc' = enc /\ save' = save /\ file' = file /\ full' = full
      /\ dec' = dec /\ load' = load /\ shown' = shown /\ phase' = "loaded"
      /\ load.at = "block" /\ load.next <= Len(file) /\ file[load.next] = End
  BY DEF FinishLoad, saveVars, fileVars, loadVars
<1>2. full = FALSE /\ HasLoad(image, file, dec, load, shown)
  BY <1>1, Zenon DEF TransferInv, Stands
<1>3. Stands("loaded", FALSE, image, enc, save, file, dec, load, shown)
  BY <1>1, <1>2 DEF Stands
<1> QED
  BY <1>1, <1>2, <1>3, Zenon DEF TransferInv

(* A step of Load's loop.                                                  *)
LEMMA LoadingStands ==
  ASSUME TransferInv, CoderInv', phase = "loading", UNCHANGED <<phase, image, saveVars, fileVars>>,
         HasLoad(image', file', dec', load', shown')
  PROVE  TransferInv'
<1>1. full = FALSE
  BY Zenon DEF TransferInv, Stands
<1>2. phase' = "loading" /\ full' = FALSE
  BY <1>1 DEF fileVars
<1>3. Stands("loading", FALSE, image', enc', save', file', dec', load', shown')
  BY DEF Stands
<1> QED
  BY <1>2, <1>3, Zenon DEF TransferInv

(* Every step of a save.                                                   *)
LEMMA SaveStands ==
  ASSUME TransferInv, CoderInv', SaveStep, UNCHANGED loadVars
  PROVE  TransferInv'
<1> HIDE DEF Pow2, MaxCode, Codes
<1>0. CoderInv /\ full \in BOOLEAN /\ full' \in BOOLEAN
  BY Zenon DEF TransferInv, CoderInv
<1>1. phase = "saving" /\ full = FALSE => HasTrace(image, enc, save, file)
  BY Zenon DEF TransferInv, Stands
<1>2. CASE FirstPixel
  <2>1. phase = "saving" /\ phase' = "saving" /\ image' = image /\ full' = full
    BY <1>2 DEF FirstPixel, fileVars
  <2>2. full' = FALSE => full = FALSE /\ HasTrace(image', enc', save', file')
    BY <1>0, <1>1, <1>2, <2>1, FirstPixelTrace
  <2> QED
    BY <2>1, <2>2, SavingStands
<1>3. CASE ExtendPrefix
  <2>1. phase = "saving" /\ phase' = "saving" /\ image' = image /\ full' = full
    BY <1>3 DEF ExtendPrefix, fileVars
  <2>2. full' = FALSE => full = FALSE /\ HasTrace(image', enc', save', file')
    BY <1>0, <1>1, <1>3, <2>1, ExtendPrefixTrace
  <2> QED
    BY <2>1, <2>2, SavingStands
<1>4. CASE EmitCode
  <2>1. phase = "saving" /\ phase' = "saving" /\ image' = image
    BY <1>4 DEF EmitCode
  <2>2. full' = FALSE => full = FALSE
    <3>1. UNCHANGED fileVars \/ \E b : Store(b)
      BY <1>4, Zenon DEF EmitCode
    <3>2. (\E b : Store(b)) => full' = full \/ full' = TRUE
      BY DEF Store, fileVars
    <3> QED
      BY <1>0, <3>1, <3>2 DEF fileVars
  <2>3. full' = FALSE => HasTrace(image', enc', save', file')
    <3>1. full' = FALSE => ~full /\ ~full'
      BY <2>2
    <3> QED
      BY <1>0, <1>1, <1>4, <2>1, <2>2, <3>1, EmitCodeTrace, Zenon
  <2> QED
    BY <2>1, <2>2, <2>3, SavingStands
<1>5. CASE FinishLine
  <2>1. phase = "saving" /\ phase' = "saving" /\ image' = image /\ full' = full
    BY <1>5 DEF FinishLine, fileVars
  <2>2. full' = FALSE => full = FALSE /\ HasTrace(image', enc', save', file')
    BY <1>0, <1>1, <1>5, <2>1, FinishLineTrace
  <2> QED
    BY <2>1, <2>2, SavingStands
<1>6. CASE FinishSave
  BY <1>6, FinishSaveStands
<1>7. CASE OverrunLast
  <2>1. /\ phase = "saving" /\ phase' = "overrun" /\ image' = image /\ enc' = enc /\ save' = save
        /\ file' = file /\ full' = full /\ dec' = dec /\ load' = load /\ shown' = shown
    BY <1>7 DEF OverrunLast, saveVars, fileVars, loadVars
  <2>2. Stands("saving", full, image, enc, save, file, dec, load, shown)
    BY <2>1, Zenon DEF TransferInv
  <2>3. Stands("overrun", full, image, enc, save, file, dec, load, shown)
    BY <2>2 DEF Stands
  <2> QED
    BY <2>1, <2>3, Zenon DEF TransferInv
<1> QED
  BY <1>2, <1>3, <1>4, <1>5, <1>6, <1>7, Zenon DEF SaveStep

(* Every step of a load.                                                   *)
LEMMA LoadStands ==
  ASSUME TransferInv, CoderInv', LoadStep
  PROVE  TransferInv'
<1> HIDE DEF Pow2, MaxCode, Codes
<1>0. image \in Images /\ (phase = "loading" => HasLoad(image, file, dec, load, shown))
  BY Zenon DEF TransferInv, CoderInv, Stands
<1>1. CASE Open
  BY <1>1, OpenStands
<1>2. CASE FinishLoad
  BY <1>2, FinishLoadStands
<1>3. CASE ReadBlock
  <2>1. phase = "loading" /\ UNCHANGED <<phase, image, saveVars, fileVars>>
    BY <1>3 DEF ReadBlock
  <2>2. HasLoad(image', file', dec', load', shown')
    BY <1>0, <1>3, <2>1, ReadBlockTrace, Zenon
  <2> QED
    BY <2>1, <2>2, LoadingStands, Zenon
<1>4. CASE TakeByte
  <2>1. phase = "loading" /\ UNCHANGED <<phase, image, saveVars, fileVars>>
    BY <1>4 DEF TakeByte, WantsByte
  <2>2. HasLoad(image', file', dec', load', shown')
    BY <1>0, <1>4, <2>1, TakeByteTrace, Zenon
  <2> QED
    BY <2>1, <2>2, LoadingStands, Zenon
<1>5. CASE EndOfBuffer
  <2>1. phase = "loading" /\ UNCHANGED <<phase, image, saveVars, fileVars>>
    BY <1>5 DEF EndOfBuffer, WantsByte
  <2>2. HasLoad(image', file', dec', load', shown')
    BY <1>0, <1>5, <2>1, EndOfBufferTrace, Zenon
  <2> QED
    BY <2>1, <2>2, LoadingStands, Zenon
<1>6. CASE TakeEndCode
  <2>1. phase = "loading" /\ UNCHANGED <<phase, image, saveVars, fileVars>>
    BY <1>6 DEF TakeEndCode, HasCode
  <2>2. HasLoad(image', file', dec', load', shown')
    BY <1>0, <1>6, <2>1, TakeEndCodeTrace, Zenon
  <2> QED
    BY <2>1, <2>2, LoadingStands, Zenon
<1>7. CASE TakeClearCode
  <2>1. phase = "loading" /\ UNCHANGED <<phase, image, saveVars, fileVars>>
    BY <1>7 DEF TakeClearCode, HasCode
  <2>2. HasLoad(image', file', dec', load', shown')
    BY <1>0, <1>7, <2>1, TakeClearCodeTrace, Zenon
  <2> QED
    BY <2>1, <2>2, LoadingStands, Zenon
<1>8. CASE TakeCode
  <2>1. phase = "loading" /\ UNCHANGED <<phase, image, saveVars, fileVars>>
    BY <1>8 DEF TakeCode, HasCode
  <2>2. HasLoad(image', file', dec', load', shown')
    BY <1>0, <1>8, <2>1, TakeCodeTrace, Zenon
  <2> QED
    BY <2>1, <2>2, LoadingStands, Zenon
<1>9. CASE ShowPixel
  <2>1. phase = "loading" /\ UNCHANGED <<phase, image, saveVars, fileVars>>
    BY <1>9 DEF ShowPixel
  <2>2. HasLoad(image', file', dec', load', shown')
    BY <1>0, <1>9, <2>1, ShowPixelTrace, Zenon
  <2> QED
    BY <2>1, <2>2, LoadingStands, Zenon
<1>10. CASE CallAgain
  <2>1. phase = "loading" /\ UNCHANGED <<phase, image, saveVars, fileVars>>
    BY <1>10 DEF CallAgain
  <2>2. HasLoad(image', file', dec', load', shown')
    BY <1>0, <1>10, <2>1, CallAgainTrace, Zenon
  <2> QED
    BY <2>1, <2>2, LoadingStands, Zenon
<1> QED
  BY <1>1, <1>2, <1>3, <1>4, <1>5, <1>6, <1>7, <1>8, <1>9, <1>10, Zenon DEF LoadStep

(* Every step keeps coder, file and decoder together.                      *)
LEMMA TransferStep == TransferInv /\ [Next]_vars => TransferInv'
<1> HIDE DEF Pow2, MaxCode, Codes
<1> SUFFICES ASSUME TransferInv, [Next]_vars PROVE TransferInv'
  OBVIOUS
<1>1. CoderInv'
  BY CoderStep DEF TransferInv
<1>2. CASE SaveStep /\ UNCHANGED loadVars
  BY <1>1, <1>2, SaveStands, Zenon
<1>3. CASE LoadStep
  BY <1>1, <1>3, LoadStands, Zenon
<1>4. CASE UNCHANGED vars
  <2>1. /\ phase' = phase /\ full' = full /\ image' = image /\ enc' = enc /\ save' = save /\ file' = file
        /\ dec' = dec /\ load' = load /\ shown' = shown
    BY <1>4 DEF vars, saveVars, fileVars, loadVars
  <2> QED
    BY <1>1, <2>1, Zenon DEF TransferInv
<1> QED
  BY <1>2, <1>3, <1>4, Zenon DEF Next

(* Coder, file and decoder stay together.                                  *)
LEMMA TransferAlways == Spec => []TransferInv
  BY InitStands, TransferStep, PTL DEF Spec

(* A pixel that is shown is a step of the transfer.                        *)
LEMMA OnePixelTransfers ==
  ASSUME image' = image, OnePixel(image, shown, shown')
  PROVE  Transfer!Transfer
<1>1. PICK c \in DOMAIN image.pixel :
        /\ shown[c] = Blank /\ shown'[c] = image.pixel[c] /\ image.pixel[c] # Blank
        /\ DOMAIN shown = DOMAIN image.pixel /\ shown' = [d \in DOMAIN image.pixel |-> shown'[d]]
        /\ \A d \in DOMAIN image.pixel : d # c => shown'[d] = shown[d]
  BY Zenon DEF OnePixel
<1>2. shown' # shown
  BY <1>1, Zenon
<1>3. ASSUME NEW d \in DOMAIN image.pixel
      PROVE  shown'[d] = IF shown[d] = Blank /\ shown'[d] # Blank THEN image.pixel[d] ELSE shown[d]
  <2>1. CASE d = c
    BY <1>1, <2>1, Zenon
  <2>2. CASE d # c
    <3>1. shown'[d] = shown[d]
      BY <1>1, <2>2, Zenon
    <3> QED
      BY <3>1, Zenon
  <2> QED
    BY <2>1, <2>2, Zenon
<1>4. UNCHANGED (image.pixel)
  BY Zenon
<1> QED
  BY <1>1, <1>2, <1>3, <1>4, Zenon DEF Transfer!Transfer

(* Every step of GifCodec is a step of PictureTransfer or invisible to it. *)
LEMMA StepTransfers ==
  TransferInv /\ [Next]_vars => [Transfer!Transfer]_<<image.pixel, shown>>
<1> HIDE DEF Pow2, MaxCode, Codes
<1> SUFFICES ASSUME TransferInv, [Next]_vars PROVE [Transfer!Transfer]_<<image.pixel, shown>>
  OBVIOUS
<1>1. image' = image /\ (shown' = shown \/ ShowPixel)
  <2>1. CASE SaveStep /\ UNCHANGED loadVars
    BY <2>1 DEF SaveStep, FirstPixel, ExtendPrefix, EmitCode, FinishLine, FinishSave, OverrunLast, loadVars
  <2>2. CASE LoadStep
    BY <2>2 DEF LoadStep, Open, ReadBlock, FinishLoad, TakeByte, EndOfBuffer, TakeEndCode, TakeClearCode,
                TakeCode, ShowPixel, CallAgain, loadVars
  <2>3. CASE UNCHANGED vars
    BY <2>3 DEF vars, loadVars
  <2> QED
    BY <2>1, <2>2, <2>3, Zenon DEF Next
<1>2. CASE shown' = shown
  BY <1>1, <1>2
<1>3. CASE ShowPixel
  <2>1. image \in Images /\ HasLoad(image, file, dec, load, shown)
    <3>1. phase = "loading"
      BY <1>3 DEF ShowPixel
    <3> QED
      BY <3>1, Zenon DEF TransferInv, CoderInv, Stands
  <2>2. OnePixel(image, shown, shown')
    BY <1>3, <2>1, ShowPixelTrace, Zenon
  <2> QED
    BY <1>1, <2>2, OnePixelTransfers, Zenon
<1> QED
  BY <1>1, <1>2, <1>3, Zenon

(* GifCodec implements PictureTransfer: whatever the sizes, the picture    *)
(* and the moment the medium fills up, what Load does to the bitmap is to  *)
(* set one pixel after the other to the value it had when it was saved,    *)
(* and none of them to anything else (Load, PluginGIF.cpp, with            *)
(* StringTable::Compress and StringTable::Decompress).                     *)
THEOREM LoadingTransfers == Spec => IsTransfer
<1>1. Init => Transfer!Init
  BY DEF Init, Transfer!Init
<1> QED
  BY <1>1, StepTransfers, TransferAlways, PTL DEF Spec, IsTransfer, Transfer!Spec

-----------------------------------------------------------------------------
(* What is lost, and what is not.                                          *)

(* At a place below the picture every cell is behind, but for the rows of  *)
(* the passes that a short picture does not begin.                         *)
Short(i) == i.interlaced /\ i.height \in 2..4

(* When all lines are through, every pixel was shown; but of a picture of  *)
(* fewer than five lines that is interlaced the passes over the lines      *)
(* behind the first may be cut short.                                      *)
LEMMA BehindTheLast ==
  ASSUME NEW i \in Images, NEW p \in PlaceSet(i), p.y >= i.height, NEW cell \in DOMAIN i.pixel
  PROVE  Before(i, cell, p) \/ (Short(i) /\ cell[1] # 0)
<1>1. /\ p.y \in Nat /\ p.pass \in 0..4
      /\ IF i.interlaced THEN p.pass = 4 \/ (p.pass \in 1..3 /\ p.y = Offset[p.pass]) ELSE p.pass = 0
  BY PlaceFacts
<1>2. PICK y : y = cell[1]
  OBVIOUS
<1>3. y \in Nat /\ y < i.height /\ i.height \in Nat /\ i.height > 0
  <2>1. cell \in (0..i.height-1) \X (0..i.width-1)
    BY ImageAssumption
  <2>2. i.height \in Nat \ {0}
    BY ImageFacts
  <2> QED
    BY <1>2, <2>1, <2>2
<1>4. PICK c : c = Class(i, y)
  OBVIOUS
<1>5. c \in 0..3 /\ (~i.interlaced => c = 0) /\ (y = 0 => c = 0)
  BY <1>3, <1>4 DEF Class
<1>6. CASE ~i.interlaced
  <2>1. p.pass = 0 /\ y < p.y
    BY <1>1, <1>3, <1>6
  <2> QED
    BY <1>2, <1>4, <1>5, <1>6, <2>1, Zenon DEF Before
<1>7. CASE i.interlaced /\ p.pass = 4
  <2>1. c < p.pass
    BY <1>5, <1>7
  <2> QED
    BY <1>2, <1>4, <2>1, Zenon DEF Before
<1>8. CASE i.interlaced /\ p.pass \in 1..3 /\ p.y = Offset[p.pass]
  <2>1. p.y <= 4
    BY <1>8, PassTable
  <2>2. i.height <= 4
    BY <1>1, <1>3, <2>1
  <2>3. CASE y = 0
    <3>1. c < p.pass
      BY <1>5, <1>8, <2>3
    <3> QED
      BY <1>2, <1>4, <3>1, Zenon DEF Before
  <2>4. CASE y # 0
    <3>1. i.height \in 2..4
      BY <1>3, <2>2, <2>4
    <3> QED
      BY <1>2, <1>8, <2>4, <3>1, Zenon DEF Short
  <2> QED
    BY <2>3, <2>4
<1> QED
  BY <1>1, <1>6, <1>7, <1>8, Zenon

(* At the terminator everything is in m_partial that was not decoded: if   *)
(* that is not all, a whole code is.                                       *)
LEMMA CodeLeft ==
  ASSUME NEW i \in Images, NEW w, NEW v, NEW T \in Nat, Ended(i, w, v, T),
         NEW k \in Nat, NEW t, DecoderRange(t), Knows(i, w, v, T, k, t), k # w.n
  PROVE  t.partialSize >= t.codeSize
<1>1. /\ CodesOk(i, w) /\ TraceType(w) /\ w.n # 0
      /\ w.off[w.n] + w.size[w.n - 1] <= ByteBits * T
      /\ \A j \in 0..w.n-1 : CodeOk(i, w, j)
  BY Zenon DEF Ended, CodesOk
<1>2. k <= w.n /\ ByteBits * T = w.off[k] + t.partialSize /\ t.nextCode = Upto(i, w, k)
      /\ SizeFor(i, t.nextCode, t.codeSize)
  BY Zenon DEF Knows
<1>3. w.n \in Nat /\ w.off \in [Nat -> Nat] /\ w.size \in [Nat -> Nat]
  BY <1>1 DEF TraceType
<1>4. k < w.n /\ k \in 0..w.n-1 /\ w.n - 1 \in Nat
  BY <1>1, <1>2, <1>3
<1>5. t.codeSize = w.size[k]
  <2>1. SizeFor(i, Upto(i, w, k), t.codeSize)
    BY <1>2, Zenon
  <2> QED
    BY <1>1, <1>4, <2>1, SizeOfCode
<1>6. w.off[k + 1] = w.off[k] + w.size[k] /\ w.off[k + 1] <= w.off[w.n]
  <2>1. CodeBitsOk(w, k)
    BY <1>1, <1>4, Zenon DEF CodeOk
  <2> QED
    BY <2>1, Zenon DEF CodeBitsOk
<1>7. PICK a, b, c, d, e, z, P \in Nat :
        /\ a = w.off[k] /\ b = w.size[k] /\ c = w.off[w.n] /\ d = w.size[w.n - 1]
        /\ e = w.off[k + 1] /\ z = t.partialSize /\ P = ByteBits * T
  <2>1. w.off[k] \in Nat /\ w.size[k] \in Nat /\ w.off[w.n] \in Nat /\ w.size[w.n - 1] \in Nat
        /\ w.off[k + 1] \in Nat
    BY <1>3, <1>4
  <2>2. t.partialSize \in Nat
    BY DEF DecoderRange
  <2>3. ByteBits * T \in Nat
    BY ByteWidth
  <2> QED
    BY <2>1, <2>2, <2>3, Zenon
<1>8. P = a + z /\ e = a + b /\ e <= c /\ c + d <= P
  BY <1>1, <1>2, <1>6, <1>7, Zenon
<1>9. z >= b
  BY <1>8
<1> QED
  BY <1>5, <1>7, <1>9, Zenon

-----------------------------------------------------------------------------
(* What the codes that are left in the bits stand for.                     *)

CodesTo(f, n) ==
  f = [k \in 0..n |-> IF k = 0 THEN [table |-> dec, pixels |-> << >>] ELSE DecodeNext(f[k - 1])]

(* There are tables of what is decoded code after code, as long as one     *)
(* wants, and they agree.                                                  *)
LEMMA CodesTable ==
  /\ \A n \in Nat : \E f : CodesTo(f, n)
  /\ \A n, m \in Nat : \A f, g : \A k \in Nat :
       CodesTo(f, n) /\ CodesTo(g, m) /\ k <= n /\ k <= m => f[k] = g[k]
<1> DEFINE start == [table |-> dec, pixels |-> << >>]
<1>0. ASSUME NEW f, NEW n \in Nat, CodesTo(f, n)
      PROVE  f[0] = start /\ \A k \in Nat : k + 1 <= n => f[k + 1] = DecodeNext(f[k])
  <2>1. f = [k \in 0..n |-> IF k = 0 THEN start ELSE DecodeNext(f[k - 1])]
    BY <1>0 DEF CodesTo
  <2> HIDE DEF start
  <2>2. f[0] = start
    BY <2>1
  <2>3. ASSUME NEW k \in Nat, k + 1 <= n PROVE f[k + 1] = DecodeNext(f[k])
    <3>1. k + 1 \in 0..n /\ k + 1 # 0 /\ (k + 1) - 1 = k
      BY <2>3
    <3>2. f[k + 1] = DecodeNext(f[(k + 1) - 1])
      BY <2>1, <3>1
    <3> QED
      BY <3>1, <3>2, Zenon
  <2> QED
    BY <2>2, <2>3
<1>1. ASSUME NEW n \in Nat PROVE \E f : CodesTo(f, n)
  <2> DEFINE S == {m \in Nat : \E f : CodesTo(f, m)}
  <2>1. 0 \in S
    <3>1. PICK f : f = [k \in 0..0 |-> start]
      OBVIOUS
    <3>2. f = [k \in 0..0 |-> IF k = 0 THEN start ELSE DecodeNext(f[k - 1])]
      BY <3>1
    <3>3. CodesTo(f, 0)
      BY <3>2 DEF CodesTo
    <3> QED
      BY <3>3
  <2>2. ASSUME NEW m \in Nat, m \in S PROVE m + 1 \in S
    <3>1. PICK f : CodesTo(f, m)
      BY <2>2
    <3>2. f[0] = start /\ \A k \in Nat : k + 1 <= m => f[k + 1] = DecodeNext(f[k])
      BY <1>0, <3>1
    <3>3. PICK more : more = [k \in 0..(m + 1) |-> IF k <= m THEN f[k] ELSE DecodeNext(f[m])]
      OBVIOUS
    <3> HIDE DEF start
    <3>4. ASSUME NEW k \in 0..(m + 1)
          PROVE  more[k] = IF k = 0 THEN start ELSE DecodeNext(more[k - 1])
      <4>1. CASE k = 0
        BY <3>2, <3>3, <4>1
      <4>2. CASE k # 0
        <5>1. PICK j \in Nat : j = k - 1 /\ k = j + 1 /\ j <= m /\ j \in 0..(m + 1)
          <6>1. k - 1 \in Nat /\ k = (k - 1) + 1 /\ k - 1 <= m /\ k - 1 \in 0..(m + 1)
            BY <4>2
          <6> QED
            BY <6>1, Zenon
        <5>2. more[j] = f[j]
          BY <3>3, <5>1
        <5>3. more[k] = DecodeNext(f[j])
          <6>1. CASE k <= m
            <7>1. f[j + 1] = DecodeNext(f[j])
              BY <3>2, <5>1, <6>1, Zenon
            <7>2. more[k] = f[k]
              BY <3>3, <6>1
            <7> QED
              BY <5>1, <7>1, <7>2, Zenon
          <6>2. CASE ~(k <= m)
            <7>1. j = m
              BY <5>1, <6>2
            <7>2. more[k] = DecodeNext(f[m])
              BY <3>3, <6>2
            <7> QED
              BY <7>1, <7>2, Zenon
          <6> QED
            BY <6>1, <6>2
        <5> QED
          BY <4>2, <5>1, <5>2, <5>3, Zenon
      <4> QED
        BY <4>1, <4>2
    <3>5. more = [k \in 0..(m + 1) |-> more[k]]
      BY <3>3
    <3>6. more = [k \in 0..(m + 1) |-> IF k = 0 THEN start ELSE DecodeNext(more[k - 1])]
      BY <3>4, <3>5
    <3>7. CodesTo(more, m + 1)
      BY <3>6 DEF CodesTo, start
    <3> QED
      BY <3>7
  <2> HIDE DEF S
  <2>3. Nat \subseteq S
    BY <2>1, <2>2, SetInduction
  <2> QED
    BY <2>3 DEF S
<1>2. ASSUME NEW n \in Nat, NEW m \in Nat, NEW f, NEW g, CodesTo(f, n), CodesTo(g, m)
      PROVE  \A k \in Nat : k <= n /\ k <= m => f[k] = g[k]
  <2>0. /\ f[0] = start /\ \A k \in Nat : k + 1 <= n => f[k + 1] = DecodeNext(f[k])
        /\ g[0] = start /\ \A k \in Nat : k + 1 <= m => g[k + 1] = DecodeNext(g[k])
    BY <1>0, <1>2
  <2> DEFINE S == {k \in Nat : k <= n /\ k <= m => f[k] = g[k]}
  <2> HIDE DEF start
  <2>1. 0 \in S
    BY <2>0
  <2>2. ASSUME NEW k \in Nat, k \in S PROVE k + 1 \in S
    <3> SUFFICES ASSUME k + 1 <= n, k + 1 <= m PROVE f[k + 1] = g[k + 1]
      OBVIOUS
    <3>1. f[k + 1] = DecodeNext(f[k]) /\ g[k + 1] = DecodeNext(g[k])
      BY <2>0, Zenon
    <3>2. k <= n /\ k <= m
      OBVIOUS
    <3>3. f[k] = g[k]
      BY <2>2, <3>2
    <3> QED
      BY <3>1, <3>3, Zenon
  <2> HIDE DEF S
  <2>3. Nat \subseteq S
    BY <2>1, <2>2, SetInduction
  <2> QED
    BY <2>3 DEF S
<1> QED
  BY <1>1, <1>2

(* AfterCodes is the function that its definition describes.               *)
LEMMA AfterEquations ==
  /\ AfterCodes[0] = [table |-> dec, pixels |-> << >>]
  /\ \A n \in Nat : AfterCodes[n + 1] = DecodeNext(AfterCodes[n])
<1> DEFINE start == [table |-> dec, pixels |-> << >>]
           F(n) == CHOOSE f : CodesTo(f, n)
           P == [n \in Nat |-> F(n)[n]]
<1>1. \A n \in Nat : CodesTo(F(n), n)
  BY CodesTable
<1> HIDE DEF F
<1>2. P[0] = start
  <2>1. F(0) = [k \in 0..0 |-> IF k = 0 THEN start ELSE DecodeNext(F(0)[k - 1])]
    BY <1>1 DEF CodesTo
  <2> HIDE DEF start
  <2> QED
    BY <2>1
<1>3. ASSUME NEW n \in Nat PROVE P[n + 1] = DecodeNext(P[n])
  <2>1. F(n + 1)[n] = F(n)[n]
    BY <1>1, CodesTable
  <2>2. F(n + 1)[n + 1] = DecodeNext(F(n + 1)[n])
    <3>1. F(n + 1) = [k \in 0..(n + 1) |-> IF k = 0 THEN start ELSE DecodeNext(F(n + 1)[k - 1])]
      BY <1>1 DEF CodesTo
    <3> HIDE DEF start
    <3>2. n + 1 \in 0..(n + 1) /\ n + 1 # 0 /\ (n + 1) - 1 = n
      OBVIOUS
    <3>3. F(n + 1)[n + 1] = DecodeNext(F(n + 1)[(n + 1) - 1])
      BY <3>1, <3>2
    <3> QED
      BY <3>2, <3>3, Zenon
  <2>3. P[n + 1] = F(n + 1)[n + 1] /\ P[n] = F(n)[n]
    OBVIOUS
  <2> HIDE DEF P
  <2> QED
    BY <2>1, <2>2, <2>3, Zenon
<1>4. P = [n \in Nat |-> P[n]]
  OBVIOUS
<1> HIDE DEF P, start
<1>5. P = [n \in Nat |-> IF n = 0 THEN start ELSE DecodeNext(P[n - 1])]
  <2>1. ASSUME NEW n \in Nat PROVE P[n] = IF n = 0 THEN start ELSE DecodeNext(P[n - 1])
    <3>1. CASE n = 0
      BY <1>2, <3>1
    <3>2. CASE n # 0
      <4>1. PICK j \in Nat : j = n - 1 /\ n = j + 1
        <5>1. n - 1 \in Nat /\ n = (n - 1) + 1
          BY <3>2
        <5> QED
          BY <5>1, Zenon
      <4>2. P[j + 1] = DecodeNext(P[j])
        BY <1>3, <4>1
      <4> QED
        BY <3>2, <4>1, <4>2, Zenon
    <3> QED
      BY <3>1, <3>2
  <2> QED
    BY <1>4, <2>1
<1>6. AfterCodes = [n \in Nat |-> IF n = 0 THEN start ELSE DecodeNext(AfterCodes[n - 1])]
  BY <1>5 DEF AfterCodes, start
<1> HIDE DEF AfterCodes
<1>7. AfterCodes[0] = start
  BY <1>6
<1>8. ASSUME NEW n \in Nat PROVE AfterCodes[n + 1] = DecodeNext(AfterCodes[n])
  <2>1. n + 1 \in Nat /\ n + 1 # 0 /\ (n + 1) - 1 = n
    OBVIOUS
  <2>2. AfterCodes[n + 1] = DecodeNext(AfterCodes[(n + 1) - 1])
    BY <1>6, <2>1
  <2> QED
    BY <2>1, <2>2, Zenon
<1> QED
  BY <1>7, <1>8 DEF start

(* All T bytes are in; d is what is decoded when k codes are taken, and    *)
(* its pixels are those of the picture from the m-th on.                   *)
DecodedTo(w, v, T, m, k, t, d) ==
  \E M \in Nat : /\ d = [table |-> t, pixels |-> Text(image, m, M)] /\ m + M = w.at[k]
                 /\ Knows(image, w, v, T, k, t) /\ DecoderRange(t) /\ t.done = FALSE

(* While codes are left a whole one is in the bits, and one more decoding  *)
(* takes it.                                                               *)
LEMMA NextLeft ==
  ASSUME image \in Images, NEW w, NEW v, NEW T \in Nat, Ended(image, w, v, T),
         NEW m \in Nat, NEW k \in Nat, NEW t, NEW d, DecodedTo(w, v, T, m, k, t, d), k # w.n
  PROVE  \E K, u : /\ K \in Nat /\ K = k + 1 /\ DecodedTo(w, v, T, m, K, u, DecodeNext(d))
                    /\ u.partialSize < t.partialSize
<1> HIDE DEF Pow2, MaxCode, Codes, None
<1>1. PICK M \in Nat :
        /\ d = [table |-> t, pixels |-> Text(image, m, M)] /\ m + M = w.at[k]
        /\ Knows(image, w, v, T, k, t) /\ DecoderRange(t) /\ t.done = FALSE
  BY Zenon DEF DecodedTo
<1>2. d.table = t /\ d.pixels = Text(image, m, M)
  BY <1>1
<1>3. PICK z, s \in Nat : z = t.partialSize /\ s = t.codeSize /\ s >= 1 /\ z >= s
  <2>1. t.partialSize >= t.codeSize
    BY <1>1, CodeLeft
  <2>2. t.partialSize \in Nat /\ t.codeSize \in 1..CodeBits /\ CodeBits \in Nat
    BY <1>1, ByteWidth DEF DecoderRange
  <2>3. t.codeSize \in Nat /\ t.codeSize >= 1
    BY <2>2
  <2> QED
    BY <2>1, <2>2, <2>3, Zenon
<1>4. PICK y \in Nat : y = z - s /\ y < z
  <2>1. z - s \in Nat /\ z - s < z
    BY <1>3
  <2> QED
    BY <2>1, Zenon
<1>5. PICK rest : rest = DropBits(t, t.codeSize)
  OBVIOUS
<1>6. k < w.n
  <2>1. k <= w.n /\ w.n \in Nat
    BY <1>1, Zenon DEF Knows, Ended, CodesOk, TraceType
  <2> QED
    BY <2>1
<1>7. LowCode(t) = w.code[k]
  <2>1. t.partialSize >= t.codeSize
    BY <1>3
  <2>2. Taking(image, w, v, T, k, t, rest)
    BY <1>1, <1>5, <2>1, CodeTaken
  <2> QED
    BY <1>6, <2>2, Zenon DEF Taking, LowIs
<1>8. LowCode(t) # EndCode(image) /\ ~IsEnd(t)
  <2>1. CodesOk(image, w) /\ t.nextCode = Upto(image, w, k)
    BY <1>1, Zenon DEF Ended, Knows
  <2>2. w.code[k] <= Upto(image, w, k) /\ w.code[k] # EndCode(image)
    BY <1>6, <2>1, NotTheEnd
  <2>3. w.code[k] \in Nat /\ Upto(image, w, k) \in Nat
    <3>1. k <= w.n
      BY <1>1, Zenon DEF Knows
    <3>2. Upto(image, w, k) \in Nat
      BY <2>1, <3>1, UptoBounds
    <3>3. w.code \in [Nat -> Nat]
      BY <2>1, Zenon DEF CodesOk, TraceType
    <3> QED
      BY <3>2, <3>3
  <2>4. ~(w.code[k] > Upto(image, w, k))
    BY <2>2, <2>3
  <2> QED
    BY <1>7, <2>1, <2>2, <2>4, Zenon DEF IsEnd
<1>9. ~(t.partialSize < t.codeSize)
  BY <1>3
<1>10. CASE LowCode(t) = ClearCode(image)
  <2>1. PICK u : u = ClearedDecompressor(image, rest)
    OBVIOUS
  <2>2. DecodeNext(d) = [d EXCEPT !.table = u]
    BY <1>2, <1>5, <1>8, <1>9, <1>10, <2>1, Zenon DEF DecodeNext
  <2>3. DecodeNext(d) = [table |-> u, pixels |-> Text(image, m, M)]
    BY <1>1, <2>2
  <2>4. PICK K \in Nat :
          /\ K = k + 1 /\ w.at[K] = w.at[k] /\ Knows(image, w, v, T, K, u) /\ DecoderRange(u)
          /\ u.partialSize = t.partialSize - t.codeSize /\ u.done = t.done
    <3>1. t.partialSize >= t.codeSize /\ u = ClearedDecompressor(image, DropBits(t, t.codeSize))
      BY <1>3, <1>5, <2>1, Zenon
    <3> QED
      BY <1>1, <1>10, <3>1, ClearCounts
  <2>5. DecodedTo(w, v, T, m, K, u, DecodeNext(d))
    BY <1>1, <2>3, <2>4, Zenon DEF DecodedTo
  <2>6. u.partialSize < t.partialSize
    <3>1. u.partialSize = y
      BY <1>3, <1>4, <2>4, Zenon
    <3> QED
      BY <1>3, <1>4, <3>1, Zenon
  <2> QED
    BY <2>4, <2>5, <2>6, Zenon
<1>11. CASE LowCode(t) # ClearCode(image)
  <2>1. PICK a : a = AddString(rest, LowCode(t))
    OBVIOUS
  <2>2. PICK u : u = [Count(a) EXCEPT !.oldCode = LowCode(t)]
    OBVIOUS
  <2>3. DecodeNext(d) = [table |-> u, pixels |-> Text(image, m, M) \o a.strings[LowCode(t)]]
    BY <1>2, <1>5, <1>8, <1>9, <1>11, <2>1, <2>2, Zenon DEF DecodeNext
  <2>4. PICK K, F, L : Took(image, w, v, T, k, K, F, L, t, LowCode(t), rest, a)
    <3>1. t.partialSize >= t.codeSize
      BY <1>3
    <3> QED
      BY <1>1, <1>5, <1>8, <1>11, <2>1, <3>1, CodeTakes
  <2>5. /\ K \in Nat /\ K = k + 1
        /\ M + L \in Nat /\ m + (M + L) = w.at[K]
        /\ Text(image, m, M) \o a.strings[LowCode(t)] = Text(image, m, M + L)
        /\ Knows(image, w, v, T, K, u) /\ DecoderRange(u)
        /\ u.partialSize = t.partialSize - t.codeSize /\ u.done = FALSE
    <3>1. DecoderRange(t) /\ m + M = w.at[k]
      BY <1>1, Zenon
    <3>2. Counted(a, LowCode(t), u)
      <4>1. DecoderShape(a)
        BY <2>4, Zenon DEF Took
      <4> QED
        BY <2>2, <4>1, CountFields
    <3> HIDE <2>2
    <3>3. /\ TextNow(image, w, k, K, L, LowCode(t), a, m, M)
          /\ AfterOne(image, w, v, T, k, K, L, t, LowCode(t), a, u)
      BY <2>4, <3>1, <3>2, TakenText
    <3> QED
      BY <3>3, Zenon DEF TextNow, AfterOne
  <2>6. PICK N \in Nat : Text(image, m, M) \o a.strings[LowCode(t)] = Text(image, m, N) /\ m + N = w.at[K]
    BY <2>5, Zenon
  <2>9. DecodeNext(d) = [table |-> u, pixels |-> Text(image, m, N)] /\ m + N = w.at[K]
    BY <2>3, <2>6, Zenon
  <2>10. DecodedTo(w, v, T, m, K, u, DecodeNext(d))
    BY <2>5, <2>9, Zenon DEF DecodedTo
  <2>11. u.partialSize < t.partialSize
    <3>1. u.partialSize = y
      BY <1>3, <1>4, <2>5, Zenon
    <3> QED
      BY <1>3, <1>4, <3>1, Zenon
  <2> QED
    BY <2>5, <2>10, <2>11, Zenon
<1> QED
  BY <1>10, <1>11

(* When no code is left nothing more is decoded.                           *)
LEMMA NothingLeft ==
  ASSUME image \in Images, NEW w, NEW v, NEW T \in Nat, Ended(image, w, v, T),
         NEW m \in Nat, NEW k \in Nat, NEW t, NEW d, DecodedTo(w, v, T, m, k, t, d), k = w.n
  PROVE  DecodeNext(d) = d
<1> HIDE DEF Pow2, MaxCode, Codes, None
<1>1. PICK M \in Nat :
        /\ d = [table |-> t, pixels |-> Text(image, m, M)]
        /\ Knows(image, w, v, T, k, t) /\ DecoderRange(t)
  BY Zenon DEF DecodedTo
<1>2. d.table = t
  BY <1>1
<1>3. CASE t.partialSize < t.codeSize
  BY <1>2, <1>3, Zenon DEF DecodeNext
<1>4. CASE ~(t.partialSize < t.codeSize)
  <2>1. t.partialSize >= t.codeSize
    <3>1. t.partialSize \in Nat /\ t.codeSize \in 1..CodeBits /\ CodeBits \in Nat
      BY <1>1, ByteWidth DEF DecoderRange
    <3> QED
      BY <1>4, <3>1
  <2>2. PICK rest : rest = DropBits(t, t.codeSize)
    OBVIOUS
  <2>3. Taking(image, w, v, T, k, t, rest)
    BY <1>1, <2>1, <2>2, CodeTaken
  <2>4. ~(k < w.n)
    <3>1. w.n \in Nat
      BY Zenon DEF Ended, CodesOk, TraceType
    <3> QED
      BY <3>1
  <2>5. LowCode(t) = EndCode(image)
    BY <2>3, <2>4, Zenon DEF Taking, LowIs
  <2>6. IsEnd(t)
    BY <2>5, Zenon DEF IsEnd
  <2> QED
    BY <1>2, <2>6, Zenon DEF DecodeNext
<1> QED
  BY <1>3, <1>4

(* Every code takes at least one bit, so that all have been taken after as *)
(* many as there are bits: what they stand for is the rest of the picture. *)
LEMMA LeftIsRest ==
  ASSUME image \in Images, NEW w, NEW v, NEW T \in Nat, Ended(image, w, v, T),
         NEW m \in Nat, NEW k \in Nat, Knows(image, w, v, T, k, dec), DecoderRange(dec),
         dec.done = FALSE, m = w.at[k]
  PROVE  \E M \in Nat : PixelsLeft = Text(image, m, M) /\ m + M = w.at[w.n]
<1> HIDE DEF Pow2, MaxCode, Codes, None, AfterCodes
<1>1. PICK z \in Nat : z = dec.partialSize
  BY DEF DecoderRange
<1> DEFINE S == {n \in Nat : \E q, t :
                   /\ q \in Nat /\ DecodedTo(w, v, T, m, q, t, AfterCodes[n])
                   /\ q = w.n \/ t.partialSize + n <= z}
<1>2. 0 \in S
  <2>1. Text(image, m, 0) = << >>
    <3>1. IsText(image, m, 0, Text(image, m, 0))
      BY TextFacts
    <3> QED
      BY <3>1 DEF IsText
  <2>2. AfterCodes[0] = [table |-> dec, pixels |-> Text(image, m, 0)]
    BY <2>1, AfterEquations, Zenon
  <2>3. m + 0 = w.at[k] /\ 0 \in Nat
    OBVIOUS
  <2>4. DecodedTo(w, v, T, m, k, dec, AfterCodes[0])
    BY <2>2, <2>3, Zenon DEF DecodedTo
  <2>5. dec.partialSize + 0 <= z
    BY <1>1
  <2> QED
    BY <2>3, <2>4, <2>5, Zenon
<1>3. ASSUME NEW n \in Nat, n \in S PROVE n + 1 \in S
  <2>1. PICK q, t : /\ q \in Nat /\ DecodedTo(w, v, T, m, q, t, AfterCodes[n])
                    /\ q = w.n \/ t.partialSize + n <= z
    BY <1>3
  <2>2. AfterCodes[n + 1] = DecodeNext(AfterCodes[n]) /\ n + 1 \in Nat
    BY AfterEquations
  <2>3. CASE q = w.n
    <3>1. DecodeNext(AfterCodes[n]) = AfterCodes[n]
      BY <2>1, <2>3, NothingLeft
    <3> QED
      BY <2>1, <2>2, <2>3, <3>1, Zenon
  <2>4. CASE q # w.n
    <3>1. PICK Q, u : /\ Q \in Nat /\ DecodedTo(w, v, T, m, Q, u, DecodeNext(AfterCodes[n]))
                      /\ u.partialSize < t.partialSize
      BY <2>1, <2>4, NextLeft
    <3>2. t.partialSize \in Nat /\ u.partialSize \in Nat
      BY <2>1, <3>1, Zenon DEF DecodedTo, DecoderRange
    <3>3. PICK a, b \in Nat : a = t.partialSize /\ b = u.partialSize
      BY <3>2, Zenon
    <3>4. b < a /\ a + n <= z
      BY <2>1, <2>4, <3>1, <3>3, Zenon
    <3>5. b + (n + 1) <= z
      BY <3>4
    <3>6. u.partialSize + (n + 1) <= z
      BY <3>3, <3>5, Zenon
    <3>7. DecodedTo(w, v, T, m, Q, u, AfterCodes[n + 1])
      BY <2>2, <3>1, Zenon
    <3> QED
      BY <2>2, <3>1, <3>6, <3>7, Zenon
  <2> QED
    BY <2>3, <2>4
<1> HIDE DEF S
<1>4. Nat \subseteq S
  BY <1>2, <1>3, SetInduction
<1>5. PICK q, t : /\ q \in Nat /\ DecodedTo(w, v, T, m, q, t, AfterCodes[z])
                  /\ q = w.n \/ t.partialSize + z <= z
  BY <1>4 DEF S
<1>6. PICK M \in Nat : /\ AfterCodes[z] = [table |-> t, pixels |-> Text(image, m, M)]
                       /\ m + M = w.at[q]
                       /\ Knows(image, w, v, T, q, t) /\ DecoderRange(t)
  BY <1>5, Zenon DEF DecodedTo
<1>7. q = w.n
  <2> SUFFICES ASSUME q # w.n PROVE FALSE
    OBVIOUS
  <2>1. t.partialSize >= t.codeSize
    BY <1>5, <1>6, CodeLeft
  <2>2. t.partialSize \in Nat /\ t.codeSize \in 1..CodeBits /\ CodeBits \in Nat
    BY <1>6, ByteWidth DEF DecoderRange
  <2>3. PICK a \in Nat : a = t.partialSize /\ a >= 1
    BY <2>1, <2>2
  <2>4. a + z <= z
    BY <1>5, <2>3, Zenon
  <2> QED
    BY <2>3, <2>4
<1>8. PixelsLeft = Text(image, m, M)
  <2>1. AfterCodes[z].pixels = Text(image, m, M)
    BY <1>6
  <2>2. dec.done # TRUE
    OBVIOUS
  <2> QED
    BY <1>1, <2>1, <2>2, Zenon DEF PixelsLeft
<1> QED
  BY <1>6, <1>7, <1>8, Zenon

-----------------------------------------------------------------------------
(* The numbers of the cells.                                               *)

(* The numbers of rows, for each of the four passes.                       *)
LEMMA RowNumbers ==
  ASSUME NEW y \in Nat, NEW h \in Nat, y < h
  PROVE  /\ (y + 8) \div 8 = y \div 8 + 1 /\ (y + 4) \div 4 = y \div 4 + 1
         /\ (y + 2) \div 2 = y \div 2 + 1
         /\ y % 8 = 0 /\ ~(y + 8 < h) => (h + 7) \div 8 = y \div 8 + 1
         /\ y % 8 = 4 /\ ~(y + 8 < h) => (h + 3) \div 4 = ((h + 7) \div 8 + y \div 8) + 1
         /\ y % 4 = 2 /\ ~(y + 4 < h) => (h + 1) \div 2 = ((h + 3) \div 4 + y \div 4) + 1
         /\ y \div 8 \in Nat /\ y \div 4 \in Nat /\ y \div 2 \in Nat
         /\ (h + 7) \div 8 \in Nat /\ (h + 3) \div 4 \in Nat /\ (h + 1) \div 2 \in Nat
<1>1. (y + 8) \div 8 = y \div 8 + 1 /\ (y + 4) \div 4 = y \div 4 + 1
      /\ (y + 2) \div 2 = y \div 2 + 1
  OBVIOUS
<1>2. ASSUME y % 8 = 0, ~(y + 8 < h) PROVE (h + 7) \div 8 = y \div 8 + 1
  BY <1>2
<1>3. ASSUME y % 8 = 4, ~(y + 8 < h) PROVE (h + 3) \div 4 = ((h + 7) \div 8 + y \div 8) + 1
  BY <1>3
<1>4. ASSUME y % 4 = 2, ~(y + 4 < h) PROVE (h + 1) \div 2 = ((h + 3) \div 4 + y \div 4) + 1
  BY <1>4
<1>5. y \div 8 \in Nat /\ y \div 4 \in Nat /\ y \div 2 \in Nat
  OBVIOUS
<1>6. (h + 7) \div 8 \in Nat /\ (h + 3) \div 4 \in Nat /\ (h + 1) \div 2 \in Nat
  OBVIOUS
<1> QED
  BY <1>1, <1>2, <1>3, <1>4, <1>5, <1>6

(* In the order of the passes the row after one has the next number.       *)
LEMMA NextRowNumber ==
  ASSUME image \in Images, NEW y \in Nat, y < image.height, NEW pass, pass = Class(image, y),
         NEW Y, Y = NextY(image, y, pass), NEW P, P = NextPass(image, y, pass),
         Y < image.height, ~Short(image) \/ P = 0
  PROVE  RowsBefore(y) \in Nat /\ RowsBefore(Y) = RowsBefore(y) + 1
<1>1. PICK h \in Nat : h = image.height
  BY ImageFacts
<1>2. CASE ~image.interlaced
  <2>1. Y = y + 1 /\ RowsBefore(y) = y /\ RowsBefore(Y) = Y
    BY <1>2 DEF NextY, RowsBefore
  <2> QED
    BY <2>1
<1> DEFINE e8 == (h + 7) \div 8
           e4 == (h + 3) \div 4
           e2 == (h + 1) \div 2
<1>3. ASSUME image.interlaced, NEW x \in Nat
      PROVE  /\ x % 8 = 0 => RowsBefore(x) = x \div 8
             /\ x % 8 = 4 => RowsBefore(x) = e8 + x \div 8
             /\ x % 4 = 2 => RowsBefore(x) = e4 + x \div 4
             /\ x % 8 # 0 /\ x % 8 # 4 /\ x % 4 # 2 => RowsBefore(x) = e2 + x \div 2
  <2>1. CeilDiv(image.height, 8) = e8 /\ CeilDiv(image.height, 4) = e4
        /\ CeilDiv(image.height, 2) = e2
    <3>1. h + 8 - 1 = h + 7 /\ h + 4 - 1 = h + 3 /\ h + 2 - 1 = h + 1
      OBVIOUS
    <3> QED
      BY <1>1, <3>1 DEF CeilDiv
  <2>2. x % 4 = 2 => x % 8 # 0 /\ x % 8 # 4
    OBVIOUS
  <2>3. x % 8 = 4 => x % 8 # 0
    OBVIOUS
  <2> HIDE DEF e8, e4, e2
  <2> QED
    BY <1>3, <2>1, <2>2, <2>3, Zenon DEF RowsBefore
<1>4. y < h /\ Y < h
  BY <1>1
<1>5. /\ (y + 8) \div 8 = y \div 8 + 1 /\ (y + 4) \div 4 = y \div 4 + 1
      /\ (y + 2) \div 2 = y \div 2 + 1
      /\ y % 8 = 0 /\ ~(y + 8 < h) => e8 = y \div 8 + 1
      /\ y % 8 = 4 /\ ~(y + 8 < h) => e4 = (e8 + y \div 8) + 1
      /\ y % 4 = 2 /\ ~(y + 4 < h) => e2 = (e4 + y \div 4) + 1
      /\ y \div 8 \in Nat /\ y \div 4 \in Nat /\ y \div 2 \in Nat
      /\ e8 \in Nat /\ e4 \in Nat /\ e2 \in Nat
  BY <1>4, RowNumbers
<1> HIDE DEF e8, e4, e2
<1>6. CASE image.interlaced /\ y % 8 = 0
  <2>1. pass = 0 /\ RowsBefore(y) = y \div 8
    BY <1>3, <1>6 DEF Class
  <2>2. CASE y + 8 < h
    <3>1. Y = y + 8 /\ (y + 8) % 8 = 0 /\ y + 8 \in Nat
      BY <1>1, <1>6, <2>1, <2>2, PassTable, RowOrder DEF NextY
    <3>2. RowsBefore(Y) = (y + 8) \div 8
      BY <1>3, <1>6, <3>1
    <3> QED
      BY <1>5, <2>1, <3>2
  <2>3. CASE ~(y + 8 < h)
    <3>1. Y = 4 /\ P = 1
      BY <1>1, <1>6, <2>1, <2>3, PassTable DEF NextY, NextPass
    <3>2. RowsBefore(Y) = e8 + 4 \div 8
      BY <1>3, <1>6, <3>1
    <3>3. RowsBefore(Y) = e8
      BY <1>5, <3>2
    <3> QED
      BY <1>5, <1>6, <2>1, <2>3, <3>3
  <2> QED
    BY <2>2, <2>3
<1>7. CASE image.interlaced /\ y % 8 = 4
  <2>1. pass = 1 /\ RowsBefore(y) = e8 + y \div 8
    BY <1>3, <1>7 DEF Class
  <2>2. CASE y + 8 < h
    <3>1. Y = y + 8 /\ (y + 8) % 8 = 4 /\ y + 8 \in Nat
      BY <1>1, <1>7, <2>1, <2>2, PassTable, RowOrder DEF NextY
    <3>2. RowsBefore(Y) = e8 + (y + 8) \div 8
      BY <1>3, <1>7, <3>1
    <3> QED
      BY <1>5, <2>1, <3>2
  <2>3. CASE ~(y + 8 < h)
    <3>1. Y = 2 /\ P = 2
      BY <1>1, <1>7, <2>1, <2>3, PassTable DEF NextY, NextPass
    <3>2. RowsBefore(Y) = e4 + 2 \div 4
      BY <1>3, <1>7, <3>1
    <3>3. RowsBefore(Y) = e4
      BY <1>5, <3>2
    <3> QED
      BY <1>5, <1>7, <2>1, <2>3, <3>3
  <2> QED
    BY <2>2, <2>3
<1>8. CASE image.interlaced /\ y % 4 = 2
  <2>0. y % 8 # 0 /\ y % 8 # 4
    BY <1>8
  <2>1. pass = 2 /\ RowsBefore(y) = e4 + y \div 4
    BY <1>3, <1>8, <2>0 DEF Class
  <2>2. CASE y + 4 < h
    <3>1. Y = y + 4 /\ (y + 4) % 4 = 2 /\ y + 4 \in Nat
      BY <1>1, <1>8, <2>1, <2>2, PassTable, RowOrder DEF NextY
    <3>2. RowsBefore(Y) = e4 + (y + 4) \div 4
      BY <1>3, <1>8, <3>1
    <3> QED
      BY <1>5, <2>1, <3>2
  <2>3. CASE ~(y + 4 < h)
    <3>1. Y = 1 /\ P = 3
      BY <1>1, <1>8, <2>1, <2>3, PassTable DEF NextY, NextPass
    <3>2. RowsBefore(Y) = e2 + 1 \div 2
      BY <1>3, <1>8, <3>1
    <3>3. RowsBefore(Y) = e2
      BY <1>5, <3>2
    <3> QED
      BY <1>5, <1>8, <2>1, <2>3, <3>3
  <2> QED
    BY <2>2, <2>3
<1>9. CASE image.interlaced /\ y % 8 # 0 /\ y % 8 # 4 /\ y % 4 # 2
  <2>1. pass = 3 /\ RowsBefore(y) = e2 + y \div 2
    BY <1>3, <1>9 DEF Class
  <2>2. Y = y + 2
    BY <1>9, <2>1, PassTable DEF NextY
  <2>3. y + 2 \in Nat /\ (y + 2) % 8 # 0 /\ (y + 2) % 8 # 4 /\ (y + 2) % 4 # 2
    <3>1. y % 8 # 0 /\ y % 8 # 4 /\ y % 4 # 2
      BY <1>9
    <3>2. (y + 2) % 8 # 0 /\ (y + 2) % 8 # 4 /\ (y + 2) % 4 # 2
      BY <3>1, RowOrder, Zenon
    <3>3. y + 2 \in Nat
      OBVIOUS
    <3> QED
      BY <3>2, <3>3, Zenon
  <2>4. RowsBefore(Y) = e2 + (y + 2) \div 2
    BY <1>3, <1>9, <2>2, <2>3
  <2> QED
    BY <1>5, <2>1, <2>4
<1> QED
  BY <1>2, <1>6, <1>7, <1>8, <1>9

(* The n-th place of the picture is the cell before which n come; of a     *)
(* short interlaced picture that is so in the first pass.                  *)
LEMMA PlaceNumber ==
  ASSUME image \in Images, NEW n \in Nat, NEW p, p = Place(image)[n],
         p.y < image.height, ~Short(image) \/ p.pass = 0
  PROVE  CellsBefore(p.y, p.x) = n
<1> DEFINE Q(q) == q.y < image.height /\ (~Short(image) \/ q.pass = 0)
           S == {j \in Nat : Q(Place(image)[j]) =>
                   CellsBefore(Place(image)[j].y, Place(image)[j].x) = j}
<1>1. image.width \in Nat \ {0} /\ image.height \in Nat \ {0}
  BY ImageFacts
<1>2. 0 \in S
  <2>1. Place(image)[0].y = 0 /\ Place(image)[0].x = 0
    BY PlaceFunction DEF Origin
  <2>2. RowsBefore(0) = 0
    <3>1. 0 % 8 = 0 /\ 0 \div 8 = 0
      OBVIOUS
    <3> QED
      BY <3>1 DEF RowsBefore
  <2>3. CellsBefore(0, 0) = 0
    BY <1>1, <2>2 DEF CellsBefore
  <2> QED
    BY <2>1, <2>3
<1>3. ASSUME NEW j \in Nat, j \in S PROVE j + 1 \in S
  <2>1. PICK q \in PlaceSet(image), r \in PlaceSet(image) :
          q = Place(image)[j] /\ r = Place(image)[j + 1] /\ r = NextPlace(image, q)
    <3>1. j + 1 \in Nat
      OBVIOUS
    <3>2. Place(image)[j] \in PlaceSet(image) /\ Place(image)[j + 1] \in PlaceSet(image)
          /\ Place(image)[j + 1] = NextPlace(image, Place(image)[j])
      BY <3>1, PlaceFunction
    <3> QED
      BY <3>2, Zenon
  <2>0. SUFFICES Q(r) => CellsBefore(r.y, r.x) = j + 1
    <3>1. j + 1 \in Nat
      OBVIOUS
    <3> HIDE DEF Q
    <3> QED
      BY <2>1, <3>1, Zenon
  <2> SUFFICES ASSUME r.y < image.height, ~Short(image) \/ r.pass = 0
               PROVE  CellsBefore(r.y, r.x) = j + 1
    OBVIOUS
  <2>2. /\ q = [y |-> q.y, pass |-> q.pass, x |-> q.x] /\ q.y \in Nat /\ q.x \in Nat /\ q.x < image.width
        /\ q.y < image.height => q.pass = Class(image, q.y) /\ q.pass \in 0..3
    BY PlaceFacts DEF PlaceShape
  <2>3. q.y < image.height
    <3>1. ASSUME q.y >= image.height PROVE FALSE
      <4>1. r = q
        BY <2>1, <3>1 DEF NextPlace
      <4> QED
        BY <1>1, <2>2, <3>1, <4>1
    <3> QED
      BY <1>1, <2>2, <3>1
  <2>4. PICK y, x \in Nat, pass \in 0..3 :
          /\ q = [y |-> y, pass |-> pass, x |-> x] /\ q.y = y /\ q.x = x /\ q.pass = pass
          /\ y < image.height /\ x < image.width /\ pass = Class(image, y)
    BY <2>2, <2>3, Zenon
  <2>5. ~(y >= image.height)
    BY <1>1, <2>4
  <2>6. CASE x + 1 < image.width
    <3>1. r = [q EXCEPT !.x = @ + 1]
      BY <2>1, <2>4, <2>5, <2>6, Zenon DEF NextPlace
    <3>2. r.y = y /\ r.x = x + 1 /\ r.pass = pass
      BY <2>4, <3>1
    <3>3. Q(q)
      BY <2>4, <3>2
    <3>4. CellsBefore(y, x) = j
      BY <1>3, <2>1, <2>4, <3>3
    <3>5. RowsBefore(y) \in Nat
      BY <1>1, <2>4 DEF RowsBefore, CeilDiv
    <3>6. PICK c \in Nat : c = RowsBefore(y) * image.width
      BY <1>1, <3>5
    <3>7. c + x = j
      BY <3>4, <3>6, Zenon DEF CellsBefore
    <3>8. c + (x + 1) = j + 1
      BY <3>7
    <3> QED
      BY <3>2, <3>6, <3>8, Zenon DEF CellsBefore
  <2>7. CASE ~(x + 1 < image.width)
    <3>1. [q EXCEPT !.x = 0] = [y |-> y, pass |-> pass, x |-> 0]
      BY <2>4
    <3>2. r = NextRow(image, [q EXCEPT !.x = 0])
      BY <2>1, <2>4, <2>5, <2>7, Zenon DEF NextPlace
    <3>3. PICK Y, P : Y = NextY(image, y, pass) /\ P = NextPass(image, y, pass)
      OBVIOUS
    <3>4. r = [y |-> Y, pass |-> P, x |-> 0]
      BY <3>1, <3>2, <3>3, NextRowOfPlace
    <3>5. r.y = Y /\ r.pass = P /\ r.x = 0
      BY <3>4
    <3>6. Y < image.height /\ (~Short(image) \/ P = 0)
      BY <3>5, Zenon
    <3>7. RowsBefore(y) \in Nat /\ RowsBefore(Y) = RowsBefore(y) + 1
      BY <2>4, <3>3, <3>6, NextRowNumber
    <3>8. P = 0 => pass = 0
      BY <3>3 DEF NextPass
    <3>9. Q(q)
      BY <2>4, <3>6, <3>8
    <3>10. CellsBefore(y, x) = j
      BY <1>3, <2>1, <2>4, <3>9
    <3>11. PICK b, w \in Nat : b = RowsBefore(y) /\ w = image.width /\ x + 1 = w
      BY <1>1, <2>4, <2>7, <3>7
    <3>12. b * w + x = j
      BY <3>10, <3>11, Zenon DEF CellsBefore
    <3>13. (b + 1) * w = b * w + w
      BY <3>11, SMTT(30)
    <3>14. PICK c \in Nat : c = b * w
      BY <3>11
    <3>15. (b + 1) * w + 0 = j + 1
      <4>1. PICK f \in Nat : f = (b + 1) * w
        BY <3>11
      <4>2. c + x = j /\ f = c + w
        BY <3>12, <3>13, <3>14, <4>1, Zenon
      <4>3. f + 0 = j + 1
        BY <3>11, <4>2
      <4> QED
        BY <4>1, <4>3, Zenon
    <3> QED
      <4>1. RowsBefore(r.y) = b + 1 /\ image.width = w /\ r.x = 0
        BY <3>5, <3>7, <3>11, Zenon
      <4> QED
        BY <3>15, <4>1, Zenon DEF CellsBefore
  <2> QED
    BY <2>6, <2>7
<1> HIDE DEF S
<1>4. Nat \subseteq S
  BY <1>2, <1>3, SetInduction
<1> QED
  BY <1>4 DEF S

(* A cell that is before the place M further on, and not before this one,  *)
(* is one of the M places.                                                 *)
LEMMA PlacesBetween ==
  ASSUME NEW i \in Images, NEW m \in Nat, NEW M \in Nat, NEW e, e = m + M,
         \A n \in 0..e-1 : Place(i)[n].y < i.height,
         NEW cell \in DOMAIN i.pixel,
         Before(i, cell, Place(i)[e]), ~Before(i, cell, Place(i)[m])
  PROVE  \E d \in 0..M-1 : cell = <<Place(i)[m + d].y, Place(i)[m + d].x>>
<1> DEFINE S == {a \in Nat : a <= M /\ Before(i, cell, Place(i)[m + a]) =>
                   \E d \in 0..a-1 : cell = <<Place(i)[m + d].y, Place(i)[m + d].x>>}
<1>1. 0 \in S
  <2>1. m + 0 = m
    OBVIOUS
  <2> QED
    BY <2>1
<1>2. ASSUME NEW a \in Nat, a \in S PROVE a + 1 \in S
  <2> SUFFICES ASSUME a + 1 <= M, Before(i, cell, Place(i)[m + (a + 1)])
               PROVE  \E d \in 0..(a + 1)-1 : cell = <<Place(i)[m + d].y, Place(i)[m + d].x>>
    OBVIOUS
  <2>1. PICK n \in Nat : n = m + a /\ n + 1 = m + (a + 1) /\ n \in 0..e-1
    <3>1. m + a \in Nat /\ (m + a) + 1 = m + (a + 1) /\ m + a \in 0..e-1
      OBVIOUS
    <3> QED
      BY <3>1, Zenon
  <2>2. PICK p \in PlaceSet(i) : p = Place(i)[n] /\ Place(i)[n + 1] = NextPlace(i, p)
    BY PlaceFunction
  <2>3. p.y < i.height
    BY <2>1, <2>2
  <2>4. cell \in (0..i.height-1) \X (0..i.width-1)
    BY ImageAssumption
  <2>5. Before(i, cell, NextPlace(i, p)) => Before(i, cell, p) \/ cell = <<p.y, p.x>>
    BY <2>3, <2>4, PlaceStep
  <2>6. Before(i, cell, Place(i)[m + a]) \/ cell = <<Place(i)[m + a].y, Place(i)[m + a].x>>
    BY <2>1, <2>2, <2>5, Zenon
  <2>7. CASE cell = <<Place(i)[m + a].y, Place(i)[m + a].x>>
    <3>1. a \in 0..(a + 1)-1
      OBVIOUS
    <3> QED
      BY <2>7, <3>1, Zenon
  <2>8. CASE Before(i, cell, Place(i)[m + a])
    <3>1. a <= M
      OBVIOUS
    <3>2. PICK d \in 0..a-1 : cell = <<Place(i)[m + d].y, Place(i)[m + d].x>>
      BY <1>2, <2>8, <3>1
    <3>3. d \in 0..(a + 1)-1
      BY <3>2
    <3> QED
      BY <3>2, <3>3, Zenon
  <2> QED
    BY <2>6, <2>7, <2>8
<1> HIDE DEF S
<1>3. Nat \subseteq S
  BY <1>1, <1>2, SetInduction
<1>4. M \in S /\ M <= M
  BY <1>3
<1> QED
  BY <1>4 DEF S

-----------------------------------------------------------------------------
(* When the terminator is met.                                             *)

(* Some pixels are the rest of a picture, from the m-th on.                *)
Rest(i, m, left) ==
  \E M \in Nat, e \in Nat : /\ left = Text(i, m, M) /\ e = m + M /\ Place(i)[e].y >= i.height
                            /\ \A n \in 0..e-1 : Place(i)[n].y < i.height

(* A load that has reached the terminator has shown the pixels before the  *)
(* m-th, and the codes left in its bits stand for the rest of the picture. *)
LEMMA AtTheTerminator ==
  ASSUME image \in Images, HasLoad(image, file, dec, load, shown),
         load.at = "block", file[load.next] = End
  PROVE  \E m \in Nat : /\ Place(image)[m] = [y |-> load.y, pass |-> load.pass, x |-> load.x]
                        /\ shown = Picture(image, Place(image)[m])
                        /\ Rest(image, m, PixelsLeft)
<1> HIDE DEF Pow2, MaxCode, Codes, AfterCodes
<1>1. PICK w, v, T, k, m : /\ T \in Nat /\ k \in Nat /\ m \in Nat
                           /\ LoadTrace(image, file, w, v, T, k, m, dec, load, shown)
  BY Zenon DEF HasLoad
<1>2. /\ Ended(image, w, v, T) /\ Filled(v, T, file) /\ Reader(file, dec, load)
      /\ Shows(image, w, k, m, dec, load, shown) /\ DecoderRange(dec)
      /\ dec.done = FALSE => Knows(image, w, v, Past(dec, load), k, dec)
  BY <1>1, Zenon DEF LoadTrace
<1>3. /\ Place(image)[m] = [y |-> load.y, pass |-> load.pass, x |-> load.x]
      /\ shown = Picture(image, Place(image)[m])
  BY <1>2, Zenon DEF Shows
<1>4. PICK e \in Nat : e = w.at[w.n] /\ Place(image)[e].y >= image.height
                       /\ \A n \in 0..e-1 : Place(image)[n].y < image.height
  <2>1. CodesOk(image, w) /\ w.n \in Nat
    BY <1>2, Zenon DEF Ended, CodesOk, TraceType
  <2>2. w.at[w.n] \in Nat
    BY <2>1, Zenon DEF CodesOk, TraceType
  <2> QED
    BY <1>2, <2>2, Zenon DEF Ended
<1>5. m = IF dec.done = TRUE THEN e ELSE w.at[k]
  <2>1. load.buf = << >>
    BY <1>2, Zenon DEF Reader
  <2>2. Len(load.buf) = 0
    BY <2>1
  <2>3. m + Len(load.buf) = IF dec.done = TRUE THEN e ELSE w.at[k]
    BY <1>2, <1>4, Zenon DEF Shows
  <2>4. m + 0 = m
    BY <1>1
  <2> QED
    BY <2>2, <2>3, <2>4, Zenon
<1>6. dec.done \in BOOLEAN
  BY <1>2, Zenon DEF DecoderRange
<1>7. CASE dec.done = TRUE
  <2>1. m = e /\ e = m + 0
    BY <1>4, <1>5, <1>7
  <2>2. Text(image, m, 0) = << >>
    <3>1. IsText(image, m, 0, Text(image, m, 0))
      BY <1>1, TextFacts
    <3> QED
      BY <3>1 DEF IsText
  <2>3. PixelsLeft = Text(image, m, 0) /\ 0 \in Nat
    BY <1>7, <2>2 DEF PixelsLeft
  <2>4. Rest(image, m, PixelsLeft)
    BY <1>4, <2>1, <2>3, Zenon DEF Rest
  <2> QED
    BY <1>1, <1>3, <2>4
<1>8. CASE dec.done = FALSE
  <2>1. m = w.at[k]
    <3>1. dec.done # TRUE
      BY <1>8
    <3> QED
      BY <1>5, <3>1, Zenon
  <2>2. Past(dec, load) = T
    <3>1. /\ Len(file) \in Nat /\ Len(file) >= 2
          /\ \A b \in 1..Len(file)-1 : file[b] # End
          /\ T = (Len(file) - 2) * BlockLen + Len(file[Len(file) - 1].bytes)
      BY <1>2, Zenon DEF Filled
    <3>2. /\ load.next \in 1..Len(file)
          /\ dec.buffer = IF load.next = 1 THEN << >> ELSE file[load.next - 1].bytes
          /\ dec.bufferPos = Len(dec.buffer)
      BY <1>2, <1>8, Zenon DEF Reader
    <3>3. load.next = Len(file)
      <4>1. ASSUME load.next # Len(file) PROVE FALSE
        <5>1. load.next \in 1..Len(file)-1
          BY <3>1, <3>2, <4>1
        <5> QED
          BY <3>1, <5>1, Zenon
      <4> QED
        BY <4>1
    <3>4. load.next # 1
      BY <3>1, <3>3
    <3>5. dec.bufferPos = Len(file[Len(file) - 1].bytes)
      BY <3>2, <3>3, <3>4, Zenon
    <3>6. Past(dec, load) = (load.next - 2) * BlockLen + dec.bufferPos
      BY <3>4, Zenon DEF Past
    <3> QED
      BY <3>1, <3>3, <3>5, <3>6, Zenon
  <2>3. Knows(image, w, v, T, k, dec)
    BY <1>2, <1>8, <2>2, Zenon
  <2>4. PICK M \in Nat : PixelsLeft = Text(image, m, M) /\ m + M = w.at[w.n]
    BY <1>1, <1>2, <1>8, <2>1, <2>3, LeftIsRest
  <2>5. Rest(image, m, PixelsLeft)
    BY <1>4, <2>4, Zenon DEF Rest
  <2> QED
    BY <1>1, <1>3, <2>5
<1> QED
  BY <1>6, <1>7, <1>8

(* A cell that is not shown then is the cell of one of the codes left.     *)
LEMMA RestArrives ==
  ASSUME image \in Images, NEW m \in Nat,
         Place(image)[m] = [y |-> load.y, pass |-> load.pass, x |-> load.x],
         shown = Picture(image, Place(image)[m]), Rest(image, m, PixelsLeft),
         NEW cell \in DOMAIN image.pixel
  PROVE  \/ shown[cell] = image.pixel[cell]
         \/ Short(image) /\ cell[1] # 0
         \/ LET n == CellsBefore(cell[1], cell[2]) - CellsBefore(load.y, load.x)
            IN /\ shown[cell] = Blank
               /\ n \in 0..Len(PixelsLeft)-1
               /\ PixelsLeft[n + 1] = image.pixel[cell]
<1> HIDE DEF AfterCodes
<1>1. PICK M \in Nat, e \in Nat :
        /\ PixelsLeft = Text(image, m, M) /\ e = m + M /\ Place(image)[e].y >= image.height
        /\ \A n \in 0..e-1 : Place(image)[n].y < image.height
  BY Zenon DEF Rest
<1>2. shown[cell] = IF Before(image, cell, Place(image)[m]) THEN image.pixel[cell] ELSE Blank
  BY DEF Picture
<1>3. CASE Before(image, cell, Place(image)[m])
  BY <1>2, <1>3
<1>4. CASE Short(image) /\ cell[1] # 0
  BY <1>4
<1>5. ASSUME ~Before(image, cell, Place(image)[m]), ~(Short(image) /\ cell[1] # 0)
      PROVE  LET n == CellsBefore(cell[1], cell[2]) - CellsBefore(load.y, load.x)
             IN /\ shown[cell] = Blank
                /\ n \in 0..Len(PixelsLeft)-1
                /\ PixelsLeft[n + 1] = image.pixel[cell]
  <2>1. Before(image, cell, Place(image)[e])
    <3>1. Place(image)[e] \in PlaceSet(image)
      BY PlaceFunction
    <3> QED
      BY <1>1, <1>5, <3>1, BehindTheLast
  <2>2. PICK d \in 0..M-1 : cell = <<Place(image)[m + d].y, Place(image)[m + d].x>>
    BY <1>1, <1>5, <2>1, PlacesBetween
  <2>3. PICK n \in Nat : n = m + d /\ n \in 0..e-1 /\ m \in 0..e-1 /\ n - m = d
    <3>1. m + d \in Nat /\ m + d \in 0..e-1 /\ m \in 0..e-1 /\ (m + d) - m = d
      BY <1>1, <2>2
    <3> QED
      BY <3>1, Zenon
  <2>4. PICK p, q \in PlaceSet(image) : p = Place(image)[m] /\ q = Place(image)[n]
    BY PlaceFunction
  <2>5. cell = <<q.y, q.x>> /\ p.y < image.height /\ q.y < image.height
    BY <1>1, <2>2, <2>3, <2>4, Zenon
  <2>6. cell[1] = q.y /\ cell[2] = q.x
    BY <2>5
  <2>7. ~Short(image) \/ (p.pass = 0 /\ q.pass = 0)
    <3> SUFFICES ASSUME Short(image) PROVE p.pass = 0 /\ q.pass = 0
      OBVIOUS
    <3>1. cell[1] = 0 /\ q.y = 0
      BY <1>5, <2>6
    <3>2. Class(image, 0) = 0
      BY DEF Class
    <3>3. q.pass = 0
      BY <2>4, <2>5, <3>1, <3>2, PlaceFacts
    <3>4. p.pass \in 0..4
      BY <2>4, PlaceFacts
    <3>5. ~(0 < p.pass)
      BY <1>5, <2>4, <3>1, <3>2, Zenon DEF Before
    <3> QED
      BY <3>3, <3>4, <3>5
  <2>8. CellsBefore(q.y, q.x) = n
    BY <2>3, <2>4, <2>5, <2>7, PlaceNumber
  <2>9. CellsBefore(p.y, p.x) = m
    BY <2>3, <2>4, <2>5, <2>7, PlaceNumber
  <2>10. p.y = load.y /\ p.x = load.x
    BY <2>4
  <2>11. CellsBefore(cell[1], cell[2]) - CellsBefore(load.y, load.x) = d
    BY <2>3, <2>6, <2>8, <2>9, <2>10, Zenon
  <2>12. Len(PixelsLeft) = M /\ PixelsLeft[d + 1] = Pixel(image)[n]
    <3>1. IsText(image, m, M, PixelsLeft)
      BY <1>1, TextFacts
    <3>2. d + 1 \in 1..M /\ m + ((d + 1) - 1) = n
      BY <2>2, <2>3
    <3> QED
      BY <3>1, <3>2, Zenon DEF IsText
  <2>13. Pixel(image)[n] = image.pixel[cell]
    BY <2>4, <2>5 DEF Pixel
  <2>14. shown[cell] = Blank
    BY <1>2, <1>5, Zenon
  <2>15. d \in 0..Len(PixelsLeft)-1
    BY <2>2, <2>12
  <2> QED
    BY <2>11, <2>12, <2>13, <2>14, <2>15, Zenon
<1> QED
  BY <1>3, <1>4, <1>5

(* A picture that was loaded is the one that was saved, except for the two *)
(* losses that are known: lines behind the first of a short interlaced     *)
(* picture, and the pixels of the codes that are left in the bits when the *)
(* terminator is met, which are the next of the picture where the load     *)
(* stopped (Load and Decompress, PluginGIF.cpp).  A third loss, in         *)
(* whatever sizes, does not exist, and no pixel comes out wrong.           *)
THEOREM PictureArrives == Spec => []OnlyKnownLosses
<1> HIDE DEF Pow2, MaxCode, Codes, AfterCodes
<1>1. TransferInv => OnlyKnownLosses
  <2> SUFFICES ASSUME TransferInv, phase = "loaded", NEW cell \in DOMAIN shown
               PROVE  \/ shown[cell] = image.pixel[cell]
                      \/ ShortInterlaced /\ cell[1] # 0
                      \/ LET n == CellsBefore(cell[1], cell[2]) - CellsBefore(load.y, load.x)
                         IN /\ shown[cell] = Blank
                            /\ n \in 0..Len(PixelsLeft)-1
                            /\ PixelsLeft[n + 1] = image.pixel[cell]
    BY DEF OnlyKnownLosses
  <2>1. /\ image \in Images /\ HasLoad(image, file, dec, load, shown)
        /\ load.at = "block" /\ file[load.next] = End
    BY Zenon DEF TransferInv, CoderInv, Stands
  <2>2. PICK m \in Nat : /\ Place(image)[m] = [y |-> load.y, pass |-> load.pass, x |-> load.x]
                         /\ shown = Picture(image, Place(image)[m])
                         /\ Rest(image, m, PixelsLeft)
    BY <2>1, AtTheTerminator
  <2>3. cell \in DOMAIN image.pixel
    BY <2>2 DEF Picture
  <2>4. \/ shown[cell] = image.pixel[cell]
        \/ Short(image) /\ cell[1] # 0
        \/ LET n == CellsBefore(cell[1], cell[2]) - CellsBefore(load.y, load.x)
           IN /\ shown[cell] = Blank
              /\ n \in 0..Len(PixelsLeft)-1
              /\ PixelsLeft[n + 1] = image.pixel[cell]
    BY <2>1, <2>2, <2>3, RestArrives
  <2> QED
    BY <2>4, Zenon DEF Short, ShortInterlaced
<1> QED
  BY <1>1, TransferAlways, PTL

-----------------------------------------------------------------------------
(* The type invariant.                                                     *)

(* m_strmap: a function, whatever was entered.                             *)
IsMap(map) == map = [p \in DOMAIN map |-> map[p]]

(* Going on to the next pixel leaves the table alone.                      *)
LEMMA AdvanceMap ==
  ASSUME NEW i, NEW t, CoderShape(t), NEW u, u = Advance(i, t)
  PROVE  u.strmap = t.strmap
<1>1. CASE u = [t EXCEPT !.bufferShift = @ - i.bpp]
  BY <1>1 DEF CoderShape
<1>2. CASE u = [t EXCEPT !.bufferPos = @ + 1, !.bufferShift = ByteBits - i.bpp]
  BY <1>2 DEF CoderShape
<1> QED
  BY <1>1, <1>2 DEF Advance

(* Learning a pair leaves a table.                                         *)
LEMMA LearnMap ==
  ASSUME NEW i, NEW t, CoderShape(t), NEW pair, NEW u, u = Learn(i, t, pair)
  PROVE  CoderShape(u) /\ IsMap(u.strmap)
<1> HIDE DEF Pow2, MaxCode
<1>1. PICK e : e = Enter(t, pair, t.nextCode = Pow2[t.codeSize])
  OBVIOUS
<1>2. /\ CoderShape(e)
      /\ e.strmap = [p \in DOMAIN t.strmap \union {pair} |-> IF p = pair THEN t.nextCode ELSE t.strmap[p]]
  BY <1>1, EnterFacts
<1>3. IsMap(e.strmap)
  <2>1. PICK m : m = e.strmap
    OBVIOUS
  <2>2. m = [p \in DOMAIN t.strmap \union {pair} |-> IF p = pair THEN t.nextCode ELSE t.strmap[p]]
    BY <1>2, <2>1, Zenon
  <2>3. m = [p \in DOMAIN m |-> m[p]]
    BY <2>2
  <2> QED
    BY <2>1, <2>3, Zenon DEF IsMap
<1>4. u = ClearWhenOut(i, e)
  BY <1>1 DEF Learn
<1>5. CASE e.nextCode = MaxCode
  <2>1. PICK c : c = PutCode(e, ClearCode(i))
    OBVIOUS
  <2>2. CoderShape(c)
    BY <1>2, <2>1, PutFacts, Zenon
  <2>3. u = ClearedCompressor(i, c)
    BY <1>4, <1>5, <2>1 DEF ClearWhenOut
  <2>4. CoderShape(u) /\ u.strmap = << >>
    <3>1. CoderShape(u)
      BY <2>2, <2>3, ClearFacts
    <3>2. u.strmap = << >>
      BY <2>2, <2>3, ClearFacts
    <3> QED
      BY <3>1, <3>2
  <2>5. << >> = [p \in DOMAIN << >> |-> << >>[p]]
    OBVIOUS
  <2> QED
    BY <2>4, <2>5 DEF IsMap
<1>6. CASE e.nextCode # MaxCode
  <2>1. u = e
    BY <1>4, <1>6 DEF ClearWhenOut
  <2> QED
    BY <1>2, <1>3, <2>1
<1> QED
  BY <1>5, <1>6

(* The coder's table stays one in every step.                              *)
LEMMA MapStep ==
  CoderInv /\ IsMap(enc.strmap) /\ [Next]_vars => IsMap(enc'.strmap)
<1> HIDE DEF Pow2, MaxCode, Codes
<1> SUFFICES ASSUME CoderInv, IsMap(enc.strmap), [Next]_vars PROVE IsMap(enc'.strmap)
  OBVIOUS
<1>0. CoderType(enc) /\ CoderShape(enc)
  BY Zenon DEF CoderInv, CoderOk, CoderType
<1>1. CASE FirstPixel
  <2>1. PICK r : r = [enc EXCEPT !.firstPixelPassed = TRUE, !.prefix = CurrentPixel]
    OBVIOUS
  <2>2. CoderShape(r) /\ r.strmap = enc.strmap /\ enc' = Advance(image, r)
    BY <1>0, <1>1, <2>1 DEF CoderShape, FirstPixel
  <2> QED
    BY <2>2, AdvanceMap, Zenon
<1>2. CASE ExtendPrefix
  <2>1. PICK x : x = enc.strmap[<<enc.prefix, CurrentPixel>>]
    OBVIOUS
  <2>2. PICK r : r = [enc EXCEPT !.prefix = x]
    OBVIOUS
  <2>3. CoderShape(r) /\ r.strmap = enc.strmap
    BY <1>0, <2>2 DEF CoderShape
  <2>4. enc' = Advance(image, r)
    BY <1>2, <2>1, <2>2 DEF ExtendPrefix
  <2> QED
    BY <2>3, <2>4, AdvanceMap, Zenon
<1>3. CASE EmitCode
  <2>1. PICK put : put = PutCode(enc, enc.prefix)
    OBVIOUS
  <2>2. PICK n : n = FullBytes(put, BlockLen - Len(save.buf))
    OBVIOUS
  <2>3. PICK d : d = DropBits(put, n * ByteBits)
    OBVIOUS
  <2>4. CoderShape(put)
    BY <1>0, <2>1, PutFacts, Zenon
  <2>5. CoderShape(d)
    BY <2>3, <2>4, DropFacts, Zenon
  <2>6. PICK l : l = Learn(image, d, <<enc.prefix, CurrentPixel>>)
    OBVIOUS
  <2>7. CoderShape(l) /\ IsMap(l.strmap)
    BY <2>5, <2>6, LearnMap, Zenon
  <2>8. PICK x : x = CurrentPixel
    OBVIOUS
  <2>9. PICK r : r = [l EXCEPT !.prefix = x]
    OBVIOUS
  <2>10. CoderShape(r) /\ r.strmap = l.strmap
    BY <2>7, <2>9 DEF CoderShape
  <2>11. enc' = Advance(image, r)
    <3>1. enc' = Advance(image, [l EXCEPT !.prefix = CurrentPixel])
      BY <1>3, <2>1, <2>2, <2>3, <2>6, Zenon DEF EmitCode
    <3> QED
      BY <2>8, <2>9, <3>1
  <2>12. enc'.strmap = r.strmap
    BY <2>10, <2>11, AdvanceMap
  <2> QED
    BY <2>7, <2>10, <2>12, Zenon
<1>4. CASE FinishLine
  <2>1. enc' = enc \/ enc' = FillBuffer(image, enc)
    BY <1>4 DEF FinishLine
  <2>2. FillBuffer(image, enc).strmap = enc.strmap
    BY <1>0 DEF FillBuffer, CoderShape
  <2> QED
    BY <2>1, <2>2, Zenon
<1>5. CASE enc' = enc
  BY <1>5, Zenon
<1>6. CASE FinishSave \/ OverrunLast
  <2>1. enc' = enc
    BY <1>6 DEF FinishSave, OverrunLast, saveVars
  <2> QED
    BY <2>1, Zenon
<1>7. CASE LoadStep
  <2>1. enc' = enc
    BY <1>7 DEF LoadStep, Open, ReadBlock, FinishLoad, TakeByte, EndOfBuffer, TakeEndCode, TakeClearCode,
                TakeCode, ShowPixel, CallAgain, saveVars
  <2> QED
    BY <2>1, Zenon
<1>8. CASE UNCHANGED vars
  <2>1. enc' = enc
    BY <1>8 DEF vars, saveVars
  <2> QED
    BY <2>1, Zenon
<1> QED
  BY <1>1, <1>2, <1>3, <1>4, <1>6, <1>7, <1>8, Zenon DEF Next, SaveStep

(* The coder's table maps pairs to codes, always.                          *)
LEMMA MapAlways == Spec => []IsMap(enc.strmap)
<1>1. Init => IsMap(enc.strmap)
  <2> SUFFICES ASSUME Init PROVE IsMap(enc.strmap)
    OBVIOUS
  <2>1. image \in Images /\ enc = StartedCompressor(image)
    BY DEF Init, SaveInit
  <2>2. enc.strmap = << >>
    BY <2>1, StartFields, Zenon
  <2>3. << >> = [p \in DOMAIN << >> |-> << >>[p]]
    OBVIOUS
  <2> QED
    BY <2>2, <2>3 DEF IsMap
<1>2. CoderInv /\ IsMap(enc.strmap) /\ [Next]_vars => IsMap(enc.strmap)'
  BY MapStep
<1> QED
  BY <1>1, <1>2, CoderAlways, PTL DEF Spec

(* What TypeOK says of the coder and the file.                             *)
CoderTypes ==
  /\ phase \in {"saving", "overrun", "saved", "refused", "loading", "loaded"}
  /\ image \in Images
  /\ enc.prefix \in Codes /\ enc.nextCode \in Codes
  /\ enc.codeSize \in 1..CodeBits
  /\ enc.strmap \in [DOMAIN enc.strmap -> Codes]
  /\ enc.partial \in Nat /\ enc.partialSize \in Nat
  /\ enc.bufferPos \in 0..LineBytes(image)
  /\ enc.bufferShift \in 0..ByteBits-1
  /\ save.y \in Nat /\ save.pass \in 0..4 /\ save.buf \in Seq(Bytes)
  /\ full \in BOOLEAN
  /\ \A k \in 1..Len(file) : file[k].bytes \in Seq(Bytes)

(* The coder's part of the type invariant.                                 *)
LEMMA CoderTyped ==
  ASSUME CoderInv, IsMap(enc.strmap)
  PROVE  CoderTypes
<1> HIDE DEF Pow2, MaxCode
<1>1. /\ phase \in {"saving", "overrun", "saved", "refused", "loading", "loaded"} /\ image \in Images /\ full \in BOOLEAN
      /\ CoderType(enc) /\ TableInv(image, enc) /\ save.buf \in Seq(Bytes)
      /\ PlaceInv(image, enc) /\ RowInv(image, save, enc)
      /\ FileOk(file, phase, full)
  BY Zenon DEF CoderInv, CoderOk
<1>2. /\ ClearCode(image) \in Nat /\ EndCode(image) = ClearCode(image) + 1 /\ MaxCode \in Nat
      /\ MinCodeSize(image) \in Nat /\ CodeBits \in Nat
  BY <1>1, ImageFacts
<1>3. /\ enc.nextCode \in EndCode(image) + 1 .. MaxCode - 1
      /\ enc.codeSize \in MinCodeSize(image) + 1 .. CodeBits
      /\ enc.prefix < enc.nextCode /\ enc.prefix \in Nat
      /\ \A p \in DOMAIN enc.strmap : enc.strmap[p] \in EndCode(image) + 1 .. enc.nextCode - 1
  BY <1>1, Zenon DEF TableInv, CoderType
<1>4. enc.prefix \in Codes /\ enc.nextCode \in Codes /\ enc.codeSize \in 1..CodeBits
  BY <1>2, <1>3 DEF Codes
<1>5. enc.strmap \in [DOMAIN enc.strmap -> Codes]
  <2>1. PICK m : m = enc.strmap
    OBVIOUS
  <2>2. m = [p \in DOMAIN m |-> m[p]]
    BY <2>1, Zenon DEF IsMap
  <2>3. ASSUME NEW p \in DOMAIN m PROVE m[p] \in Codes
    <3>1. enc.strmap[p] \in EndCode(image) + 1 .. enc.nextCode - 1
      BY <1>3, <2>1, Zenon
    <3>2. PICK x : x = enc.strmap[p]
      OBVIOUS
    <3>3. x \in Codes
      BY <1>2, <1>3, <3>1, <3>2 DEF Codes
    <3> QED
      BY <2>1, <3>2, <3>3, Zenon
  <2>4. m \in [DOMAIN m -> Codes]
    BY <2>2, <2>3
  <2> QED
    BY <2>1, <2>4, Zenon
<1>6. enc.partial \in Nat /\ enc.partialSize \in Nat
  BY <1>1 DEF CoderType
<1>7. enc.bufferPos \in 0..LineBytes(image) /\ enc.bufferShift \in 0..ByteBits-1
  <2>1. PICK q, z : Units(image, q, z)
    BY <1>1, PixelUnits
  <2>2. /\ q \in Nat \ {0} /\ ByteBits = q * image.bpp /\ ByteBits \div image.bpp = q
        /\ LineBytes(image) \in Nat
    BY <2>1, Zenon DEF Units
  <2>3. PICK s \in Nat : enc.bufferShift = s * image.bpp /\ s < ByteBits \div image.bpp
    BY <1>1, Zenon DEF PlaceInv
  <2>4. enc.bufferPos <= LineBytes(image) /\ enc.bufferPos \in Nat /\ enc.bufferShift \in Nat
    BY <1>1, Zenon DEF PlaceInv, CoderType
  <2>5. PICK b, Q \in Nat : b = image.bpp /\ Q = q /\ b > 0
    <3>1. image.bpp \in Nat \ {0}
      BY <1>1, ImageFacts
    <3>2. image.bpp \in Nat /\ image.bpp > 0 /\ q \in Nat
      BY <2>2, <3>1
    <3> QED
      BY <3>2, Zenon
  <2>6. PICK r \in Nat : Q = s + 1 + r
    <3>1. s < Q
      BY <2>2, <2>3, <2>5, Zenon
    <3>2. Q - (s + 1) \in Nat /\ Q = s + 1 + (Q - (s + 1))
      BY <3>1
    <3> QED
      BY <3>2
  <2>7. Q * b = s * b + b + r * b /\ s * b \in Nat /\ r * b \in Nat
    BY <2>6
  <2>8. s * b < Q * b
    BY <2>5, <2>7
  <2>9. enc.bufferShift < ByteBits
    BY <2>2, <2>3, <2>5, <2>8, Zenon
  <2> QED
    BY <2>2, <2>4, <2>9, ByteWidth
<1>8. save.y \in Nat /\ save.pass \in 0..4
  BY <1>1, Zenon DEF RowInv
<1>9. \A k \in 1..Len(file) : file[k].bytes \in Seq(Bytes)
  <2>1. file \in Seq([len : 0..BlockLen, bytes : Seq(Bytes)])
    BY <1>1, Zenon DEF FileOk
  <2>2. ASSUME NEW k \in 1..Len(file) PROVE file[k].bytes \in Seq(Bytes)
    <3>0. file \in Seq(Blocks)
      BY <2>1, Zenon DEF Blocks
    <3>1. PICK b \in Blocks : b = file[k]
      BY <2>2, <3>0
    <3>2. b.bytes \in Seq(Bytes)
      BY DEF Blocks
    <3> QED
      BY <3>1, <3>2, Zenon
  <2> QED
    BY <2>2
<1> QED
  BY <1>1, <1>4, <1>5, <1>6, <1>7, <1>8, <1>9, Zenon DEF CoderTypes

(* What it says of the decoder.                                            *)
DecoderTypes(i, t, l) ==
  /\ t.nextCode \in 0..MaxCode /\ t.codeSize \in 1..CodeBits
  /\ t.oldCode \in 0..MaxCode
  /\ \A c \in Codes : Len(t.strings[c]) <= OutLen
  /\ t.bufferPos \in 0..Len(t.buffer)
  /\ l.at \in {"block", "byte", "codes", "show"}
  /\ Len(l.buf) <= OutLen
  /\ l.y \in Nat /\ l.x \in 0..i.width-1

(* The decoder's part of it, during a load.                                *)
LEMMA LoadTyped ==
  ASSUME NEW i \in Images, NEW f, NEW t, NEW l, NEW sh, HasLoad(i, f, t, l, sh)
  PROVE  DecoderTypes(i, t, l)
<1> HIDE DEF Pow2, MaxCode, Codes
<1>1. PICK w, v, T, k, m : T \in Nat /\ k \in Nat /\ m \in Nat /\ LoadTrace(i, f, w, v, T, k, m, t, l, sh)
  BY Zenon DEF HasLoad
<1>2. Reader(f, t, l) /\ Shows(i, w, k, m, t, l, sh) /\ DecoderRange(t)
  BY <1>1, Zenon DEF LoadTrace
<1>3. /\ t.nextCode \in 0..MaxCode /\ t.codeSize \in 1..CodeBits /\ t.oldCode \in 0..MaxCode
      /\ \A c \in Codes : Len(t.strings[c]) <= OutLen
  BY <1>2, Zenon DEF DecoderRange
<1>4. t.bufferPos \in 0..Len(t.buffer) /\ l.at \in {"block", "byte", "codes", "show"}
  BY <1>2, Zenon DEF Reader
<1>5. Len(l.buf) <= OutLen /\ Place(i)[m] = [y |-> l.y, pass |-> l.pass, x |-> l.x]
  BY <1>2, Zenon DEF Shows
<1>6. l.y \in Nat /\ l.x \in 0..i.width-1
  <2>1. PICK p \in PlaceSet(i) : p = Place(i)[m]
    BY <1>1, PlaceFunction
  <2>2. p.y \in Nat /\ p.x \in Nat /\ p.x < i.width
    BY PlaceFacts
  <2>3. p = [y |-> l.y, pass |-> l.pass, x |-> l.x]
    BY <1>5, <2>1, Zenon
  <2>4. p.y = l.y /\ p.x = l.x
    BY <2>3
  <2>5. i.width \in Nat
    BY ImageFacts
  <2> QED
    BY <2>2, <2>4, <2>5
<1> QED
  BY <1>3, <1>4, <1>5, <1>6, Zenon DEF DecoderTypes

(* The decoder's part of it, before one.                                   *)
LEMMA UntouchedTyped ==
  ASSUME NEW i \in Images, NEW t, NEW l, NEW sh, Untouched(i, t, l, sh)
  PROVE  DecoderTypes(i, t, l)
<1> HIDE DEF Pow2, MaxCode, Codes
<1>1. t = StartedDecompressor(i)
      /\ l = [next |-> 1, at |-> "block", buf |-> << >>, x |-> 0, y |-> 0, pass |-> 0]
  BY Zenon DEF Untouched
<1>2. /\ t.buffer = << >> /\ t.bufferPos = 0
      /\ t.strings = [c \in Codes |-> IF c < ClearCode(i) THEN <<c>> ELSE << >>]
      /\ t.nextCode = EndCode(i) + 1 /\ t.codeSize = MinCodeSize(i) + 1 /\ t.oldCode = None
  BY <1>1, StartDecoder
<1>3. /\ l.at \in {"block", "byte", "codes", "show"} /\ l.buf = << >> /\ l.y = 0 /\ l.x = 0
  BY <1>1
<1>4. Len(<< >>) = 0 /\ OutLen \in Nat /\ i.width \in Nat /\ i.width > 0
  BY OutAssumption, ImageFacts
<1>5. t.nextCode \in 0..MaxCode /\ t.codeSize \in 1..CodeBits /\ t.oldCode \in 0..MaxCode
  BY <1>2, ImageFacts DEF None
<1>6. \A c \in Codes : Len(t.strings[c]) <= OutLen
  <2>1. OutLen >= 1
    <3>1. MaxCode \in Nat /\ MaxCode >= 1
      BY ImageFacts
    <3> QED
      BY <3>1, OutAssumption DEF MaxCode
  <2>2. PICK w : w.from[0] = 0 /\ w.n = 0
    <3>1. PICK w : CodesOk(i, w)
      BY NoCodes, Zenon
    <3>2. w.from[0] = 0
      BY <3>1, Zenon DEF CodesOk
    <3> QED
      BY <3>2, NoCodes, Zenon DEF CodesOk
  <2>3. \A c \in Codes : Len(t.strings[c]) <= 1
    BY <1>2, <2>2, FirstStrings
  <2>4. ASSUME NEW c \in Codes PROVE Len(t.strings[c]) <= OutLen
    <3>1. t.strings[c] = IF c < ClearCode(i) THEN <<c>> ELSE << >>
      BY <1>2, Zenon
    <3>2. Len(t.strings[c]) \in Nat
      <4>1. Len(<<c>>) = 1
        OBVIOUS
      <4> QED
        BY <1>4, <3>1, <4>1
    <3> QED
      BY <2>1, <2>3, <3>2, <1>4
  <2> QED
    BY <2>4
<1>7. t.bufferPos \in 0..Len(t.buffer) /\ Len(l.buf) <= OutLen /\ l.y \in Nat /\ l.x \in 0..i.width-1
  BY <1>2, <1>3, <1>4
<1> QED
  BY <1>3, <1>5, <1>6, <1>7, Zenon DEF DecoderTypes

(* Every variable keeps its type: with what CoderInv says of the coder     *)
(* that is above all that the decoder's strings fit its buffer of 4096     *)
(* bytes, that the codes it knows have at most 12 bits, and that Load      *)
(* stays in the columns of the bitmap (the objects of StringTable, and the *)
(* locals of Save and Load, PluginGIF.cpp).                                *)
THEOREM CodecTypes == Spec => []TypeOK
<1> HIDE DEF Pow2, MaxCode, Codes
<1>1. TransferInv /\ IsMap(enc.strmap) => TypeOK
  <2> SUFFICES ASSUME TransferInv, IsMap(enc.strmap) PROVE TypeOK
    OBVIOUS
  <2>1. CoderInv /\ image \in Images
        /\ phase \in {"saving", "overrun", "saved", "refused", "loading", "loaded"}
    BY Zenon DEF TransferInv, CoderInv
  <2>2. CoderTypes
    BY <2>1, CoderTyped
  <2>3. DecoderTypes(image, dec, load)
    <3>1. CASE phase \in {"saving", "overrun", "saved", "refused"}
      <4>1. Untouched(image, dec, load, shown)
        BY <3>1, Zenon DEF TransferInv, Stands
      <4> QED
        BY <2>1, <4>1, UntouchedTyped, Zenon
    <3>2. CASE phase \in {"loading", "loaded"}
      <4>1. HasLoad(image, file, dec, load, shown)
        BY <3>2, Zenon DEF TransferInv, Stands
      <4> QED
        BY <2>1, <4>1, LoadTyped, Zenon
    <3> QED
      BY <2>1, <3>1, <3>2
  <2> QED
    BY <2>2, <2>3, Zenon DEF TypeOK, CoderTypes, DecoderTypes
<1> QED
  BY <1>1, TransferAlways, MapAlways, PTL

-----------------------------------------------------------------------------
(* How many bits the decoder holds.                                        *)

(* What m_partial of the decoder may hold while it is not done: less than  *)
(* a byte more than a code, but                                            *)
(*   - on entry another byte is taken, whatever is there: then nothing was *)
(*     decoded by this call, and the code that is there is no clear code;  *)
(*   - the codes that follow keep up with that: of two bytes each takes at *)
(*     least a bit and returns no more pixels than codes have numbers.     *)
Waits(i, t, l) ==
  IF l.at # "codes"
  THEN /\ t.partialSize < t.codeSize + ByteBits
       /\ t.partialSize >= t.codeSize => LowCode(t) # ClearCode(i)
  ELSE \/ t.partialSize < t.codeSize + ByteBits
       \/ l.buf = << >> /\ t.partialSize < t.codeSize + 2 * ByteBits /\ LowCode(t) # ClearCode(i)
       \/ /\ t.oldCode # None /\ t.partialSize < 2 * ByteBits
          /\ Len(l.buf) <= (2 * ByteBits - t.partialSize) * Pow2[t.codeSize]
Waited(i, t, l) ==
  /\ t.partialSize < t.codeSize + 2 * ByteBits
  /\ t.done = FALSE => Waits(i, t, l)

(* Nothing the decoder holds has changed, and it does not decode.          *)
LEMMA WaitsStill ==
  ASSUME NEW i, NEW t, NEW l, Waited(i, t, l), l.at # "codes", NEW r, r.at # "codes",
         NEW u, u.partial = t.partial, u.partialSize = t.partialSize, u.codeSize = t.codeSize,
         u.done = FALSE => t.done = FALSE
  PROVE  Waited(i, u, r)
<1> HIDE DEF Pow2
<1>1. LowCode(u) = LowCode(t)
  BY Zenon DEF LowCode
<1>2. u.done = FALSE => Waits(i, u, r)
  BY <1>1, Zenon DEF Waited, Waits
<1>3. u.partialSize < u.codeSize + 2 * ByteBits
  BY Zenon DEF Waited
<1> QED
  BY <1>2, <1>3, Zenon DEF Waited

(* No whole code is left, and less than a byte more than one.              *)
LEMMA WaitsBelow ==
  ASSUME NEW i, NEW t, NEW l, t.partialSize \in Nat, t.codeSize \in Nat, t.partialSize < t.codeSize
  PROVE  Waited(i, t, l)
<1> HIDE DEF Pow2
<1>1. /\ t.partialSize < t.codeSize + ByteBits /\ t.partialSize < t.codeSize + 2 * ByteBits
      /\ ~(t.partialSize >= t.codeSize)
  BY ByteWidth
<1> QED
  BY <1>1, Zenon DEF Waited, Waits

(* Less than a byte more than a code, in the middle of a call.             *)
LEMMA WaitsLittle ==
  ASSUME NEW i, NEW t, NEW l, l.at = "codes", t.partialSize \in Nat, t.codeSize \in Nat,
         t.partialSize < t.codeSize + ByteBits
  PROVE  Waited(i, t, l)
<1> HIDE DEF Pow2
<1>1. t.partialSize < t.codeSize + 2 * ByteBits
  BY ByteWidth
<1> QED
  BY <1>1, Zenon DEF Waited, Waits

(* A byte taken when there was no whole code, or on entry.                 *)
LEMMA ByteWaits ==
  ASSUME NEW i, NEW t, NEW l, Waited(i, t, l), DecoderRange(t), t.done = FALSE,
         (l.at = "byte" /\ l.buf = << >>) \/ (l.at = "codes" /\ t.partialSize < t.codeSize),
         NEW b \in Nat, NEW u, DecoderShape(u), u.partial = t.partial + b * Pow2[t.partialSize],
         u.partialSize = t.partialSize + ByteBits, u.codeSize = t.codeSize,
         NEW r, r.at = "codes", r.buf = l.buf
  PROVE  Waited(i, u, r)
<1> HIDE DEF Pow2
<1>1. t.partial \in Nat /\ t.partialSize \in Nat /\ t.codeSize \in Nat
  BY WidthAssumption DEF DecoderRange
<1>2. CASE t.partialSize < t.codeSize
  <2>1. u.partialSize \in Nat /\ u.codeSize \in Nat /\ u.partialSize < u.codeSize + ByteBits
    BY <1>1, <1>2, ByteWidth
  <2> QED
    BY <2>1, WaitsLittle
<1>3. CASE ~(t.partialSize < t.codeSize)
  <2>1. t.codeSize <= t.partialSize /\ l.at = "byte" /\ l.buf = << >>
    BY <1>1, <1>3
  <2>2. t.partialSize < t.codeSize + ByteBits /\ LowCode(t) # ClearCode(i)
    BY <2>1 DEF Waited, Waits
  <2>3. PICK x, s, c \in Nat : x = t.partial /\ s = t.partialSize /\ c = t.codeSize
    BY <1>1
  <2>4. (x + b * Pow2[s]) % Pow2[c] = x % Pow2[c]
    <3>1. 0 \in Nat /\ 0 + c <= s
      BY <2>1, <2>3
    <3>2. Bits(x + b * Pow2[s], 0, c) = Bits(x, 0, c)
      BY <3>1, BitsBelow
    <3>3. Pow2[0] = 1
      BY PowerEquations
    <3>4. x + b * Pow2[s] \in Nat
      BY <3>1, BitsBelow
    <3>5. \A y \in Nat : y \div 1 = y
      BY DividedOnce
    <3>6. Bits(x, 0, c) = x % Pow2[c]
      BY <3>3, <3>5, Zenon DEF Bits
    <3>7. Bits(x + b * Pow2[s], 0, c) = (x + b * Pow2[s]) % Pow2[c]
      BY <3>3, <3>4, <3>5, Zenon DEF Bits
    <3> QED
      BY <3>2, <3>6, <3>7, Zenon
  <2>5. LowCode(u) = LowCode(t)
    BY <2>3, <2>4, Zenon DEF LowCode
  <2>6. u.partialSize < u.codeSize + 2 * ByteBits
    BY <1>1, <2>2, ByteWidth
  <2>7. Waits(i, u, r)
    BY <2>1, <2>2, <2>5, <2>6, Zenon DEF Waits
  <2> QED
    BY <2>6, <2>7, Zenon DEF Waited
<1> QED
  BY <1>2, <1>3

(* A clear code that comes after other codes has the length of the longest. *)
LEMMA FullTable ==
  ASSUME NEW i \in Images, NEW w, CodesOk(i, w), NEW k \in Nat, k < w.n, w.code[k] = ClearCode(i),
         NEW str, NEW old, Strings(i, w, k, str, old), old # None,
         NEW s \in Nat, SizeFor(i, Upto(i, w, k), s)
  PROVE  s = CodeBits
<1> HIDE DEF Pow2, MaxCode
<1>1. TraceType(w) /\ w.from[0] = 0 /\ \A q \in 0..w.n-1 : CodeOk(i, w, q)
  BY Zenon DEF CodesOk
<1>2. w.n \in Nat /\ w.from \in [Nat -> Nat]
  BY <1>1 DEF TraceType
<1>3. CodeOk(i, w, k)
  <2>1. k \in 0..w.n-1
    BY <1>2
  <2> QED
    BY <1>1, <2>1, Zenon
<1>4. w.from[k] # k
  BY Zenon DEF Strings
<1>5. k # 0
  BY <1>1, <1>4, Zenon
<1>6. Number(i, w, k, k) = MaxCode
  BY <1>3, <1>5, Zenon DEF CodeOk, Meant
<1>7. PICK F, E, M \in Nat : F = w.from[k] /\ E = EndCode(i) /\ M = MaxCode
  BY <1>2, ImageFacts
<1>8. Upto(i, w, k) = M - 1 /\ M > 1
  <2>1. E + 1 + (k - F) = M
    BY <1>6, <1>7, Zenon DEF Number
  <2>2. Upto(i, w, k) = E + (k - F)
    BY <1>4, <1>7, Zenon DEF Upto
  <2>3. E + (k - F) = M - 1
    BY <2>1
  <2>4. M > 1
    BY <1>7, ImageFacts
  <2> QED
    BY <2>2, <2>3, <2>4, Zenon
<1>9. s <= CodeBits /\ M - 1 < Pow2[s]
  <2>1. s \in MinCodeSize(i) + 1 .. CodeBits /\ Upto(i, w, k) < Pow2[s]
    BY Zenon DEF SizeFor
  <2>2. s <= CodeBits
    BY <2>1, ImageFacts
  <2> QED
    BY <1>8, <2>1, <2>2, Zenon
<1>10. CASE s < CodeBits
  <2>1. Pow2[s + 1] <= Pow2[CodeBits]
    <3>1. s + 1 \in Nat /\ s + 1 <= CodeBits /\ CodeBits \in Nat
      BY <1>10, ByteWidth
    <3> QED
      BY <3>1, PowerGrows
  <2>2. Pow2[s + 1] = 2 * Pow2[s] /\ Pow2[s] \in Nat
    BY PowerEquations
  <2>3. M = Pow2[CodeBits]
    BY <1>7 DEF MaxCode
  <2>4. PICK x, y \in Nat : x = Pow2[s] /\ y = Pow2[s + 1]
    BY <2>2
  <2>5. y = 2 * x /\ y <= M /\ M - 1 < x /\ M > 1
    BY <1>8, <1>9, <2>1, <2>2, <2>3, <2>4, Zenon
  <2> QED
    BY <2>5
<1> QED
  BY <1>9, <1>10, ByteWidth

(* A string is no longer than there are numbers of codes.                  *)
LEMMA StringShort ==
  ASSUME NEW i \in Images, NEW w, NEW k \in Nat, NEW F \in Nat, NEW L \in Nat, CodeFacts(i, w, k, F, L),
         NEW s \in Nat, SizeFor(i, Upto(i, w, k), s)
  PROVE  L <= Pow2[s]
<1> HIDE DEF Pow2, MaxCode
<1>1. F = w.from[k] /\ F <= k /\ L <= (k - F) + 1
  BY Zenon DEF CodeFacts
<1>2. PICK E, x \in Nat : E = EndCode(i) /\ x = Pow2[s] /\ E > 1
  BY ImageFacts, PowerEquations, SMTT(30)
<1>3. Upto(i, w, k) < x
  BY <1>2, Zenon DEF SizeFor
<1>4. CASE F = k
  <2>1. Upto(i, w, k) = E + 1
    BY <1>1, <1>2, <1>4, Zenon DEF Upto
  <2>2. E + 1 < x
    BY <1>3, <2>1, Zenon
  <2>3. L <= x
    BY <1>1, <1>4, <2>2
  <2> QED
    BY <1>2, <2>3, Zenon
<1>5. CASE F # k
  <2>1. Upto(i, w, k) = E + (k - F)
    BY <1>1, <1>2, <1>5, Zenon DEF Upto
  <2>2. E + (k - F) < x
    BY <1>3, <2>1, Zenon
  <2>3. L <= x
    BY <1>1, <1>2, <2>2
  <2> QED
    BY <1>2, <2>3, Zenon
<1> QED
  BY <1>4, <1>5

(* The difference of two numbers in order is one.                          *)
LEMMA WholeDifference ==
  ASSUME NEW p \in Nat, NEW P \in Nat, p <= P
  PROVE  \E q \in Nat : P = p + q
<1>1. P - p \in Nat /\ P = p + (P - p)
  OBVIOUS
<1> QED
  BY <1>1

(* The bits of a code leave: what Waits says goes on to hold.              *)
LEMMA CodeWaits ==
  ASSUME NEW i \in Images, NEW t, NEW l, Waits(i, t, l), l.at = "codes",
         t.partialSize \in Nat, t.codeSize \in Nat, t.codeSize > 0, t.partialSize >= t.codeSize,
         NEW L \in Nat, L <= Pow2[t.codeSize], Len(l.buf) \in Nat,
         NEW u, u.partialSize = t.partialSize - t.codeSize, u.oldCode # None,
         u.codeSize \in Nat, u.codeSize >= t.codeSize,
         NEW r, r.at = "codes", Len(r.buf) = Len(l.buf) + L
  PROVE  Waited(i, u, r)
<1> HIDE DEF Pow2, None
<1>1. PICK z, s, S, n, B \in Nat : /\ z = t.partialSize /\ s = t.codeSize /\ S = u.codeSize
                                   /\ n = Len(l.buf) /\ B = ByteBits /\ B > 1
  BY WidthAssumption
<1>2. PICK y \in Nat : y = z - s /\ z = y + s /\ s > 0 /\ S >= s
  BY <1>1
<1>3. u.partialSize = y /\ Len(r.buf) = n + L
  BY <1>1, <1>2, Zenon
<1>4. CASE z < s + B
  <2>1. y < S + B
    BY <1>2, <1>4
  <2>2. u.partialSize \in Nat /\ u.partialSize < u.codeSize + ByteBits
    BY <1>1, <1>3, <2>1, Zenon
  <2> QED
    BY <2>2, WaitsLittle
<1>5. CASE ~(z < s + B)
  <2>1. PICK p, P \in Nat : p = Pow2[s] /\ P = Pow2[S] /\ p <= P
    <3>1. Pow2[s] \in Nat /\ Pow2[S] \in Nat
      BY PowerEquations
    <3>2. Pow2[s] <= Pow2[S]
      BY <1>2, PowerGrows
    <3> QED
      BY <3>1, <3>2
  <2>2. L <= p
    BY <1>1, <2>1, Zenon
  <2>3. y < 2 * B /\ n + L <= (2 * B - y) * P
    <3>1. CASE l.buf = << >> /\ z < s + 2 * B
      <4>1. n = 0
        <5>1. Len(<< >>) = 0
          OBVIOUS
        <5> QED
          BY <1>1, <3>1, <5>1, Zenon
      <4>2. y < 2 * B
        BY <1>2, <3>1
      <4>3. PICK e \in Nat : 2 * B - y = e + 1
        <5>1. (2 * B - y) - 1 \in Nat /\ 2 * B - y = ((2 * B - y) - 1) + 1
          BY <4>2
        <5> QED
          BY <5>1
      <4>4. e * P \in Nat /\ (e + 1) * P = e * P + P
        OBVIOUS
      <4>5. n + L <= e * P + P
        <5>1. PICK a \in Nat : a = e * P
          BY <4>4
        <5>2. n + L <= a + P
          BY <2>1, <2>2, <4>1
        <5> QED
          BY <5>1, <5>2, Zenon
      <4> QED
        BY <4>2, <4>3, <4>4, <4>5
    <3>2. CASE z < 2 * B /\ n <= (2 * B - z) * p
      <4>1. y < 2 * B
        BY <1>2, <3>2
      <4>2. PICK e, d \in Nat : e = 2 * B - z /\ s = d + 1 /\ 2 * B - y = e + (d + 1)
        <5>1. 2 * B - z \in Nat /\ s - 1 \in Nat /\ s = (s - 1) + 1 /\ 2 * B - y = (2 * B - z) + ((s - 1) + 1)
          BY <1>2, <3>2
        <5> QED
          BY <5>1
      <4>3. PICK a, b \in Nat : a = e * P /\ b = d * P
        OBVIOUS
      <4>4. (e + (d + 1)) * P = a + b + P
        BY <4>3
      <4>5. PICK g, h \in Nat : g = e * p /\ a = g + h
        <5>1. PICK q \in Nat : P = p + q
          BY <2>1, WholeDifference
        <5>2. e * P = e * p + e * q /\ e * p \in Nat /\ e * q \in Nat
          BY <5>1
        <5> QED
          BY <4>3, <5>2, Zenon
      <4>6. n <= g
        BY <3>2, <4>2, <4>5, Zenon
      <4>8. n + L <= a + b + P
        <5>1. L <= p /\ p <= P /\ n <= g /\ a = g + h
          BY <2>1, <2>2, <4>5, <4>6, Zenon
        <5> HIDE <1>1, <1>2, <1>3
        <5> QED
          BY <5>1
      <4> QED
        BY <4>1, <4>2, <4>4, <4>8
    <3>3. \/ l.buf = << >> /\ z < s + 2 * B
          \/ z < 2 * B /\ n <= (2 * B - z) * p
      BY <1>1, <1>5, <2>1, Zenon DEF Waits
    <3> QED
      BY <3>1, <3>2, <3>3, Zenon
  <2>4. u.partialSize < 2 * ByteBits /\ Len(r.buf) <= (2 * ByteBits - u.partialSize) * Pow2[u.codeSize]
    BY <1>1, <1>3, <2>1, <2>3, Zenon
  <2>5. Waits(i, u, r)
    BY <2>4, Zenon DEF Waits
  <2>6. u.partialSize < u.codeSize + 2 * ByteBits
    <3>1. y < S + 2 * B
      BY <2>3
    <3> QED
      BY <1>1, <1>3, <3>1, Zenon
  <2> QED
    BY <2>5, <2>6, Zenon DEF Waited
<1> QED
  BY <1>4, <1>5

(* A number is less than its power of two.                                 *)
LEMMA PowerAbove ==
  ASSUME NEW a \in Nat
  PROVE  a + 1 <= Pow2[a]
<1> HIDE DEF Pow2
<1> DEFINE S == {n \in Nat : n + 1 <= Pow2[n]}
<1>1. 0 \in S
  BY PowerEquations
<1>2. ASSUME NEW n \in Nat, n \in S PROVE n + 1 \in S
  <2>1. Pow2[n + 1] = 2 * Pow2[n] /\ Pow2[n] \in Nat /\ n + 1 <= Pow2[n]
    BY <1>2, PowerEquations
  <2> QED
    BY <2>1
<1> HIDE DEF S
<1>3. Nat \subseteq S
  BY <1>1, <1>2, SetInduction
<1> QED
  BY <1>3 DEF S

(* A code whose string finds no room in the array: the codes before it     *)
(* have filled the array, and taken all of a byte.                         *)
LEMMA NoRoomWaits ==
  ASSUME NEW i \in Images, NEW t, NEW l, Waits(i, t, l), l.at = "codes",
         t.partialSize \in Nat, t.codeSize \in Nat, t.codeSize > 0, t.codeSize <= CodeBits,
         NEW L \in Nat, L <= Pow2[t.codeSize], Len(l.buf) \in Nat, ~(L <= OutLen - Len(l.buf))
  PROVE  t.partialSize < t.codeSize + ByteBits
<1> HIDE DEF Pow2, None
<1>1. PICK z, s, n, B, C \in Nat : /\ z = t.partialSize /\ s = t.codeSize
                                   /\ n = Len(l.buf) /\ B = ByteBits /\ B > 1 /\ C = CodeBits /\ B < C
  BY WidthAssumption
<1>2. PICK p, R, O \in Nat : p = Pow2[s] /\ R = Pow2[C] /\ O = OutLen /\ R <= O /\ p <= R /\ L <= p /\ n + L > O
  <2>1. Pow2[s] \in Nat /\ Pow2[C] \in Nat /\ Pow2[s] <= Pow2[C]
    <3>1. s <= C
      BY <1>1, Zenon
    <3> QED
      BY <3>1, PowerEquations, PowerGrows
  <2>2. OutLen \in Nat /\ Pow2[C] <= OutLen
    BY <1>1, <2>1, OutAssumption
  <2>3. L <= Pow2[s] /\ n + L > OutLen
    BY <1>1, <2>2
  <2> QED
    BY <2>1, <2>2, <2>3, Zenon
<1>3. CASE l.buf = << >>
  <2>1. n = 0
    <3>1. Len(<< >>) = 0
      OBVIOUS
    <3> QED
      BY <1>1, <1>3, <3>1, Zenon
  <2> QED
    BY <1>2, <2>1
<1>4. CASE z < 2 * B /\ n <= (2 * B - z) * p
  <2>1. ASSUME ~(z < s + B) PROVE FALSE
    <3>1. PICK D, x \in Nat : B = s + D /\ z = s + B + x
      <4>1. z - (s + B) \in Nat /\ z = s + B + (z - (s + B)) /\ B - s \in Nat /\ B = s + (B - s)
        BY <1>4, <2>1
      <4> QED
        BY <4>1
    <3>2. 2 * B - z \in Nat /\ 2 * B - z <= D
      BY <1>4, <3>1
    <3>3. PICK e, y \in Nat : e = 2 * B - z /\ D = e + y
      <4>1. D - (2 * B - z) \in Nat /\ D = (2 * B - z) + (D - (2 * B - z))
        BY <3>2
      <4> QED
        BY <3>2, <4>1
    <3>4. PICK d, g, h, q \in Nat : d = Pow2[D] /\ D + 1 + q = d /\ g = e * p /\ h = y * p
      <4>1. Pow2[D] \in Nat /\ D + 1 <= Pow2[D] /\ e * p \in Nat /\ y * p \in Nat
        <5>1. Pow2[D] \in Nat
          BY PowerEquations
        <5>2. D + 1 <= Pow2[D]
          BY PowerAbove
        <5>3. e * p \in Nat /\ y * p \in Nat
          OBVIOUS
        <5> QED
          BY <5>1, <5>2, <5>3, Zenon
      <4>2. Pow2[D] - (D + 1) \in Nat /\ D + 1 + (Pow2[D] - (D + 1)) = Pow2[D]
        BY <4>1
      <4> QED
        BY <4>1, <4>2
    <3>5. PICK m \in Nat : d * p = g + h + p + m
      <4>1. (D + 1 + q) * p = e * p + y * p + p + q * p /\ q * p \in Nat
        BY <3>3
      <4> QED
        BY <3>4, <4>1
    <3>6. d * p <= R
      <4>1. Pow2[s + D] = Pow2[s] * Pow2[D]
        BY PowerSum
      <4>2. Pow2[B] <= Pow2[C] /\ Pow2[B] \in Nat
        <5>1. B \in Nat /\ C \in Nat /\ B <= C
          BY <1>1
        <5> HIDE <1>1, <1>2, <1>4
        <5> QED
          BY <5>1, PowerGrows, PowerEquations
      <4>3. p * d = d * p
        OBVIOUS
      <4> QED
        BY <1>2, <3>1, <3>4, <4>1, <4>2, <4>3, Zenon
    <3>7. n <= g
      BY <1>4, <3>3, <3>4, Zenon
    <3>8. g + h + p + m <= R
      BY <3>5, <3>6, Zenon
    <3>9. R <= O /\ L <= p /\ n + L > O
      BY <1>2, Zenon
    <3> HIDE <1>1, <1>2, <1>4
    <3> QED
      BY <3>7, <3>8, <3>9
  <2> QED
    BY <1>1, <2>1, Zenon
<1> QED
  BY <1>1, <1>2, <1>3, <1>4, Zenon DEF Waits

(* Stuffed back the bits are those that were there before.                 *)
LEMMA StuffWaits ==
  ASSUME NEW i \in Images, NEW t, NEW l, t.partial \in Nat, t.partialSize \in Nat, t.codeSize \in Nat,
         t.partialSize < t.codeSize + ByteBits, LowCode(t) # ClearCode(i),
         NEW u, u.partial = (t.partial \div Pow2[t.codeSize]) * Pow2[t.codeSize] + LowCode(t),
         u.partialSize = (t.partialSize - t.codeSize) + t.codeSize, u.codeSize = t.codeSize,
         NEW r, r.at # "codes"
  PROVE  Waited(i, u, r)
<1> HIDE DEF Pow2
<1>1. PICK x, z, s \in Nat : x = t.partial /\ z = t.partialSize /\ s = t.codeSize
  OBVIOUS
<1>2. u.partial = x
  <2>1. (x \div Pow2[s]) * Pow2[s] + (x % Pow2[s]) = x
    BY PutBack
  <2> QED
    BY <1>1, <2>1, Zenon DEF LowCode
<1>3. LowCode(u) = LowCode(t)
  BY <1>1, <1>2, Zenon DEF LowCode
<1>4. u.partialSize = z
  <2>1. (z - s) + s = z
    OBVIOUS
  <2> QED
    BY <1>1, <2>1, Zenon
<1>5. u.partialSize < u.codeSize + ByteBits
  BY <1>1, <1>4, Zenon
<1>6. u.partialSize < u.codeSize + 2 * ByteBits
  <2>1. z < s + ByteBits
    BY <1>1, Zenon
  <2>2. z < s + 2 * ByteBits
    BY <2>1, ByteWidth
  <2> QED
    BY <1>1, <1>4, <2>2, Zenon
<1>7. Waits(i, u, r)
  BY <1>3, <1>5, Zenon DEF Waits
<1> QED
  BY <1>6, <1>7, Zenon DEF Waited

(* The decoder's fields and Load's, as numbers.                            *)
LEMMA DecoderNumbers ==
  ASSUME NEW i \in Images, NEW f, NEW t, NEW l, NEW sh, HasLoad(i, f, t, l, sh)
  PROVE  /\ DecoderRange(t) /\ DecoderShape(t) /\ t.done \in BOOLEAN
         /\ t.partial \in Nat /\ t.partialSize \in Nat
         /\ t.codeSize \in Nat /\ t.codeSize > 0 /\ t.codeSize <= CodeBits
         /\ Len(l.buf) \in Nat /\ LoaderShape(l)
         /\ l.at \in {"byte", "codes"} => t.done = FALSE
         /\ l.at \in {"byte", "block"} => l.buf = << >>
<1> HIDE DEF Pow2, MaxCode, Codes
<1>1. PICK w, v, T, k, m : LoadTrace(i, f, w, v, T, k, m, t, l, sh)
  BY Zenon DEF HasLoad
<1>2. Reader(f, t, l) /\ Shows(i, w, k, m, t, l, sh) /\ DecoderRange(t)
  BY <1>1, Zenon DEF LoadTrace
<1>3. Len(l.buf) \in Nat /\ LoaderShape(l)
  BY <1>2, Zenon DEF Shows
<1>4. /\ l.at \in {"byte", "codes"} => t.done = FALSE
      /\ l.at \in {"byte", "block"} => l.buf = << >>
  BY <1>2, Zenon DEF Reader
<1>5. /\ DecoderShape(t) /\ t.done \in BOOLEAN /\ t.partial \in Nat /\ t.partialSize \in Nat
      /\ t.codeSize \in 1..CodeBits
  BY <1>2, Zenon DEF DecoderRange
<1>6. t.codeSize \in Nat /\ t.codeSize > 0 /\ t.codeSize <= CodeBits
  BY <1>5, ByteWidth
<1> QED
  BY <1>2, <1>3, <1>4, <1>5, <1>6, Zenon

(* Reading a sub-block leaves the bits alone.                              *)
LEMMA ReadBlockWaits ==
  ASSUME image \in Images, ReadBlock, HasLoad(image, file, dec, load, shown), Waited(image, dec, load)
  PROVE  Waited(image, dec', load')
<1> HIDE DEF Pow2
<1>1. DecoderShape(dec) /\ LoaderShape(load) /\ dec.done \in BOOLEAN
  BY DecoderNumbers
<1>2. PICK a, b, c, d : /\ dec' = [dec EXCEPT !.buffer = a, !.bufferSize = b, !.bufferPos = 0]
                        /\ load' = [load EXCEPT !.next = c, !.at = d] /\ d \in {"block", "byte"}
  BY DEF ReadBlock
<1>3. /\ dec'.partial = dec.partial /\ dec'.partialSize = dec.partialSize /\ dec'.codeSize = dec.codeSize
      /\ dec'.done = dec.done
  BY <1>1, <1>2 DEF DecoderShape
<1>4. load'.at = d
  BY <1>1, <1>2 DEF LoaderShape
<1>5. load.at # "codes" /\ load'.at # "codes"
  BY <1>2, <1>4 DEF ReadBlock
<1> QED
  BY <1>3, <1>5, WaitsStill

(* A byte is taken: on entry, or when the bits hold no whole code.         *)
LEMMA TakeByteWaits ==
  ASSUME image \in Images, TakeByte, HasLoad(image, file, dec, load, shown), Waited(image, dec, load)
  PROVE  Waited(image, dec', load')
<1> HIDE DEF Pow2
<1>1. /\ DecoderShape(dec) /\ LoaderShape(load) /\ DecoderRange(dec)
      /\ load.at \in {"byte", "codes"} => dec.done = FALSE
      /\ load.at \in {"byte", "block"} => load.buf = << >>
  BY DecoderNumbers
<1>2. PICK b : b = dec.buffer[dec.bufferPos + 1]
  OBVIOUS
<1>3. /\ dec' = [dec EXCEPT !.partial = @ + b * Pow2[dec.partialSize], !.partialSize = @ + ByteBits,
                            !.bufferPos = @ + 1]
      /\ load' = [load EXCEPT !.at = "codes"]
      /\ load.at \in {"byte", "codes"} /\ dec.bufferPos < dec.bufferSize
  BY <1>2 DEF TakeByte, WantsByte
<1>4. load.at = "byte" \/ (load.at = "codes" /\ dec.partialSize < dec.codeSize)
  BY Zenon DEF TakeByte, WantsByte
<1>5. /\ DecoderShape(dec') /\ dec'.partial = dec.partial + b * Pow2[dec.partialSize]
      /\ dec'.partialSize = dec.partialSize + ByteBits /\ dec'.codeSize = dec.codeSize
  BY <1>1, <1>3 DEF DecoderShape
<1>6. load'.at = "codes" /\ load'.buf = load.buf
  BY <1>1, <1>3 DEF LoaderShape
<1>7. b \in Nat
  <2>1. PICK w, v, T, k, m : LoadTrace(image, file, w, v, T, k, m, dec, load, shown)
    BY Zenon DEF HasLoad
  <2>2. Ended(image, w, v, T) /\ Filled(v, T, file) /\ Reader(file, dec, load)
    BY <2>1, Zenon DEF LoadTrace
  <2>3. dec.bufferPos < Len(dec.buffer)
    <3>2. dec.bufferSize = Len(dec.buffer)
      BY <1>3, <2>2, Zenon DEF Reader
    <3> QED
      BY <1>3, <3>2, Zenon
  <2>4. b = ByteOf(v, Past(dec, load)) /\ Past(dec, load) \in Nat
    <3>1. dec.buffer[dec.bufferPos + 1] = ByteOf(v, Past(dec, load)) /\ Past(dec, load) \in Nat
      BY <2>2, <2>3, NextByte
    <3> QED
      BY <1>2, <3>1, Zenon
  <2>5. v \in Nat
    <3>1. CodesOk(image, w) /\ v = w.value + EndCode(image) * Pow2[w.off[w.n]]
      BY <2>2, Zenon DEF Ended
    <3>2. w.value \in Nat /\ w.off[w.n] \in Nat
      <4>1. TraceType(w)
        BY <3>1, Zenon DEF CodesOk
      <4> QED
        BY <4>1 DEF TraceType
    <3>3. EndCode(image) \in Nat /\ Pow2[w.off[w.n]] \in Nat
      BY <3>2, ImageFacts, PowerEquations
    <3>4. w.value + EndCode(image) * Pow2[w.off[w.n]] \in Nat
      BY <3>2, <3>3, Plain, Zenon
    <3> QED
      BY <3>1, <3>4, Zenon
  <2>6. PICK o, n \in Nat : o = ByteBits * Past(dec, load) /\ n = ByteBits
    <3>1. ByteBits * Past(dec, load) \in Nat
      BY <2>4, ByteWidth
    <3> QED
      BY <3>1, ByteWidth
  <2>7. Bits(v, o, n) \in Nat
    BY <2>5, BitsType
  <2> QED
    BY <2>4, <2>6, <2>7, Zenon DEF ByteOf
<1>8. /\ \/ load.at = "byte" /\ load.buf = << >>
         \/ load.at = "codes" /\ dec.partialSize < dec.codeSize
      /\ dec.done = FALSE
  BY <1>1, <1>4
<1> QED
  BY <1>1, <1>5, <1>6, <1>7, <1>8, ByteWaits

(* The sub-block is used up: what is left is less than a code, or the call *)
(* returned at once.                                                       *)
LEMMA EndOfBufferWaits ==
  ASSUME image \in Images, EndOfBuffer, HasLoad(image, file, dec, load, shown), Waited(image, dec, load)
  PROVE  Waited(image, dec', load')
<1> HIDE DEF Pow2
<1>1. /\ DecoderShape(dec) /\ LoaderShape(load) /\ dec.done \in BOOLEAN
      /\ dec.partialSize \in Nat /\ dec.codeSize \in Nat
  BY DecoderNumbers
<1>2. /\ dec' = [dec EXCEPT !.bufferSize = 0] /\ load' = [load EXCEPT !.at = "show"]
  BY DEF EndOfBuffer, WantsByte
<1>3. load.at = "byte" \/ (load.at = "codes" /\ dec.partialSize < dec.codeSize)
  BY Zenon DEF EndOfBuffer, WantsByte
<1>4. /\ dec'.partial = dec.partial /\ dec'.partialSize = dec.partialSize /\ dec'.codeSize = dec.codeSize
      /\ dec'.done = dec.done
  BY <1>1, <1>2 DEF DecoderShape
<1>5. load'.at # "codes"
  BY <1>1, <1>2 DEF LoaderShape
<1>6. CASE load.at = "byte"
  <2>1. load.at # "codes"
    BY <1>6
  <2> QED
    BY <1>4, <1>5, <2>1, WaitsStill
<1>7. CASE dec.partialSize < dec.codeSize
  <2>1. dec'.partialSize \in Nat /\ dec'.codeSize \in Nat /\ dec'.partialSize < dec'.codeSize
    BY <1>1, <1>4, <1>7
  <2> QED
    BY <2>1, WaitsBelow
<1> QED
  BY <1>3, <1>6, <1>7

(* A call is repeated only when the string found no room in it.            *)
LEMMA CallAgainWaits ==
  ASSUME image \in Images, CallAgain, HasLoad(image, file, dec, load, shown), Waited(image, dec, load)
  PROVE  Waited(image, dec', load')
<1> HIDE DEF Pow2
<1>1. LoaderShape(load)
  BY DecoderNumbers
<1>2. PICK d : dec' = dec /\ load' = [load EXCEPT !.at = d] /\ d \in {"block", "byte"} /\ load.at = "show"
  BY DEF CallAgain
<1>3. load'.at = d
  BY <1>1, <1>2 DEF LoaderShape
<1>4. load.at # "codes" /\ load'.at # "codes"
  BY <1>2, <1>3
<1>5. /\ dec'.partial = dec.partial /\ dec'.partialSize = dec.partialSize /\ dec'.codeSize = dec.codeSize
      /\ dec'.done = dec.done
  BY <1>2
<1> QED
  BY <1>4, <1>5, WaitsStill

(* Showing a pixel leaves the bits alone.                                  *)
LEMMA ShowPixelWaits ==
  ASSUME image \in Images, ShowPixel, HasLoad(image, file, dec, load, shown), Waited(image, dec, load)
  PROVE  Waited(image, dec', load')
<1> HIDE DEF Pow2
<1>1. DecoderShape(dec) /\ dec.done \in BOOLEAN
  BY DecoderNumbers
<1>2. HasLoad(image', file', dec', load', shown') /\ image' = image /\ load.at = "show"
  BY ShowPixelTrace DEF ShowPixel
<1>3. load'.at = "show"
  BY ShowPixelTrace
<1>4. PICK c \in BOOLEAN : dec' = [dec EXCEPT !.done = c] /\ (c = FALSE => dec.done = FALSE)
  BY <1>1 DEF ShowPixel
<1>5. /\ dec'.partial = dec.partial /\ dec'.partialSize = dec.partialSize /\ dec'.codeSize = dec.codeSize
      /\ dec'.done = c
  BY <1>1, <1>4 DEF DecoderShape
<1>6. load.at # "codes" /\ load'.at # "codes"
  BY <1>2, <1>3
<1> QED
  BY <1>4, <1>5, <1>6, WaitsStill

(* After the end code nothing more is taken.                               *)
LEMMA TakeEndCodeWaits ==
  ASSUME image \in Images, TakeEndCode, HasLoad(image, file, dec, load, shown), Waited(image, dec, load)
  PROVE  Waited(image, dec', load')
<1> HIDE DEF Pow2
<1>1. DecoderShape(dec) /\ dec.partialSize \in Nat /\ dec.codeSize \in Nat
  BY DecoderNumbers
<1>2. PICK d : d = DropBits(dec, dec.codeSize)
  OBVIOUS
<1>3. DecoderShape(d) /\ d.partialSize = dec.partialSize - dec.codeSize /\ d.codeSize = dec.codeSize
  BY <1>1, <1>2, DropFields
<1>4. dec' = [d EXCEPT !.done = TRUE] /\ dec.partialSize >= dec.codeSize
  BY <1>2 DEF TakeEndCode, HasCode
<1>5. dec'.partialSize = d.partialSize /\ dec'.codeSize = d.codeSize /\ dec'.done = TRUE
  BY <1>3, <1>4 DEF DecoderShape
<1>6. dec'.partialSize < dec'.codeSize + 2 * ByteBits
  <2>1. dec.partialSize < dec.codeSize + 2 * ByteBits
    BY Zenon DEF Waited
  <2> QED
    BY <1>1, <1>3, <1>4, <1>5, <2>1, ByteWidth
<1>7. dec'.done # FALSE
  BY <1>5
<1> QED
  BY <1>6, <1>7, Zenon DEF Waited

(* Bits that wait and the size of codes behind a clear code.               *)
LEMMA ClearedSizes ==
  ASSUME NEW i, NEW t, DecoderShape(t), NEW d, d = ClearedDecompressor(i, t)
  PROVE  d.partialSize = t.partialSize /\ d.codeSize = MinCodeSize(i) + 1
<1> HIDE DEF Codes, None
<1>1. d = [t EXCEPT !.strings = [c \in Codes |-> IF c < ClearCode(i) THEN <<c>> ELSE @[c]],
                    !.nextCode = EndCode(i) + 1, !.codeSize = MinCodeSize(i) + 1, !.oldCode = None]
  BY Zenon DEF ClearedDecompressor
<1> QED
  BY <1>1 DEF DecoderShape

(* A clear code: of two bytes on entry it is none, and with a full table   *)
(* it is as wide as codes get, so less than a byte is left behind it.      *)
LEMMA TakeClearCodeWaits ==
  ASSUME image \in Images, TakeClearCode, HasLoad(image, file, dec, load, shown), Waited(image, dec, load)
  PROVE  Waited(image, dec', load')
<1> HIDE DEF Pow2, MaxCode, Codes, None
<1>1. /\ DecoderShape(dec) /\ dec.partialSize \in Nat /\ dec.codeSize \in Nat
      /\ load.at \in {"byte", "codes"} => dec.done = FALSE
  BY DecoderNumbers
<1>2. PICK d : d = DropBits(dec, dec.codeSize)
  OBVIOUS
<1>3. /\ load.at = "codes" /\ dec.partialSize >= dec.codeSize /\ LowCode(dec) = ClearCode(image)
      /\ dec' = ClearedDecompressor(image, d) /\ load' = load
  BY <1>2 DEF TakeClearCode, HasCode
<1>4. DecoderShape(d) /\ d.partialSize = dec.partialSize - dec.codeSize
  BY <1>1, <1>2, DropFields
<1>5. dec'.partialSize = d.partialSize /\ dec'.codeSize = MinCodeSize(image) + 1
  <2>1. PICK u : u = ClearedDecompressor(image, d)
    OBVIOUS
  <2>2. u.partialSize = d.partialSize /\ u.codeSize = MinCodeSize(image) + 1
    BY <1>4, <2>1, Zenon, ClearedSizes
  <2>3. dec' = u
    BY <1>3, <2>1, Zenon
  <2> QED
    BY <2>2, <2>3, Zenon
<1>6. dec.done = FALSE /\ Waits(image, dec, load)
  <2>1. dec.done = FALSE
    BY <1>1, <1>3
  <2> QED
    BY <2>1, Zenon DEF Waited
<1>7. dec.partialSize - dec.codeSize < ByteBits
  <2>1. CASE dec.partialSize < dec.codeSize + ByteBits
    BY <1>1, <2>1, ByteWidth
  <2>2. CASE dec.oldCode # None /\ dec.partialSize < 2 * ByteBits
    <3>1. PICK w, v, T, k, m : /\ T \in Nat /\ k \in Nat /\ m \in Nat
                               /\ LoadTrace(image, file, w, v, T, k, m, dec, load, shown)
      BY Zenon DEF HasLoad
    <3>2. /\ Ended(image, w, v, T) /\ DecoderRange(dec) /\ Knows(image, w, v, Past(dec, load), k, dec)
          /\ Past(dec, load) \in Nat
      <4>1. Ended(image, w, v, T) /\ Filled(v, T, file) /\ Reader(file, dec, load) /\ DecoderRange(dec)
            /\ Knows(image, w, v, Past(dec, load), k, dec)
        BY <1>6, <3>1, Zenon DEF LoadTrace
      <4> QED
        BY <4>1, PastNumber, Zenon
    <3>3. Taking(image, w, v, Past(dec, load), k, dec, d)
      BY <1>2, <1>3, <3>1, <3>2, CodeTaken
    <3>4. LowCode(dec) # EndCode(image)
      BY <1>3, ImageFacts
    <3>5. k < w.n /\ w.code[k] = LowCode(dec)
      BY <3>1, <3>2, <3>3, <3>4, CodeKnown
    <3>6. CodesOk(image, w)
      BY <3>2, Zenon DEF Ended
    <3>7. SizeFor(image, Upto(image, w, k), dec.codeSize) /\ Strings(image, w, k, dec.strings, dec.oldCode)
      BY <3>2, Zenon DEF Knows
    <3>8. dec.codeSize = CodeBits
      <4>1. w.code[k] = ClearCode(image)
        BY <1>3, <3>5, Zenon
      <4> QED
        BY <1>1, <2>2, <3>1, <3>5, <3>6, <3>7, <4>1, FullTable
    <3> QED
      BY <1>1, <2>2, <3>8, WidthAssumption
  <2> QED
    BY <1>3, <1>6, <2>1, <2>2, Zenon DEF Waits
<1>8. dec'.partialSize \in Nat /\ dec'.codeSize \in Nat /\ dec'.partialSize < dec'.codeSize + ByteBits
  <2>1. MinCodeSize(image) \in Nat
    BY ImageFacts
  <2> QED
    BY <1>1, <1>3, <1>4, <1>5, <1>7, <2>1, ByteWidth
<1> QED
  BY <1>3, <1>8, WaitsLittle

(* An ordinary code takes its bits, or there was no room for its string    *)
(* and it is stuffed back as it was.                                       *)
LEMMA TakeCodeWaits ==
  ASSUME image \in Images, TakeCode, HasLoad(image, file, dec, load, shown), Waited(image, dec, load)
  PROVE  Waited(image, dec', load')
<1> HIDE DEF Pow2, MaxCode, Codes, None
<1>1. /\ DecoderShape(dec) /\ dec.partial \in Nat /\ dec.partialSize \in Nat
      /\ dec.codeSize \in Nat /\ dec.codeSize > 0 /\ dec.codeSize <= CodeBits
      /\ Len(load.buf) \in Nat /\ LoaderShape(load)
      /\ load.at \in {"byte", "codes"} => dec.done = FALSE
  BY DecoderNumbers
<1>2. PICK code : code = LowCode(dec)
  OBVIOUS
<1>3. PICK d : d = DropBits(dec, dec.codeSize)
  OBVIOUS
<1>4. PICK a : a = AddString(d, code)
  OBVIOUS
<1>5. /\ HasCode /\ ~IsEnd(dec) /\ code # ClearCode(image)
      /\ IF Len(a.strings[code]) <= OutLen - Len(load.buf)
         THEN /\ dec' = [Count(a) EXCEPT !.oldCode = code]
              /\ load' = [load EXCEPT !.buf = @ \o a.strings[code]]
         ELSE /\ dec' = StuffBack(a, code, d)
              /\ load' = [load EXCEPT !.at = "show"]
  BY <1>2, <1>3, <1>4, Zenon DEF TakeCode
<1>6. load.at = "codes" /\ dec.partialSize >= dec.codeSize
  BY <1>5 DEF HasCode
<1>7. Waits(image, dec, load)
  <2>1. dec.done = FALSE
    BY <1>1, <1>6
  <2> QED
    BY <2>1, Zenon DEF Waited
<1>8. PICK w, v, T, k, K, F, L, m :
        Step(image, file, w, v, T, k, K, F, L, m, dec, load, shown, code, d, a)
  BY <1>2, <1>3, <1>4, <1>5, CodeStep
<1>9. /\ T \in Nat /\ k \in Nat /\ F \in Nat /\ L \in Nat /\ w.code[k] = code
      /\ Knows(image, w, v, Past(dec, load), k, dec)
      /\ Decoded(image, w, k, K, F, L, dec.oldCode, a.strings)
      /\ DecoderShape(d) /\ DecoderShape(a)
      /\ d.partial = dec.partial \div Pow2[dec.codeSize] /\ d.partialSize = dec.partialSize - dec.codeSize
      /\ a.partialSize = d.partialSize /\ a.codeSize = dec.codeSize /\ a.nextCode = dec.nextCode
  BY <1>8, Zenon DEF Step, Took
<1>10. PICK s : s = a.strings[code]
  OBVIOUS
<1>11. Len(s) = L /\ s \in Seq(Hues(image))
  <2>1. LoadTrace(image, file, w, v, T, k, m, dec, load, shown) /\ k < w.n
    BY <1>8, Zenon DEF Step, Took
  <2>2. CodesOk(image, w)
    BY <2>1, Zenon DEF LoadTrace, Ended
  <2>3. w.at[k] \in Nat
    BY <1>9, Zenon DEF Decoded, CodeFacts
  <2>4. s = Text(image, w.at[k], L)
    BY <1>9, <1>10, Zenon DEF Decoded, Decodes
  <2>5. IsText(image, w.at[k], L, Text(image, w.at[k], L))
    BY <1>9, <2>3, TextFacts
  <2> QED
    BY <2>4, <2>5, Zenon DEF IsText
<1>12. L <= Pow2[dec.codeSize]
  <2>1. CodeFacts(image, w, k, F, L)
    BY <1>9, Zenon DEF Decoded
  <2>2. SizeFor(image, Upto(image, w, k), dec.codeSize)
    BY <1>9, Zenon DEF Knows
  <2> QED
    BY <1>1, <1>9, <2>1, <2>2, StringShort
<1>13. CASE Len(s) <= OutLen - Len(load.buf)
  <2>1. dec' = [Count(a) EXCEPT !.oldCode = code] /\ load' = [load EXCEPT !.buf = @ \o s]
    BY <1>5, <1>10, <1>13, Zenon
  <2>2. Counted(a, code, dec')
    BY <1>9, <2>1, CountFields
  <2>3. /\ dec'.partialSize = dec.partialSize - dec.codeSize /\ dec'.oldCode = code
        /\ dec'.codeSize = a.codeSize \/ dec'.codeSize = a.codeSize + 1
    <3>1. /\ dec'.partialSize = a.partialSize /\ dec'.oldCode = code
          /\ dec'.codeSize = a.codeSize \/ dec'.codeSize = a.codeSize + 1
      BY <2>2, Zenon DEF Counted
    <3> QED
      BY <1>9, <3>1, Zenon
  <2>4. dec'.codeSize \in Nat /\ dec'.codeSize >= dec.codeSize
    BY <1>1, <1>9, <2>3
  <2>5. code # None
    <3>1. code < Pow2[dec.codeSize] /\ code \in Nat
      <4>1. Pow2[dec.codeSize] \in Nat \ {0}
        BY <1>1, PowerEquations
      <4> QED
        BY <1>1, <1>2, <4>1 DEF LowCode
    <3>2. Pow2[dec.codeSize] <= Pow2[CodeBits] /\ Pow2[dec.codeSize] \in Nat /\ Pow2[CodeBits] \in Nat
      BY <1>1, ByteWidth, PowerGrows, PowerEquations
    <3> QED
      BY <3>1, <3>2 DEF None, MaxCode
  <2>6. load'.at = "codes" /\ Len(load'.buf) = Len(load.buf) + L
    <3>1. load'.at = load.at /\ load'.buf = load.buf \o s
      BY <1>1, <2>1 DEF LoaderShape
    <3>2. load.buf \in Seq(Hues(image))
      <4>1. Shows(image, w, k, m, dec, load, shown) /\ m \in Nat
        BY <1>8, Zenon DEF Step, LoadTrace
      <4>2. load.buf = Text(image, m, Len(load.buf))
        BY <4>1, Zenon DEF Shows
      <4>3. IsText(image, m, Len(load.buf), Text(image, m, Len(load.buf)))
        BY <1>1, <4>1, TextFacts
      <4> QED
        BY <4>2, <4>3, Zenon DEF IsText
    <3>3. Len(load.buf \o s) = Len(load.buf) + Len(s)
      BY <1>11, <3>2, ConcatProperties
    <3> QED
      BY <1>6, <1>11, <3>1, <3>3, Zenon
  <2>7. dec'.oldCode # None
    BY <2>3, <2>5, Zenon
  <2> QED
    BY <1>1, <1>6, <1>7, <1>9, <1>12, <2>3, <2>4, <2>6, <2>7, CodeWaits
<1>14. CASE ~(Len(s) <= OutLen - Len(load.buf))
  <2>1. dec' = StuffBack(a, code, d) /\ load' = [load EXCEPT !.at = "show"]
    BY <1>5, <1>10, <1>14, Zenon
  <2>2. /\ dec'.partial = d.partial * Pow2[a.codeSize] + code /\ dec'.partialSize = d.partialSize + a.codeSize
        /\ dec'.codeSize = a.codeSize
    BY <1>9, <2>1, StuffFields
  <2>3. /\ dec'.partial = (dec.partial \div Pow2[dec.codeSize]) * Pow2[dec.codeSize] + LowCode(dec)
        /\ dec'.partialSize = (dec.partialSize - dec.codeSize) + dec.codeSize
        /\ dec'.codeSize = dec.codeSize
    BY <1>2, <1>9, <2>2, Zenon
  <2>4. dec.partialSize < dec.codeSize + ByteBits
    <3>1. ~(L <= OutLen - Len(load.buf))
      BY <1>11, <1>14, Zenon
    <3> QED
      BY <1>1, <1>6, <1>7, <1>9, <1>12, <3>1, NoRoomWaits
  <2>5. load'.at # "codes"
    BY <1>1, <2>1 DEF LoaderShape
  <2>6. LowCode(dec) # ClearCode(image)
    BY <1>2, <1>5, Zenon
  <2> QED
    BY <1>1, <2>3, <2>4, <2>5, <2>6, StuffWaits
<1> QED
  BY <1>13, <1>14

(* The bits of the decoder: a code and two bytes at most; and during a     *)
(* load, what is known of where it stands.                                 *)
WaitInv ==
  /\ dec.partialSize < dec.codeSize + 2 * ByteBits
  /\ phase = "loading" => Waited(image, dec, load)

(* A decoder that was only started holds nothing.                          *)
LEMMA UntouchedWaits ==
  ASSUME NEW i \in Images, NEW t, NEW l, NEW sh, Untouched(i, t, l, sh)
  PROVE  Waited(i, t, l)
<1> HIDE DEF Pow2, MaxCode, Codes
<1>1. t = StartedDecompressor(i)
  BY Zenon DEF Untouched
<1>2. t.partialSize = 0 /\ t.codeSize = MinCodeSize(i) + 1
  BY <1>1, StartDecoder
<1>3. t.partialSize \in Nat /\ t.codeSize \in Nat /\ t.partialSize < t.codeSize
  BY <1>2, ImageFacts
<1> QED
  BY <1>3, WaitsBelow

(* Every step keeps the bits of the decoder within their bounds.           *)
LEMMA WaitStep ==
  TransferInv /\ WaitInv /\ [Next]_vars => WaitInv'
<1> HIDE DEF Pow2, MaxCode, Codes
<1> SUFFICES ASSUME TransferInv, WaitInv, [Next]_vars PROVE WaitInv'
  OBVIOUS
<1>0. image \in Images
  BY Zenon DEF TransferInv, CoderInv
<1>1. ASSUME dec' = dec, phase' # "loading" PROVE WaitInv'
  BY <1>1 DEF WaitInv
<1>2. CASE SaveStep /\ UNCHANGED loadVars
  <2>1. dec' = dec /\ phase' # "loading"
    BY <1>2 DEF loadVars, SaveStep, FirstPixel, ExtendPrefix, EmitCode, FinishLine, FinishSave,
                OverrunLast
  <2> QED
    BY <1>1, <2>1
<1>3. CASE Open
  <2>1. dec' = dec /\ load' = load /\ image' = image /\ phase = "saved"
    BY <1>3 DEF Open, loadVars
  <2>2. Untouched(image, dec, load, shown)
    BY <2>1, Zenon DEF TransferInv, Stands
  <2>3. Waited(image, dec, load)
    BY <1>0, <2>2, UntouchedWaits
  <2> QED
    BY <2>1, <2>3 DEF WaitInv
<1>4. CASE FinishLoad
  <2>1. dec' = dec /\ phase' # "loading"
    BY <1>4 DEF FinishLoad, loadVars
  <2> QED
    BY <1>1, <2>1
<1>5. CASE UNCHANGED vars
  <2>1. dec' = dec /\ load' = load /\ image' = image /\ phase' = phase
    BY <1>5 DEF vars, loadVars
  <2> QED
    BY <2>1 DEF WaitInv
<1>6. ASSUME phase = "loading", image' = image, Waited(image, dec', load') PROVE WaitInv'
  BY <1>6 DEF WaitInv, Waited
<1>7. ASSUME phase = "loading"
      PROVE  HasLoad(image, file, dec, load, shown) /\ Waited(image, dec, load)
  BY <1>7, Zenon DEF TransferInv, Stands, WaitInv
<1>8. CASE ReadBlock
  <2>1. phase = "loading" /\ image' = image
    BY <1>8 DEF ReadBlock
  <2>2. HasLoad(image, file, dec, load, shown) /\ Waited(image, dec, load)
    BY <1>7, <2>1
  <2>3. Waited(image, dec', load')
    BY <1>0, <1>8, <2>2, ReadBlockWaits
  <2> QED
    BY <1>6, <2>1, <2>3
<1>9. CASE TakeByte
  <2>1. phase = "loading" /\ image' = image
    BY <1>9 DEF TakeByte, WantsByte
  <2>2. HasLoad(image, file, dec, load, shown) /\ Waited(image, dec, load)
    BY <1>7, <2>1
  <2>3. Waited(image, dec', load')
    BY <1>0, <1>9, <2>2, TakeByteWaits
  <2> QED
    BY <1>6, <2>1, <2>3
<1>10. CASE EndOfBuffer
  <2>1. phase = "loading" /\ image' = image
    BY <1>10 DEF EndOfBuffer, WantsByte
  <2>2. HasLoad(image, file, dec, load, shown) /\ Waited(image, dec, load)
    BY <1>7, <2>1
  <2>3. Waited(image, dec', load')
    BY <1>0, <1>10, <2>2, EndOfBufferWaits
  <2> QED
    BY <1>6, <2>1, <2>3
<1>11. CASE TakeEndCode
  <2>1. phase = "loading" /\ image' = image
    BY <1>11 DEF TakeEndCode, HasCode
  <2>2. HasLoad(image, file, dec, load, shown) /\ Waited(image, dec, load)
    BY <1>7, <2>1
  <2>3. Waited(image, dec', load')
    BY <1>0, <1>11, <2>2, TakeEndCodeWaits
  <2> QED
    BY <1>6, <2>1, <2>3
<1>12. CASE TakeClearCode
  <2>1. phase = "loading" /\ image' = image
    BY <1>12 DEF TakeClearCode, HasCode
  <2>2. HasLoad(image, file, dec, load, shown) /\ Waited(image, dec, load)
    BY <1>7, <2>1
  <2>3. Waited(image, dec', load')
    BY <1>0, <1>12, <2>2, TakeClearCodeWaits
  <2> QED
    BY <1>6, <2>1, <2>3
<1>13. CASE TakeCode
  <2>1. phase = "loading" /\ image' = image
    BY <1>13 DEF TakeCode, HasCode
  <2>2. HasLoad(image, file, dec, load, shown) /\ Waited(image, dec, load)
    BY <1>7, <2>1
  <2>3. Waited(image, dec', load')
    BY <1>0, <1>13, <2>2, TakeCodeWaits
  <2> QED
    BY <1>6, <2>1, <2>3
<1>14. CASE ShowPixel
  <2>1. phase = "loading" /\ image' = image
    BY <1>14 DEF ShowPixel
  <2>2. HasLoad(image, file, dec, load, shown) /\ Waited(image, dec, load)
    BY <1>7, <2>1
  <2>3. Waited(image, dec', load')
    BY <1>0, <1>14, <2>2, ShowPixelWaits
  <2> QED
    BY <1>6, <2>1, <2>3
<1>15. CASE CallAgain
  <2>1. phase = "loading" /\ image' = image
    BY <1>15 DEF CallAgain
  <2>2. HasLoad(image, file, dec, load, shown) /\ Waited(image, dec, load)
    BY <1>7, <2>1
  <2>3. Waited(image, dec', load')
    BY <1>0, <1>15, <2>2, CallAgainWaits
  <2> QED
    BY <1>6, <2>1, <2>3
<1> QED
  BY <1>2, <1>3, <1>4, <1>5, <1>8, <1>9, <1>10, <1>11, <1>12, <1>13, <1>14, <1>15, Zenon DEF Next, LoadStep

(* Every value of m_partial fits its int while codes are decoded: less     *)
(* than a whole code and two bytes wait, in whatever blocks the bytes      *)
(* arrive and whatever calls they are decoded in (Decompress and Load,     *)
(* PluginGIF.cpp).                                                         *)
THEOREM DecoderFitsItsInt == Spec => []DecoderInRange
<1> HIDE DEF Pow2, MaxCode, Codes
<1>1. Init => WaitInv
  <2> SUFFICES ASSUME Init PROVE WaitInv
    OBVIOUS
  <2>1. TransferInv
    BY InitStands
  <2>2. phase = "saving" /\ image \in Images
    BY DEF Init, SaveInit
  <2>3. Untouched(image, dec, load, shown)
    BY <2>1, <2>2, Zenon DEF TransferInv, Stands
  <2>4. Waited(image, dec, load)
    BY <2>2, <2>3, UntouchedWaits
  <2> QED
    BY <2>2, <2>4 DEF WaitInv, Waited
<1>2. TransferInv /\ WaitInv => DecoderInRange
  <2> SUFFICES ASSUME TransferInv, WaitInv PROVE DecoderInRange
    OBVIOUS
  <2>1. image \in Images /\ phase \in {"saving", "overrun", "saved", "refused", "loading", "loaded"}
    BY Zenon DEF TransferInv, CoderInv
  <2>2. dec.partial < Pow2[dec.partialSize]
    <3>1. CASE phase \in {"saving", "overrun", "saved", "refused"}
      <4>1. Untouched(image, dec, load, shown)
        BY <3>1, Zenon DEF TransferInv, Stands
      <4>2. dec.partial = 0 /\ dec.partialSize = 0
        BY <2>1, <4>1, StartDecoder DEF Untouched
      <4>3. Pow2[0] = 1
        BY PowerEquations
      <4> QED
        BY <4>2, <4>3
    <3>2. CASE phase \in {"loading", "loaded"}
      <4>1. HasLoad(image, file, dec, load, shown)
        BY <3>2, Zenon DEF TransferInv, Stands
      <4>2. DecoderRange(dec)
        BY <2>1, <4>1, DecoderNumbers
      <4> QED
        BY <4>2, Zenon DEF DecoderRange
    <3> QED
      BY <2>1, <3>1, <3>2
  <2> QED
    BY <2>2, Zenon DEF WaitInv, DecoderInRange
<1> QED
  BY <1>1, <1>2, WaitStep, TransferAlways, PTL DEF Spec
=============================================================================
