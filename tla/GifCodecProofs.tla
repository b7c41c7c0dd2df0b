--------------------------- MODULE GifCodecProofs ---------------------------
(***************************************************************************)
(* Proofs about the coder of GifCodec, for every width of bytes and codes, *)
(* every length of sub-blocks, all pictures, and a medium that may fill up *)
(* at any write: what waits in the bit buffer, what fits its int, and that *)
(* the file consists of sub-blocks at every moment.  The second part is    *)
(* about what the bytes of the file mean: they are the codes of a list,    *)
(* each of which stands for the next pixels of the picture.                *)
(***************************************************************************)
EXTENDS GifCodec, ListLemmas

-----------------------------------------------------------------------------
PowersTo(f, n) == f = [k \in 0..n |-> IF k = 0 THEN 1 ELSE 2 * f[k - 1]]

(* There are functions that double as far as one wants, and they agree.    *)
LEMMA PowersTable ==
  /\ \A n \in Nat : \E f : PowersTo(f, n)
  /\ \A n, m \in Nat : \A f, g : \A k \in Nat :
       PowersTo(f, n) /\ PowersTo(g, m) /\ k <= n /\ k <= m => f[k] = g[k]
<1>1. ASSUME NEW n \in Nat PROVE \E f : PowersTo(f, n)
  <2> DEFINE S == {m \in Nat : \E f : PowersTo(f, m)}
  <2>1. 0 \in S
    <3>1. PowersTo([k \in 0..0 |-> 1], 0)
      BY DEF PowersTo
    <3> QED
      BY <3>1
  <2>2. ASSUME NEW m \in Nat, m \in S PROVE m + 1 \in S
    <3>1. PICK f : PowersTo(f, m)
      BY <2>2
    <3> DEFINE more == [k \in 0..(m + 1) |-> IF k <= m THEN f[k] ELSE 2 * f[m]]
    <3>2. ASSUME NEW k \in 0..m PROVE more[k] = IF k = 0 THEN 1 ELSE 2 * more[k - 1]
      BY <3>1, <3>2 DEF PowersTo
    <3>3. more[m + 1] = 2 * more[m]
      OBVIOUS
    <3>4. \A k \in 0..(m + 1) : more[k] = IF k = 0 THEN 1 ELSE 2 * more[k - 1]
      <4>1. ASSUME NEW k \in 0..(m + 1) PROVE more[k] = IF k = 0 THEN 1 ELSE 2 * more[k - 1]
        <5>1. CASE k = m + 1
          BY <3>3, <5>1
        <5>2. CASE k \in 0..m
          BY <3>2, <5>2
        <5> HIDE DEF more
        <5> QED
          BY <5>1, <5>2
      <4> HIDE DEF more
      <4> QED
        BY <4>1
    <3>5. more = [k \in 0..(m + 1) |-> more[k]]
      OBVIOUS
    <3> HIDE DEF more
    <3>6. PowersTo(more, m + 1)
      BY <3>4, <3>5 DEF PowersTo
    <3> QED
      BY <3>6
  <2> HIDE DEF S
  <2>3. Nat \subseteq S
    BY <2>1, <2>2, SetInduction
  <2> QED
    BY <2>3 DEF S
<1>2. ASSUME NEW n \in Nat, NEW m \in Nat, NEW f, NEW g, PowersTo(f, n), PowersTo(g, m)
      PROVE  \A k \in Nat : k <= n /\ k <= m => f[k] = g[k]
  <2> DEFINE S == {k \in Nat : k <= n /\ k <= m => f[k] = g[k]}
  <2>1. 0 \in S
    BY <1>2 DEF PowersTo
  <2>2. ASSUME NEW k \in Nat, k \in S PROVE k + 1 \in S
    <3> SUFFICES ASSUME k + 1 <= n, k + 1 <= m PROVE f[k + 1] = g[k + 1]
      OBVIOUS
    <3>1. f[k + 1] = 2 * f[k] /\ g[k + 1] = 2 * g[k]
      BY <1>2 DEF PowersTo
    <3> QED
      BY <2>2, <3>1
  <2> HIDE DEF S
  <2>3. Nat \subseteq S
    BY <2>1, <2>2, SetInduction
  <2> QED
    BY <2>3 DEF S
<1> QED
  BY <1>1, <1>2

(* Pow2 is the function that its definition describes.                     *)
LEMMA PowerEquations ==
  /\ Pow2[0] = 1
  /\ \A n \in Nat : Pow2[n] \in Nat \ {0} /\ Pow2[n + 1] = 2 * Pow2[n]
<1> DEFINE F(n) == CHOOSE f : PowersTo(f, n)
           P == [n \in Nat |-> F(n)[n]]
<1>1. \A n \in Nat : PowersTo(F(n), n)
  BY PowersTable
<1> HIDE DEF F
<1>2. P[0] = 1
  BY <1>1 DEF PowersTo
<1>3. ASSUME NEW n \in Nat PROVE P[n + 1] = 2 * P[n]
  <2>1. F(n + 1)[n] = F(n)[n]
    BY <1>1, PowersTable
  <2>2. F(n + 1)[n + 1] = 2 * F(n + 1)[n]
    BY <1>1 DEF PowersTo
  <2> QED
    BY <2>1, <2>2
<1>4. P = [n \in Nat |-> P[n]]
  OBVIOUS
<1> HIDE DEF P
<1>5. P = [n \in Nat |-> IF n = 0 THEN 1 ELSE 2 * P[n - 1]]
  <2>1. ASSUME NEW n \in Nat PROVE P[n] = IF n = 0 THEN 1 ELSE 2 * P[n - 1]
    <3>1. CASE n = 0
      BY <1>2, <3>1
    <3>2. CASE n # 0
      BY <1>3, <3>2
    <3> QED
      BY <3>1, <3>2
  <2> QED
    BY <1>4, <2>1
<1>6. Pow2 = [n \in Nat |-> IF n = 0 THEN 1 ELSE 2 * Pow2[n - 1]]
  BY <1>5 DEF Pow2
<1> HIDE DEF Pow2
<1>7. Pow2[0] = 1
  BY <1>6
<1>8. \A n \in Nat : Pow2[n + 1] = 2 * Pow2[n]
  BY <1>6
<1> DEFINE S == {n \in Nat : Pow2[n] \in Nat \ {0}}
<1>9. 0 \in S
  BY <1>7
<1>10. ASSUME NEW n \in Nat, n \in S PROVE n + 1 \in S
  BY <1>8, <1>10
<1> HIDE DEF S
<1>11. Nat \subseteq S
  BY <1>9, <1>10, SetInduction
<1> QED
  BY <1>7, <1>8, <1>11 DEF S

(* Powers of two add up, and grow.                                         *)
LEMMA PowerSum ==
  ASSUME NEW a \in Nat, NEW b \in Nat
  PROVE  Pow2[a + b] = Pow2[a] * Pow2[b]
<1> HIDE DEF Pow2
<1> DEFINE S == {n \in Nat : Pow2[a + n] = Pow2[a] * Pow2[n]}
<1>1. 0 \in S
  BY PowerEquations
<1>2. ASSUME NEW n \in Nat, n \in S PROVE n + 1 \in S
  <2>1. a + n \in Nat /\ a + (n + 1) = (a + n) + 1
    OBVIOUS
  <2>2. /\ Pow2[(a + n) + 1] = 2 * Pow2[a + n] /\ Pow2[n + 1] = 2 * Pow2[n]
        /\ Pow2[a] \in Nat /\ Pow2[n] \in Nat
    BY <2>1, PowerEquations
  <2>3. Pow2[a] * (2 * Pow2[n]) = 2 * (Pow2[a] * Pow2[n])
    BY <2>2
  <2> QED
    BY <1>2, <2>1, <2>2, <2>3
<1> HIDE DEF S
<1>3. Nat \subseteq S
  BY <1>1, <1>2, SetInduction
<1> QED
  BY <1>3 DEF S

(* Powers of two keep the order of their exponents.                        *)
LEMMA PowerGrows ==
  ASSUME NEW a \in Nat, NEW b \in Nat
  PROVE  /\ a <= b <=> Pow2[a] <= Pow2[b]
         /\ a < b <=> Pow2[a] < Pow2[b]
<1> HIDE DEF Pow2
<1>1. ASSUME NEW c \in Nat, NEW d \in Nat, c < d PROVE Pow2[c] < Pow2[d]
  <2>1. PICK e \in Nat : d = (c + 1) + e
    <3>1. d - (c + 1) \in Nat /\ d = (c + 1) + (d - (c + 1))
      BY <1>1
    <3> QED
      BY <3>1
  <2>2. Pow2[(c + 1) + e] = Pow2[c + 1] * Pow2[e] /\ Pow2[c + 1] = 2 * Pow2[c]
    <3>1. c + 1 \in Nat
      OBVIOUS
    <3> QED
      BY <3>1, PowerSum, PowerEquations
  <2>3. Pow2[c] \in Nat \ {0} /\ Pow2[e] \in Nat \ {0}
    BY PowerEquations
  <2>4. (2 * Pow2[c]) * Pow2[e] >= (2 * Pow2[c]) * 1
    BY <2>3
  <2> QED
    BY <2>1, <2>2, <2>3, <2>4
<1>2. Pow2[a] \in Nat /\ Pow2[b] \in Nat
  BY PowerEquations
<1>3. CASE a < b
  BY <1>1, <1>2, <1>3
<1>4. CASE a = b
  BY <1>2, <1>4
<1>5. CASE a > b
  BY <1>1, <1>2, <1>5
<1> QED
  BY <1>3, <1>4, <1>5

(* Shifting right by n leaves a number of n bits less.                     *)
LEMMA ShiftedRight ==
  ASSUME NEW x \in Nat, NEW n \in Nat, NEW m \in Nat, n <= m, x < Pow2[m]
  PROVE  x \div Pow2[n] \in Nat /\ x \div Pow2[n] < Pow2[m - n]
<1> HIDE DEF Pow2
<1>1. PICK r \in Nat : m = n + r /\ m - n = r
  BY SMT
<1>2. Pow2[m] = Pow2[n] * Pow2[r] /\ Pow2[n] \in Nat \ {0} /\ Pow2[r] \in Nat
  BY <1>1, PowerSum, PowerEquations
<1> DEFINE d == Pow2[n]
           e == Pow2[r]
<1> HIDE DEF d, e
<1>3. x < d * e /\ d \in Nat \ {0} /\ e \in Nat
  BY <1>2 DEF d, e
<1>4. x \div d \in Nat /\ x \div d < e
  BY <1>3
<1> QED
  BY <1>1, <1>4 DEF d, e

(* A code of w bits above n bits makes n + w bits.                         *)
LEMMA ShiftedIn ==
  ASSUME NEW x \in Nat, NEW n \in Nat, NEW c \in Nat, NEW w \in Nat,
         x < Pow2[n], c < Pow2[w]
  PROVE  x + c * Pow2[n] \in Nat /\ x + c * Pow2[n] < Pow2[n + w]
<1> HIDE DEF Pow2
<1>1. Pow2[n + w] = Pow2[n] * Pow2[w] /\ Pow2[n] \in Nat \ {0} /\ Pow2[w] \in Nat \ {0}
  BY PowerSum, PowerEquations
<1> DEFINE d == Pow2[n]
           e == Pow2[w]
<1> HIDE DEF d, e
<1>2. x < d /\ c < e /\ d \in Nat \ {0} /\ e \in Nat \ {0}
  BY <1>1 DEF d, e
<1>3. c * d \in Nat /\ c * d + d <= d * e
  <2>1. (c + 1) * d <= e * d
    BY <1>2
  <2>2. (c + 1) * d = c * d + d /\ e * d = d * e
    BY <1>2
  <2> QED
    BY <1>2, <2>1, <2>2
<1> QED
  BY <1>1, <1>2, <1>3 DEF d, e

-----------------------------------------------------------------------------
-----------------------------------------------------------------------------
(* The object has the fields of StringTable, with their types.             *)
CoderShape(t) ==
  t = [partial |-> t.partial, partialSize |-> t.partialSize, codeSize |-> t.codeSize,
       nextCode |-> t.nextCode, prefix |-> t.prefix, strmap |-> t.strmap,
       firstPixelPassed |-> t.firstPixelPassed, bufferPos |-> t.bufferPos,
       bufferShift |-> t.bufferShift]
CoderType(t) ==
  /\ CoderShape(t)
  /\ t.partial \in Nat /\ t.partialSize \in Nat /\ t.codeSize \in Nat
  /\ t.nextCode \in Nat /\ t.prefix \in Nat
  /\ t.firstPixelPassed \in BOOLEAN /\ t.bufferPos \in Nat /\ t.bufferShift \in Nat

(* Pairs learnt since the table was cleared.                               *)
Learnt(i, t) == t.nextCode - (EndCode(i) + 1)

(* The code table: codes are as long as the next one needs, and every code *)
(* that is in use is smaller than it.  A cleared table knows only pixels.  *)
TableInv(i, t) ==
  /\ t.nextCode \in EndCode(i) + 1 .. MaxCode - 1
  /\ t.codeSize \in MinCodeSize(i) + 1 .. CodeBits
  /\ t.nextCode <= Pow2[t.codeSize]
  /\ Learnt(i, t) <= 1 => t.codeSize = MinCodeSize(i) + 1
  /\ t.prefix < t.nextCode
  /\ \A p \in DOMAIN t.strmap : t.strmap[p] \in EndCode(i) + 1 .. t.nextCode - 1
  /\ Learnt(i, t) = 0 => t.prefix < ClearCode(i)

(* The bits that wait: less than a byte; but a clear code more just after  *)
(* one, and whatever a block had no room for when the next is empty.       *)
BitsInv(i, t, buf) ==
  /\ t.partial < Pow2[t.partialSize]
  /\ \/ t.partialSize < ByteBits
     \/ Learnt(i, t) = 0 /\ t.partialSize < ByteBits + CodeBits
     \/ /\ buf = << >>
        /\ t.partialSize < CASE Learnt(i, t) = 0 -> 2 * CodeBits
                             [] Learnt(i, t) = 1 -> CodeBits + MinCodeSize(i) + 1
                             [] OTHER -> CodeBits

(* Where the coder is in the bytes of a line, counted in pixels.           *)
Column(i, t) == (t.bufferPos * ByteBits + ByteBits - i.bpp - t.bufferShift) \div i.bpp
PlaceInv(i, t) ==
  /\ t.bufferPos <= LineBytes(i)
  /\ \E s \in Nat : t.bufferShift = s * i.bpp /\ s < ByteBits \div i.bpp
  /\ t.bufferPos + 1 = LineBytes(i) => t.bufferShift >= Slack(i)

RowInv(i, at, t) ==
  /\ at.y \in Nat /\ at.pass \in 0..4
  /\ at = [y |-> at.y, pass |-> at.pass, buf |-> at.buf]
  /\ at.y < i.height => at.pass \in 0..3
  /\ t.bufferPos < LineBytes(i) => at.y < i.height

FullBlock(block) == block.len = BlockLen /\ Len(block.bytes) = BlockLen
FileOk(f, p, cut) ==
  /\ f \in Seq([len : 0..BlockLen, bytes : Seq(Bytes)])
  /\ \A k \in 1..Len(f) :
       /\ f[k] # End =>
            /\ f[k].len \in 1..BlockLen
            /\ k < Len(f) => Len(f[k].bytes) = f[k].len
            /\ k + 1 < Len(f) /\ f[k+1] # End => f[k].len = BlockLen
       /\ f[k] = End => k = Len(f) /\ p # "saving"
  /\ p = "saving" /\ ~cut => \A k \in 1..Len(f) : FullBlock(f[k])

(* All of it: the coder with the row and the block of Save, and the file.  *)
CoderOk(i, t, at) ==
  /\ CoderType(t) /\ TableInv(i, t)
  /\ at.buf \in Seq(Bytes) /\ Len(at.buf) < BlockLen
  /\ BitsInv(i, t, at.buf)
  /\ PlaceInv(i, t)
  /\ RowInv(i, at, t)
CoderInv ==
  /\ image \in Images
  /\ phase \in {"saving", "overrun", "saved", "refused", "loading", "loaded"}
  /\ full \in BOOLEAN
  /\ CoderOk(image, enc, save)
  /\ FileOk(file, phase, full)

-----------------------------------------------------------------------------
(* What pictures and parameters let the codes be.                          *)
LEMMA ImageFacts ==
  ASSUME NEW i \in Images
  PROVE  /\ i.width \in Nat \ {0} /\ i.height \in Nat \ {0}
         /\ i.bpp \in Nat \ {0} /\ i.bpp <= ByteBits
         /\ ByteBits \in Nat \ {0, 1} /\ CodeBits \in Nat /\ ByteBits < CodeBits
         /\ CodeBits < 2 * ByteBits
         /\ MinCodeSize(i) \in Nat /\ 2 <= MinCodeSize(i) /\ i.bpp <= MinCodeSize(i)
         /\ MinCodeSize(i) <= ByteBits
         /\ ClearCode(i) \in Nat /\ ClearCode(i) >= 4 /\ EndCode(i) = ClearCode(i) + 1
         /\ Pow2[i.bpp] \in Nat \ {0} /\ Pow2[i.bpp] <= ClearCode(i)
         /\ Pow2[MinCodeSize(i) + 1] = 2 * ClearCode(i)
         /\ MaxCode \in Nat /\ 2 * ClearCode(i) <= MaxCode
<1> HIDE DEF Pow2
<1>1. /\ i.width \in Nat \ {0} /\ i.height \in Nat \ {0} /\ i.bpp \in 1..ByteBits
      /\ ByteBits \in Nat \ {0, 1} /\ CodeBits \in Nat /\ ByteBits < CodeBits
      /\ CodeBits < 2 * ByteBits
  BY ImageAssumption, WidthAssumption
<1>2. MinCodeSize(i) \in 2..ByteBits /\ i.bpp <= MinCodeSize(i)
  BY <1>1 DEF MinCodeSize
<1> DEFINE m == MinCodeSize(i)
<1> HIDE DEF m
<1>3. m \in Nat /\ m \in 2..ByteBits /\ i.bpp <= m
  BY <1>1, <1>2 DEF m
<1>4. Pow2[0] = 1 /\ Pow2[0 + 1] = 2 * Pow2[0] /\ Pow2[1 + 1] = 2 * Pow2[1]
  BY PowerEquations
<1>5. Pow2[2] = 4
  BY <1>4
<1>6. Pow2[2] <= Pow2[m] /\ Pow2[i.bpp] <= Pow2[m] /\ Pow2[m + 1] <= Pow2[CodeBits]
  BY <1>1, <1>3, PowerGrows
<1>7. /\ Pow2[m] \in Nat \ {0} /\ Pow2[m + 1] = 2 * Pow2[m] /\ Pow2[i.bpp] \in Nat \ {0}
      /\ Pow2[CodeBits] \in Nat
  BY <1>1, <1>3, PowerEquations
<1> QED
  BY <1>1, <1>3, <1>5, <1>6, <1>7 DEF ClearCode, EndCode, MaxCode, m

(* Learning a pair keeps the table in order.  When the last code is given  *)
(* away the table is cleared, and a clear code goes to the bits.           *)
Cleared(i, t, u) ==
  \E w \in Nat : /\ w <= CodeBits /\ ClearCode(i) < Pow2[w]
                 /\ u.partial = t.partial + ClearCode(i) * Pow2[t.partialSize]
                 /\ u.partialSize = t.partialSize + w
                 /\ Learnt(i, u) = 0 /\ Learnt(i, t) > 0
Kept(i, t, u) ==
  /\ u.partial = t.partial /\ u.partialSize = t.partialSize
  /\ Learnt(i, u) = Learnt(i, t) + 1
Elsewhere(t, u) ==
  /\ u.bufferPos = t.bufferPos /\ u.bufferShift = t.bufferShift
  /\ u.firstPixelPassed = t.firstPixelPassed

(* Enter gives a pair the next code and leaves the rest alone.             *)
LEMMA EnterFacts ==
  ASSUME NEW t, CoderShape(t), NEW pair, NEW e,
         e = Enter(t, pair, t.nextCode = Pow2[t.codeSize])
  PROVE  /\ CoderShape(e) /\ Elsewhere(t, e)
         /\ e.partial = t.partial /\ e.partialSize = t.partialSize /\ e.prefix = t.prefix
         /\ e.nextCode = t.nextCode + 1
         /\ e.codeSize = IF t.nextCode = Pow2[t.codeSize] THEN t.codeSize + 1 ELSE t.codeSize
         /\ e.strmap = [p \in DOMAIN t.strmap \union {pair} |->
                          IF p = pair THEN t.nextCode ELSE t.strmap[p]]
<1> HIDE DEF Pow2
<1>1. CoderShape(e)
  BY DEF CoderShape, Enter
<1>2. Elsewhere(t, e) /\ e.partial = t.partial /\ e.partialSize = t.partialSize /\ e.prefix = t.prefix
  BY DEF CoderShape, Enter, Elsewhere
<1>3. /\ e.nextCode = t.nextCode + 1
      /\ e.codeSize = IF t.nextCode = Pow2[t.codeSize] THEN t.codeSize + 1 ELSE t.codeSize
  BY DEF CoderShape, Enter
<1>4. e.strmap = [p \in DOMAIN t.strmap \union {pair} |->
                    IF p = pair THEN t.nextCode ELSE t.strmap[p]]
  BY DEF CoderShape, Enter
<1> QED
  BY <1>1, <1>2, <1>3, <1>4

(* PutCode touches the bits only.                                          *)
LEMMA PutFacts ==
  ASSUME NEW t, CoderShape(t), NEW code, NEW c, c = PutCode(t, code)
  PROVE  /\ CoderShape(c) /\ Elsewhere(t, c)
         /\ c.partial = t.partial + code * Pow2[t.partialSize]
         /\ c.partialSize = t.partialSize + t.codeSize
         /\ c.codeSize = t.codeSize /\ c.nextCode = t.nextCode
         /\ c.prefix = t.prefix /\ c.strmap = t.strmap
<1> HIDE DEF Pow2
<1>1. CoderShape(c)
  BY DEF CoderShape, PutCode
<1>2. Elsewhere(t, c)
  BY DEF CoderShape, PutCode, Elsewhere
<1>3. /\ c.codeSize = t.codeSize /\ c.nextCode = t.nextCode
      /\ c.prefix = t.prefix /\ c.strmap = t.strmap
  BY DEF CoderShape, PutCode
<1>4. /\ c.partial = t.partial + code * Pow2[t.partialSize]
      /\ c.partialSize = t.partialSize + t.codeSize
  BY DEF CoderShape, PutCode
<1> QED
  BY <1>1, <1>2, <1>3, <1>4

(* DropBits touches the bits only.                                         *)
LEMMA DropFacts ==
  ASSUME NEW t, CoderShape(t), NEW n, NEW d, d = DropBits(t, n)
  PROVE  /\ CoderShape(d) /\ Elsewhere(t, d)
         /\ d.partial = t.partial \div Pow2[n] /\ d.partialSize = t.partialSize - n
         /\ d.codeSize = t.codeSize /\ d.nextCode = t.nextCode
         /\ d.prefix = t.prefix /\ d.strmap = t.strmap
<1> HIDE DEF Pow2
<1>1. CoderShape(d)
  BY DEF CoderShape, DropBits
<1>2. Elsewhere(t, d)
  BY DEF CoderShape, DropBits, Elsewhere
<1>3. /\ d.codeSize = t.codeSize /\ d.nextCode = t.nextCode
      /\ d.prefix = t.prefix /\ d.strmap = t.strmap
  BY DEF CoderShape, DropBits
<1>4. d.partial = t.partial \div Pow2[n] /\ d.partialSize = t.partialSize - n
  BY DEF CoderShape, DropBits
<1> QED
  BY <1>1, <1>2, <1>3, <1>4

(* Clearing the table leaves the bits alone.                               *)
LEMMA ClearFacts ==
  ASSUME NEW i, NEW t, CoderShape(t), NEW u, u = ClearedCompressor(i, t)
  PROVE  /\ CoderShape(u) /\ Elsewhere(t, u)
         /\ u.partial = t.partial /\ u.partialSize = t.partialSize
         /\ u.nextCode = EndCode(i) + 1 /\ u.codeSize = MinCodeSize(i) + 1
         /\ u.prefix = 0 /\ u.strmap = << >>
<1>1. CoderShape(u)
  BY DEF CoderShape, ClearedCompressor
<1>2. Elsewhere(t, u) /\ u.partial = t.partial /\ u.partialSize = t.partialSize
  BY DEF CoderShape, ClearedCompressor, Elsewhere
<1>3. /\ u.nextCode = EndCode(i) + 1 /\ u.codeSize = MinCodeSize(i) + 1
      /\ u.prefix = 0 /\ u.strmap = << >>
  BY DEF CoderShape, ClearedCompressor
<1> QED
  BY <1>1, <1>2, <1>3

(* Learning a pair keeps the table in order, cleared or not.               *)
LEMMA LearnKeeps ==
  ASSUME NEW i \in Images, NEW t, CoderType(t), TableInv(i, t), NEW pair,
         NEW u, u = Learn(i, t, pair)
  PROVE  /\ CoderType(u) /\ TableInv(i, u)
         /\ Elsewhere(t, u)
         /\ Cleared(i, t, u) \/ Kept(i, t, u)
<1> HIDE DEF Pow2
<1> DEFINE e == Enter(t, pair, t.nextCode = Pow2[t.codeSize])
           m == MinCodeSize(i)
           clear == ClearCode(i)
<1>1. /\ m \in Nat /\ 2 <= m /\ m <= ByteBits /\ clear \in Nat /\ clear >= 4
      /\ EndCode(i) = clear + 1 /\ MaxCode \in Nat /\ 2 * clear <= MaxCode
      /\ Pow2[m + 1] = 2 * clear /\ CodeBits \in Nat /\ m + 1 <= CodeBits
  BY ImageFacts
<1>2. /\ t.nextCode \in Nat /\ t.codeSize \in Nat /\ t.partial \in Nat /\ t.partialSize \in Nat
      /\ clear + 2 <= t.nextCode /\ t.nextCode <= MaxCode - 1
      /\ m + 1 <= t.codeSize /\ t.codeSize <= CodeBits
      /\ t.nextCode <= Pow2[t.codeSize] /\ t.prefix \in Nat /\ t.prefix < t.nextCode
      /\ t.nextCode - (clear + 2) <= 1 => t.codeSize = m + 1
      /\ \A p \in DOMAIN t.strmap : t.strmap[p] \in clear + 2 .. t.nextCode - 1
  BY <1>1 DEF CoderType, TableInv, Learnt
<1>3. /\ CoderShape(e) /\ Elsewhere(t, e)
      /\ e.partial = t.partial /\ e.partialSize = t.partialSize /\ e.prefix = t.prefix
      /\ e.nextCode = t.nextCode + 1
      /\ e.codeSize = IF t.nextCode = Pow2[t.codeSize] THEN t.codeSize + 1 ELSE t.codeSize
      /\ e.strmap = [p \in DOMAIN t.strmap \union {pair} |->
                       IF p = pair THEN t.nextCode ELSE t.strmap[p]]
  BY EnterFacts DEF CoderType
<1> HIDE DEF e
<1>9. e.codeSize \in Nat /\ t.codeSize <= e.codeSize
  BY <1>2, <1>3
<1>4. e.codeSize <= CodeBits
  <2>1. CASE t.nextCode = Pow2[t.codeSize]
    <3>1. Pow2[t.codeSize] < Pow2[CodeBits]
      BY <1>1, <1>2, <2>1 DEF MaxCode
    <3>2. t.codeSize < CodeBits
      BY <1>1, <1>2, <3>1, PowerGrows
    <3> QED
      BY <1>1, <1>2, <1>3, <3>2
  <2>2. CASE t.nextCode # Pow2[t.codeSize]
    BY <1>2, <1>3, <2>2
  <2> QED
    BY <2>1, <2>2
<1>5. e.nextCode <= Pow2[e.codeSize]
  <2>1. Pow2[t.codeSize + 1] = 2 * Pow2[t.codeSize] /\ Pow2[t.codeSize] \in Nat \ {0}
    BY <1>2, PowerEquations
  <2> QED
    BY <1>2, <1>3, <2>1
<1>6. CASE e.nextCode = MaxCode
  <2> DEFINE c == PutCode(e, ClearCode(i))
  <2>1. /\ u = ClearedCompressor(i, c)
    BY <1>6 DEF Learn, ClearWhenOut, e
  <2>2. /\ CoderShape(c) /\ Elsewhere(e, c)
        /\ c.partial = t.partial + clear * Pow2[t.partialSize]
        /\ c.partialSize = t.partialSize + e.codeSize
    BY <1>3, PutFacts
  <2> HIDE DEF c
  <2>3. /\ CoderShape(u) /\ Elsewhere(c, u)
        /\ u.partial = c.partial /\ u.partialSize = c.partialSize
        /\ u.nextCode = clear + 2 /\ u.codeSize = m + 1 /\ u.prefix = 0
        /\ u.strmap = << >>
    <3>1. EndCode(i) + 1 = clear + 2
      BY <1>1
    <3> QED
      BY <2>1, <2>2, <3>1, ClearFacts
  <2>7. Elsewhere(t, u)
    BY <1>3, <2>2, <2>3 DEF Elsewhere
  <2>8. u.partial \in Nat /\ u.partialSize \in Nat
    <3>1. clear * Pow2[t.partialSize] \in Nat
      BY <1>1, <1>2, PowerEquations
    <3> QED
      BY <1>2, <1>9, <2>2, <2>3, <3>1, SMTT(30)
  <2>9. CoderType(u)
    <3>1. u.codeSize \in Nat /\ u.nextCode \in Nat /\ u.prefix \in Nat
      BY <1>1, <2>3
    <3> QED
      BY <2>3, <2>7, <2>8, <3>1 DEF CoderType, Elsewhere
  <2>4. TableInv(i, u)
    BY <1>1, <2>3, SMTT(30) DEF TableInv, Learnt
  <2>5. clear < Pow2[e.codeSize]
    <3>1. Pow2[m + 1] <= Pow2[e.codeSize]
      BY <1>1, <1>2, <1>9, PowerGrows
    <3>2. Pow2[e.codeSize] \in Nat
      BY <1>9, PowerEquations
    <3> QED
      BY <1>1, <3>1, <3>2
  <2>6. Cleared(i, t, u)
    <3>1. e.codeSize \in Nat /\ Learnt(i, u) = 0 /\ Learnt(i, t) > 0
      <4>1. u.nextCode = EndCode(i) + 1 /\ EndCode(i) + 1 = clear + 2
        BY <1>1, <2>3
      <4>2. t.nextCode = MaxCode - 1 /\ MaxCode - 1 > clear + 2
        BY <1>1, <1>2, <1>3, <1>6
      <4> QED
        BY <1>1, <1>2, <1>9, <4>1, <4>2 DEF Learnt
    <3> QED
      BY <1>4, <2>2, <2>3, <2>5, <3>1 DEF Cleared
  <2> QED
    BY <2>4, <2>6, <2>7, <2>9
<1>7. CASE e.nextCode # MaxCode
  <2>1. u = e
    BY <1>7 DEF Learn, ClearWhenOut, e
  <2>2. \A p \in DOMAIN e.strmap : e.strmap[p] \in clear + 2 .. e.nextCode - 1
    BY <1>1, <1>2, <1>3
  <2>3. e.nextCode - (clear + 2) <= 1 => e.codeSize = m + 1
    <3>1. SUFFICES ASSUME e.nextCode - (clear + 2) <= 1 PROVE e.codeSize = m + 1
      OBVIOUS
    <3>2. t.nextCode = clear + 2 /\ t.codeSize = m + 1
      BY <1>1, <1>2, <1>3, <3>1
    <3> QED
      BY <1>1, <1>3, <3>2
  <2>4. TableInv(i, e)
    BY <1>1, <1>2, <1>3, <1>4, <1>5, <1>7, <2>2, <2>3 DEF TableInv, Learnt
  <2>6. CoderType(e)
    BY <1>2, <1>3 DEF CoderType, Elsewhere
  <2>5. Kept(i, t, e)
    BY <1>1, <1>2, <1>3 DEF Kept, Learnt
  <2> QED
    BY <2>1, <2>4, <2>5, <2>6, <1>3
<1> QED
  BY <1>6, <1>7

-----------------------------------------------------------------------------
(* The bytes that leave the bits, as many as asked for.                    *)
LEMMA LowBytesFacts ==
  ASSUME NEW t, t.partial \in Nat, NEW n \in Nat
  PROVE  LowBytes(t, n) \in Seq(Bytes) /\ Len(LowBytes(t, n)) = n
<1> HIDE DEF Pow2
<1>1. ByteBits \in Nat /\ Pow2[ByteBits] \in Nat \ {0}
  BY WidthAssumption, PowerEquations
<1>2. ASSUME NEW k \in 1..n
      PROVE  (t.partial \div Pow2[ByteBits * (k-1)]) % Pow2[ByteBits] \in Bytes
  <2>1. ByteBits * (k-1) \in Nat
    BY <1>1
  <2>2. Pow2[ByteBits * (k-1)] \in Nat \ {0}
    BY <2>1, PowerEquations
  <2>3. t.partial \div Pow2[ByteBits * (k-1)] \in Nat
    BY <2>2
  <2> QED
    BY <1>1, <2>3 DEF Bytes
<1> QED
  BY <1>2 DEF LowBytes

(* The ranges of the coder's fields, as numbers.                           *)
LEMMA CoderNumbers ==
  ASSUME NEW i \in Images, NEW t, CoderType(t), TableInv(i, t)
  PROVE  /\ t.partialSize \in Nat /\ t.codeSize \in Nat /\ t.codeSize <= CodeBits
         /\ MinCodeSize(i) + 1 <= t.codeSize
         /\ Learnt(i, t) \in Nat
         /\ Learnt(i, t) <= 1 => t.codeSize = MinCodeSize(i) + 1
<1>1. ClearCode(i) \in Nat /\ EndCode(i) = ClearCode(i) + 1 /\ MinCodeSize(i) \in Nat
  BY ImageFacts
<1> QED
  BY <1>1 DEF TableInv, CoderType, Learnt

(* Dividing what waits into bytes, of which only so many find room.        *)
LEMMA TakeBytes ==
  ASSUME NEW all \in Nat, NEW b \in Nat \ {0}, NEW room \in Nat
  PROVE  LET n == Smaller(all \div b, room) IN
         /\ n \in 0..room /\ n * b \in Nat /\ n * b <= all
         /\ all - n * b < b \/ (n = room /\ n * b + b <= all)
<1> DEFINE q == all \div b
<1>1. q \in Nat /\ q * b <= all /\ all < q * b + b /\ q * b \in Nat
  OBVIOUS
<1> HIDE DEF q
<1>2. CASE q <= room
  <2>1. Smaller(q, room) = q
    BY <1>1, <1>2 DEF Smaller
  <2> QED
    BY <1>1, <1>2, <2>1 DEF q
<1>3. CASE q > room
  <2>1. Smaller(q, room) = room
    BY <1>1, <1>3 DEF Smaller
  <2>2. (room + 1) * b <= q * b
    BY <1>1, <1>3
  <2>3. (room + 1) * b = room * b + b /\ room * b \in Nat
    OBVIOUS
  <2> QED
    BY <1>1, <1>3, <2>1, <2>2, <2>3 DEF q
<1> QED
  BY <1>1, <1>2, <1>3

(* What is left of the bits of a code when the block has taken its bytes:  *)
(* less than a byte, or the block is full.                                 *)
LEMMA EmitLeft ==
  ASSUME NEW i \in Images, NEW t, CoderType(t), TableInv(i, t),
         NEW buf \in Seq(Bytes), Len(buf) < BlockLen, BitsInv(i, t, buf),
         NEW n \in Nat, NEW left \in Nat, left + n * ByteBits = t.partialSize + t.codeSize,
         n = BlockLen - Len(buf), left >= ByteBits
  PROVE  /\ Learnt(i, t) = 0 => left < CodeBits + MinCodeSize(i) + 1
         /\ Learnt(i, t) # 0 => left < CodeBits
<1> DEFINE m == MinCodeSize(i)
           all == t.partialSize + t.codeSize
           room == BlockLen - Len(buf)
           fresh == Learnt(i, t)
<1>1. /\ m \in Nat /\ m <= ByteBits /\ ByteBits \in Nat \ {0, 1} /\ CodeBits \in Nat
      /\ ByteBits < CodeBits /\ CodeBits < 2 * ByteBits
  BY ImageFacts
<1>2. /\ t.partialSize \in Nat /\ t.codeSize \in Nat /\ t.codeSize <= CodeBits
      /\ m + 1 <= t.codeSize
      /\ fresh \in Nat
      /\ fresh <= 1 => t.codeSize = m + 1
  BY CoderNumbers
<1>3. room \in Nat \ {0} /\ Len(buf) \in Nat /\ BlockLen \in Nat /\ BlockLen > 6
  BY WidthAssumption, LenProperties
<1>4. \/ t.partialSize < ByteBits
      \/ fresh = 0 /\ t.partialSize < ByteBits + CodeBits
      \/ room = BlockLen /\ t.partialSize < 2 * CodeBits
  <2>1. CASE buf = << >> /\ t.partialSize < CASE fresh = 0 -> 2 * CodeBits
                                              [] fresh = 1 -> CodeBits + m + 1
                                              [] OTHER -> CodeBits
    <3>1. Len(buf) = 0
      BY <2>1, EmptySeq
    <3>2. t.partialSize < 2 * CodeBits
      BY <1>1, <1>2, <2>1, SMTT(30)
    <3> QED
      BY <1>3, <3>1, <3>2
  <2> QED
    BY <2>1 DEF BitsInv
<1> DEFINE nb == n * ByteBits
<1>5. nb \in Nat /\ all \in Nat /\ left + nb = all
  BY <1>1, <1>2, SMTT(30)
<1>6. nb >= ByteBits
  BY <1>1, <1>3
<1>7. room = BlockLen => nb >= 7 * ByteBits
  BY <1>1, <1>3
<1>8. all = t.partialSize + t.codeSize
  OBVIOUS
<1> HIDE DEF m, room, fresh, all, nb
<1>9. ~(room = BlockLen /\ t.partialSize < 2 * CodeBits)
  BY <1>1, <1>2, <1>5, <1>7, <1>8, SMTT(30)
<1>10. CASE t.partialSize < ByteBits
  <2>1. left < CodeBits
    BY <1>1, <1>2, <1>5, <1>6, <1>8, <1>10, SMTT(30)
  <2> QED
    BY <1>1, <2>1 DEF m
<1>11. CASE fresh = 0 /\ t.partialSize < ByteBits + CodeBits
  <2>1. left < CodeBits + m + 1
    BY <1>1, <1>2, <1>5, <1>6, <1>8, <1>11, SMTT(30)
  <2> QED
    BY <1>11, <2>1 DEF m, fresh
<1> QED
  BY <1>4, <1>9, <1>10, <1>11

(* What putting out the code of the prefix does to the bits, and what it   *)
(* gives to the block.                                                     *)
Taken(t, buf, n, left, d, bytes, rest) ==
  /\ n \in 0..(BlockLen - Len(buf)) /\ left \in Nat
  /\ left + n * ByteBits = t.partialSize + t.codeSize
  /\ left < ByteBits \/ n = BlockLen - Len(buf)
  /\ CoderShape(d) /\ Elsewhere(t, d)
  /\ d.partial \in Nat /\ d.partial < Pow2[left] /\ d.partialSize = left
  /\ d.codeSize = t.codeSize /\ d.nextCode = t.nextCode
  /\ d.prefix = t.prefix /\ d.strmap = t.strmap
  /\ bytes \in Seq(Bytes) /\ Len(bytes) = Len(buf) + n
  /\ rest = IF Len(bytes) = BlockLen THEN << >> ELSE bytes

(* What the code of the prefix, cut into bytes, leaves and gives.          *)
LEMMA EmitTakes ==
  ASSUME NEW i \in Images, NEW t, CoderType(t), TableInv(i, t),
         NEW buf \in Seq(Bytes), Len(buf) < BlockLen, BitsInv(i, t, buf)
  PROVE  LET put == PutCode(t, t.prefix)
             n == FullBytes(put, BlockLen - Len(buf))
             bytes == buf \o LowBytes(put, n)
         IN  Taken(t, buf, n, (t.partialSize + t.codeSize) - n * ByteBits,
                   DropBits(put, n * ByteBits), bytes,
                   IF Len(bytes) = BlockLen THEN << >> ELSE bytes)
<1> HIDE DEF Pow2
<1> DEFINE all == t.partialSize + t.codeSize
           room == BlockLen - Len(buf)
<1>1. PICK put : put = PutCode(t, t.prefix)
  OBVIOUS
<1>2. PICK n : n = FullBytes(put, room)
  OBVIOUS
<1>3. PICK d : d = DropBits(put, n * ByteBits)
  OBVIOUS
<1>4. PICK bytes : bytes = buf \o LowBytes(put, n)
  OBVIOUS
<1>5. /\ t.partialSize \in Nat /\ t.codeSize \in Nat /\ t.partial \in Nat /\ t.prefix \in Nat
      /\ CoderShape(t) /\ ByteBits \in Nat \ {0}
  BY WidthAssumption DEF CoderType
<1>6. Len(buf) \in Nat /\ BlockLen \in Nat /\ BlockLen > 6 /\ room \in Nat \ {0}
  BY WidthAssumption, LenProperties
<1>7. /\ CoderShape(put) /\ Elsewhere(t, put)
      /\ put.partial = t.partial + t.prefix * Pow2[t.partialSize]
      /\ put.partialSize = t.partialSize + t.codeSize
      /\ put.codeSize = t.codeSize /\ put.nextCode = t.nextCode
      /\ put.prefix = t.prefix /\ put.strmap = t.strmap
  BY <1>1, <1>5, PutFacts
<1>8. all \in Nat /\ put.partialSize = all
  BY <1>5, <1>7
<1>9. put.partial \in Nat /\ put.partial < Pow2[all]
  <2>1. t.prefix < Pow2[t.codeSize]
    <3>1. t.prefix < t.nextCode /\ t.nextCode <= Pow2[t.codeSize] /\ t.nextCode \in Nat
      BY DEF TableInv, CoderType
    <3>2. Pow2[t.codeSize] \in Nat
      BY <1>5, PowerEquations
    <3> QED
      BY <1>5, <3>1, <3>2
  <2>2. t.partial < Pow2[t.partialSize]
    BY DEF BitsInv
  <2>3. t.partial + t.prefix * Pow2[t.partialSize] \in Nat
        /\ t.partial + t.prefix * Pow2[t.partialSize] < Pow2[t.partialSize + t.codeSize]
    BY <1>5, <2>1, <2>2, ShiftedIn
  <2> QED
    BY <1>7, <2>3
<1> HIDE DEF all, room
<1>10. /\ n \in 0..room /\ n * ByteBits \in Nat /\ n * ByteBits <= all
       /\ all - n * ByteBits < ByteBits \/ n = room
  <2>1. n = Smaller(all \div ByteBits, room)
    BY <1>2, <1>8 DEF FullBytes
  <2> QED
    BY <1>5, <1>6, <1>8, <2>1, TakeBytes
<1>11. PICK nb \in Nat : nb = n * ByteBits
  BY <1>10
<1>12. PICK left \in Nat : left = all - nb
  BY <1>8, <1>10, <1>11
<1>13. /\ CoderShape(d) /\ Elsewhere(put, d)
       /\ d.partial = put.partial \div Pow2[nb]
       /\ d.partialSize = put.partialSize - nb
       /\ d.codeSize = put.codeSize /\ d.nextCode = put.nextCode
       /\ d.prefix = put.prefix /\ d.strmap = put.strmap
  <2>1. d = DropBits(put, nb)
    BY <1>3, <1>11
  <2> QED
    BY <1>7, <2>1, DropFacts
<1>14. d.partial \in Nat /\ d.partial < Pow2[left]
  <2>1. put.partial \div Pow2[nb] \in Nat /\ put.partial \div Pow2[nb] < Pow2[all - nb]
    BY <1>8, <1>9, <1>10, <1>11, ShiftedRight
  <2> QED
    BY <1>12, <1>13, <2>1
<1>15. Elsewhere(t, d)
  BY <1>7, <1>13 DEF Elsewhere
<1>16. bytes \in Seq(Bytes) /\ Len(bytes) = Len(buf) + n
  <2>1. LowBytes(put, n) \in Seq(Bytes) /\ Len(LowBytes(put, n)) = n
    BY <1>9, <1>10, LowBytesFacts
  <2> QED
    BY <1>4, <2>1, ConcatProperties
<1>17. /\ left + nb = all /\ d.partialSize = left
       /\ left < ByteBits \/ n = room
  BY <1>5, <1>8, <1>10, <1>11, <1>12, <1>13
<1>18. /\ d.codeSize = t.codeSize /\ d.nextCode = t.nextCode
       /\ d.prefix = t.prefix /\ d.strmap = t.strmap
  BY <1>7, <1>13
<1>19. left + n * ByteBits = t.partialSize + t.codeSize /\ (left < ByteBits \/ n = BlockLen - Len(buf))
       /\ n \in 0..(BlockLen - Len(buf))
  BY <1>10, <1>11, <1>17 DEF all, room
<1>20. Taken(t, buf, n, left, d, bytes, IF Len(bytes) = BlockLen THEN << >> ELSE bytes)
  BY <1>13, <1>14, <1>15, <1>16, <1>17, <1>18, <1>19, Zenon DEF Taken
<1>21. left = (t.partialSize + t.codeSize) - n * ByteBits
  BY <1>11, <1>12, Zenon DEF all
<1> QED
  BY <1>1, <1>2, <1>3, <1>4, <1>20, <1>21, Zenon DEF room

(* Putting out the code of the prefix and learning a pair.                 *)
LEMMA EmitKeeps ==
  ASSUME NEW i \in Images, NEW t, CoderType(t), TableInv(i, t),
         NEW buf \in Seq(Bytes), Len(buf) < BlockLen, BitsInv(i, t, buf), NEW pair,
         NEW n, NEW left, NEW d, NEW bytes, NEW rest, Taken(t, buf, n, left, d, bytes, rest),
         NEW u, u = Learn(i, d, pair)
  PROVE  /\ CoderType(u) /\ TableInv(i, u) /\ Elsewhere(t, u)
         /\ bytes \in Seq(Bytes) /\ Len(bytes) <= BlockLen
         /\ rest \in Seq(Bytes) /\ Len(rest) < BlockLen
         /\ BitsInv(i, u, rest)
<1> HIDE DEF Pow2
<1> DEFINE m == MinCodeSize(i)
<1>1. /\ m \in Nat /\ m <= ByteBits /\ ByteBits \in Nat \ {0, 1} /\ CodeBits \in Nat
      /\ ByteBits < CodeBits /\ CodeBits < 2 * ByteBits /\ ClearCode(i) \in Nat
  BY ImageFacts
<1>3. Len(buf) \in Nat /\ BlockLen \in Nat /\ BlockLen > 6
  BY WidthAssumption, LenProperties
<1>4. /\ CoderShape(d) /\ d.codeSize = t.codeSize /\ d.nextCode = t.nextCode
      /\ d.prefix = t.prefix /\ d.strmap = t.strmap
      /\ n \in 0..(BlockLen - Len(buf)) /\ left \in Nat
  BY DEF Taken
<1>7. \/ left < ByteBits
      \/ /\ n = BlockLen - Len(buf)
         /\ Learnt(i, t) = 0 => left < CodeBits + m + 1
         /\ Learnt(i, t) # 0 => left < CodeBits
  <2>1. CASE left < ByteBits
    BY <2>1
  <2>2. CASE left >= ByteBits
    <3>1. n = BlockLen - Len(buf) /\ left + n * ByteBits = t.partialSize + t.codeSize
      BY <1>1, <1>4, <2>2 DEF Taken
    <3> QED
      BY <1>3, <1>4, <2>2, <3>1, EmitLeft
  <2> QED
    BY <1>1, <1>4, <2>1, <2>2
<1>10. d.partialSize = left
  BY DEF Taken
<1>11. d.partial \in Nat /\ d.partial < Pow2[left]
  BY DEF Taken
<1>12. Elsewhere(t, d)
  BY DEF Taken
<1>13. CoderType(d)
  BY <1>4, <1>10, <1>11, <1>12 DEF CoderType, Elsewhere
<1>14. TableInv(i, d) /\ Learnt(i, d) = Learnt(i, t)
  BY <1>4 DEF TableInv, Learnt
<1>15. CoderType(u) /\ TableInv(i, u) /\ Elsewhere(d, u) /\ (Cleared(i, d, u) \/ Kept(i, d, u))
  BY <1>13, <1>14, LearnKeeps
<1>16. /\ bytes \in Seq(Bytes) /\ Len(bytes) = Len(buf) + n
       /\ rest = IF Len(bytes) = BlockLen THEN << >> ELSE bytes
  BY DEF Taken
<1>17. rest \in Seq(Bytes) /\ Len(rest) < BlockLen
  BY <1>3, <1>4, <1>16, EmptySeq
<1>18. n = BlockLen - Len(buf) => rest = << >>
  BY <1>3, <1>4, <1>16
<1>19. BitsInv(i, u, rest)
  <2>1. Learnt(i, t) \in Nat
    <3>1. EndCode(i) + 1 \in Nat
      BY ImageFacts
    <3> QED
      BY <3>1 DEF TableInv, CoderType, Learnt
  <2>2. CASE Kept(i, d, u)
    <3>1. /\ u.partial = d.partial /\ u.partialSize = left /\ Learnt(i, u) = Learnt(i, t) + 1
      BY <1>10, <1>14, <2>2 DEF Kept
    <3>2. CASE left < ByteBits
      BY <1>11, <3>1, <3>2 DEF BitsInv
    <3>3. CASE ~(left < ByteBits) /\ Learnt(i, t) = 0
      <4>1. rest = << >> /\ left < CodeBits + m + 1 /\ Learnt(i, u) = 1
        BY <1>7, <1>18, <3>1, <3>3
      <4> QED
        BY <1>11, <3>1, <4>1 DEF BitsInv
    <3>4. CASE ~(left < ByteBits) /\ Learnt(i, t) # 0
      <4>1. rest = << >> /\ left < CodeBits /\ Learnt(i, u) # 0 /\ Learnt(i, u) # 1
        BY <1>7, <1>18, <2>1, <3>1, <3>4
      <4> QED
        BY <1>11, <3>1, <4>1 DEF BitsInv
    <3> QED
      BY <3>2, <3>3, <3>4
  <2>3. CASE Cleared(i, d, u)
    <3>1. PICK w \in Nat : /\ w <= CodeBits /\ ClearCode(i) < Pow2[w]
                           /\ u.partial = d.partial + ClearCode(i) * Pow2[d.partialSize]
                           /\ u.partialSize = d.partialSize + w
                           /\ Learnt(i, u) = 0 /\ Learnt(i, d) > 0
      BY <2>3 DEF Cleared
    <3>2. u.partial < Pow2[u.partialSize]
      <4>1. d.partial + ClearCode(i) * Pow2[left] < Pow2[left + w]
        BY <1>1, <1>4, <1>11, <3>1, ShiftedIn
      <4> QED
        BY <1>10, <3>1, <4>1
    <3>3. u.partialSize = left + w
      BY <1>10, <3>1
    <3>4. CASE left < ByteBits
      <4>1. u.partialSize < ByteBits + CodeBits
        BY <1>1, <1>4, <3>1, <3>3, <3>4
      <4> QED
        BY <3>1, <3>2, <4>1 DEF BitsInv
    <3>5. CASE ~(left < ByteBits)
      <4>1. rest = << >> /\ left < CodeBits
        BY <1>7, <1>14, <1>18, <2>1, <3>1, <3>5
      <4>2. u.partialSize < 2 * CodeBits
        BY <1>1, <1>4, <3>1, <3>3, <4>1
      <4> QED
        BY <3>1, <3>2, <4>1, <4>2 DEF BitsInv
    <3> QED
      BY <3>4, <3>5
  <2> QED
    BY <1>15, <2>2, <2>3
<1>20. Elsewhere(t, u)
  BY <1>12, <1>15 DEF Elsewhere
<1> QED
  BY <1>3, <1>4, <1>15, <1>16, <1>17, <1>19, <1>20

-----------------------------------------------------------------------------
(* Bytes and slack of a line, counted in pixels.                           *)
Units(i, q, z) ==
  /\ q \in Nat \ {0} /\ z \in Nat /\ z < q
  /\ ByteBits = q * i.bpp /\ ByteBits \div i.bpp = q
  /\ LineBytes(i) \in Nat \ {0} /\ LineBytes(i) * q = i.width + z
  /\ Slack(i) = z * i.bpp

(* Bytes, lines and slack are whole numbers of pixels.                     *)
LEMMA PixelUnits ==
  ASSUME NEW i \in Images
  PROVE  \E q, z : Units(i, q, z)
<1> DEFINE b == i.bpp
           w == i.width
           q == ByteBits \div b
           p == (w + (q - 1)) \div q
           z == p * q - w
<1>1. b \in Nat \ {0} /\ w \in Nat \ {0} /\ ByteBits \in Nat \ {0} /\ ByteBits % b = 0 /\ b <= ByteBits
  <2>1. ByteBits % b = 0
    BY ImageAssumption
  <2> QED
    BY <2>1, ImageFacts
<1> HIDE DEF b, w
<1>2. q \in Nat /\ ByteBits = b * q
  BY <1>1
<1>3. q # 0
  BY <1>1, <1>2
<1> HIDE DEF q
<1>4. p \in Nat /\ p * q <= w + (q - 1) /\ w + (q - 1) < p * q + q
  BY <1>1, <1>2, <1>3
<1> HIDE DEF p
<1>5. p * q \in Nat /\ z \in Nat /\ z < q /\ p * q = w + z
  BY <1>1, <1>2, <1>3, <1>4
<1> HIDE DEF z
<1>6. p # 0
  <2>1. p = 0 => p * q = 0
    BY <1>2
  <2> QED
    BY <1>1, <1>5, <2>1
<1>7. /\ z * b \in Nat /\ w * b \in Nat /\ p * ByteBits \in Nat
      /\ p * ByteBits = w * b + z * b /\ z * b + b <= ByteBits
  <2>1. p * ByteBits = (p * q) * b
    BY <1>1, <1>2, <1>4
  <2>2. (w + z) * b = w * b + z * b
    BY <1>1, <1>5
  <2>3. (z + 1) * b <= q * b /\ (z + 1) * b = z * b + b /\ q * b = ByteBits
    BY <1>1, <1>2, <1>5
  <2> QED
    BY <1>1, <1>4, <1>5, <2>1, <2>2, <2>3
<1> DEFINE wb == w * b
           zb == z * b
           pB == p * ByteBits
<1>8. wb \in Nat /\ zb \in Nat /\ pB \in Nat /\ pB = wb + zb /\ zb + b <= ByteBits
  BY <1>7
<1>9. LineBytes(i) = (wb + (ByteBits - 1)) \div ByteBits
  BY <1>1, <1>8 DEF LineBytes, CeilDiv, w, b
<1>10. Slack(i) = (ByteBits - (wb % ByteBits)) % ByteBits
  BY DEF Slack, w, b
<1>11. LineBytes(i) = p
  <2> DEFINE x == wb + (ByteBits - 1)
             r == (ByteBits - 1) - zb
  <2>1. x \in Nat /\ r \in Nat /\ r < ByteBits /\ x = pB + r
    BY <1>1, <1>8
  <2>2. x = p * ByteBits + r
    BY <2>1
  <2> HIDE DEF x, r, wb, pB, zb
  <2>3. x \div ByteBits = p
    BY <1>1, <1>4, <2>1, <2>2
  <2> QED
    BY <1>9, <2>3 DEF x
<1>12. Slack(i) = zb
  <2>1. CASE zb = 0
    <3>1. wb = p * ByteBits + 0
      BY <1>8, <2>1
    <3> HIDE DEF wb, pB, zb
    <3>2. wb % ByteBits = 0
      BY <1>1, <1>4, <1>8, <3>1
    <3>3. ByteBits % ByteBits = 0
      BY <1>1
    <3> QED
      BY <1>1, <1>10, <2>1, <3>2, <3>3
  <2>2. CASE zb # 0
    <3> DEFINE k == p - 1
               r == ByteBits - zb
    <3>1. k \in Nat /\ r \in Nat /\ r < ByteBits
      BY <1>1, <1>4, <1>6, <1>8, <2>2
    <3>2. k * ByteBits = p * ByteBits - ByteBits
      BY <1>1, <1>4, <1>6
    <3>3. wb = k * ByteBits + r
      BY <1>1, <1>8, <3>2
    <3> HIDE DEF k, r, wb, pB, zb
    <3>4. wb % ByteBits = r
      BY <1>1, <1>8, <3>1, <3>3
    <3>5. (ByteBits - r) % ByteBits = zb
      <4>1. ByteBits - r = zb /\ zb < ByteBits
        BY <1>1, <1>8 DEF r
      <4>2. zb = 0 * ByteBits + zb
        BY <1>1, <1>8
      <4>3. zb % ByteBits = zb
        BY <1>1, <1>8, <4>1, <4>2
      <4> QED
        BY <4>1, <4>3
    <3> QED
      BY <1>10, <3>4, <3>5
  <2> QED
    BY <2>1, <2>2
<1>13. ByteBits = q * b
  BY <1>1, <1>2
<1>14. Units(i, q, z)
  BY <1>2, <1>3, <1>5, <1>4, <1>6, <1>11, <1>12, <1>13 DEF Units, b, w, q
<1> QED
  BY <1>14

(* The pixel under the compressor lies within its line: the slack of the   *)
(* last byte is never read.                                                *)
LEMMA PixelInLine ==
  ASSUME NEW i \in Images, NEW t, t.bufferPos \in Nat, t.bufferPos < LineBytes(i),
         PlaceInv(i, t), NEW y \in 0..i.height-1
  PROVE  i.pixel[<<y, Column(i, t)>>] \in 0..Pow2[i.bpp]-1
<1> HIDE DEF Pow2
<1> DEFINE b == i.bpp
           w == i.width
           pos == t.bufferPos
           last == LineBytes(i)
<1>1. PICK q, z : Units(i, q, z)
  BY PixelUnits
<1>2. /\ q \in Nat \ {0} /\ z \in Nat /\ z < q
      /\ ByteBits = q * b /\ ByteBits \div b = q
      /\ last \in Nat \ {0} /\ last * q = w + z
      /\ Slack(i) = z * b
  BY <1>1 DEF Units
<1>3. b \in Nat \ {0} /\ w \in Nat \ {0} /\ i.height \in Nat \ {0}
  BY ImageFacts
<1>4. PICK s \in Nat : t.bufferShift = s * b /\ s < q
  BY <1>2 DEF PlaceInv
<1>5. pos \in Nat /\ pos < last /\ (pos + 1 = last => s * b >= z * b)
  BY <1>2, <1>4 DEF PlaceInv
<1>6. Column(i, t) = (pos * ByteBits + ByteBits - b - s * b) \div b
  BY <1>4 DEF Column
<1> HIDE DEF b, w, pos, last
<1>7. s \in Nat /\ s < q
  BY <1>4
<1> DEFINE col == pos * q + (q - (1 + s))
<1>8. col \in 0..w-1
  <2>1. pos * q \in Nat /\ last * q \in Nat /\ pos * q + q = (pos + 1) * q
    BY <1>2, <1>5
  <2>2. CASE pos + 1 = last
    <3>1. s >= z
      BY <1>2, <1>3, <1>5, <1>7, <2>2
    <3>2. pos * q + q = w + z
      BY <1>2, <2>1, <2>2
    <3> QED
      BY <1>2, <1>3, <1>7, <2>1, <3>1, <3>2
  <2>3. CASE pos + 1 < last
    <3>1. (pos + 2) * q <= last * q /\ (pos + 2) * q = pos * q + q + q
      BY <1>2, <1>5, <2>3
    <3> QED
      BY <1>2, <1>3, <1>7, <2>1, <3>1
  <2> QED
    BY <1>2, <1>5, <2>2, <2>3
<1>9. Column(i, t) = col
  <2>1. pos * ByteBits = (pos * q) * b
    BY <1>2, <1>3, <1>5
  <2>2. ByteBits - b - s * b = (q - (1 + s)) * b
    BY <1>2, <1>3, <1>7
  <2>3. pos * q \in Nat /\ (q - (1 + s)) \in Nat
    BY <1>2, <1>5, <1>7
  <2>4. (pos * q) * b + (q - (1 + s)) * b = (pos * q + (q - (1 + s))) * b
    BY <1>3, <2>3
  <2>5. pos * ByteBits + ByteBits - b - s * b = col * b
    BY <2>1, <2>2, <2>4
  <2>6. col \in Nat
    BY <2>3
  <2> HIDE DEF col
  <2>7. (col * b) \div b = col
    <3>1. col * b = col * b + 0 /\ col * b \in Nat /\ 0 < b
      BY <1>3, <2>6
    <3> QED
      BY <1>3, <2>6, <3>1
  <2> QED
    BY <1>6, <2>5, <2>7
<1> HIDE DEF col
<1>10. i.pixel \in [(0..i.height-1) \X (0..i.width-1) -> 0..Pow2[i.bpp]-1]
  BY ImageAssumption
<1> QED
  BY <1>8, <1>9, <1>10 DEF w

(* On to the next pixel, or the next line: the place stays one of a pixel. *)
LEMMA AdvanceKeeps ==
  ASSUME NEW i \in Images, NEW t, CoderType(t), t.bufferPos < LineBytes(i), PlaceInv(i, t),
         NEW u, u = Advance(i, t)
  PROVE  /\ CoderType(u) /\ PlaceInv(i, u)
         /\ u.partial = t.partial /\ u.partialSize = t.partialSize /\ u.codeSize = t.codeSize
         /\ u.nextCode = t.nextCode /\ u.prefix = t.prefix /\ u.strmap = t.strmap
<1> DEFINE b == i.bpp
           pos == t.bufferPos
           last == LineBytes(i)
<1>1. PICK q, z : Units(i, q, z)
  BY PixelUnits
<1>2. /\ q \in Nat \ {0} /\ z \in Nat /\ z < q
      /\ ByteBits = q * b /\ ByteBits \div b = q
      /\ last \in Nat \ {0} /\ Slack(i) = z * b /\ b \in Nat \ {0}
  BY <1>1, ImageFacts DEF Units
<1>3. PICK s \in Nat : t.bufferShift = s * b /\ s < q
  BY <1>2 DEF PlaceInv
<1>4. pos \in Nat /\ pos < last /\ (pos + 1 = last => t.bufferShift >= z * b)
  BY <1>2 DEF PlaceInv, CoderType
<1>5. CASE /\ t.bufferShift > 0
           /\ ~(t.bufferPos + 1 = LineBytes(i) /\ t.bufferShift <= Slack(i))
  <2>1. u = [t EXCEPT !.bufferShift = @ - i.bpp]
    BY <1>5 DEF Advance
  <2>2. /\ CoderShape(u) /\ u.bufferShift = t.bufferShift - b /\ u.bufferPos = pos
        /\ u.partial = t.partial /\ u.partialSize = t.partialSize /\ u.codeSize = t.codeSize
        /\ u.nextCode = t.nextCode /\ u.prefix = t.prefix /\ u.strmap = t.strmap
        /\ u.firstPixelPassed = t.firstPixelPassed
    BY <2>1 DEF CoderType, CoderShape
  <2>3. s # 0
    BY <1>2, <1>3, <1>5
  <2>4. u.bufferShift = (s - 1) * b /\ s - 1 \in Nat /\ s - 1 < q
    BY <1>2, <1>3, <2>2, <2>3
  <2>5. pos + 1 = last => u.bufferShift >= z * b
    <3>1. SUFFICES ASSUME pos + 1 = last PROVE u.bufferShift >= z * b
      OBVIOUS
    <3>2. s * b > z * b
      BY <1>2, <1>3, <1>5, <3>1
    <3> HIDE DEF b
    <3>3. s > z
      BY <1>2, <3>2
    <3>4. (s - 1) * b >= z * b
      BY <1>2, <2>4, <3>3
    <3> QED
      BY <2>4, <3>4
  <2>6. PlaceInv(i, u)
    BY <1>2, <1>4, <2>2, <2>4, <2>5 DEF PlaceInv
  <2>7. u.bufferShift \in Nat
    BY <1>2, <2>4
  <2> QED
    BY <2>2, <2>6, <2>7 DEF CoderType
<1>6. CASE ~(/\ t.bufferShift > 0
             /\ ~(t.bufferPos + 1 = LineBytes(i) /\ t.bufferShift <= Slack(i)))
  <2>1. u = [t EXCEPT !.bufferPos = @ + 1, !.bufferShift = ByteBits - i.bpp]
    BY <1>6 DEF Advance
  <2>2. /\ CoderShape(u) /\ u.bufferShift = ByteBits - b /\ u.bufferPos = pos + 1
        /\ u.partial = t.partial /\ u.partialSize = t.partialSize /\ u.codeSize = t.codeSize
        /\ u.nextCode = t.nextCode /\ u.prefix = t.prefix /\ u.strmap = t.strmap
        /\ u.firstPixelPassed = t.firstPixelPassed
    BY <2>1 DEF CoderType, CoderShape
  <2>3. u.bufferShift = (q - 1) * b /\ q - 1 \in Nat /\ q - 1 < q /\ (q - 1) * b >= z * b
    BY <1>2, <2>2
  <2>4. u.bufferPos <= last
    BY <1>2, <1>4, <2>2
  <2>5. PlaceInv(i, u)
    BY <1>2, <2>3, <2>4 DEF PlaceInv
  <2>6. u.bufferShift \in Nat /\ u.bufferPos \in Nat
    BY <1>2, <1>4, <2>2, <2>3
  <2> QED
    BY <2>2, <2>5, <2>6 DEF CoderType
<1> QED
  BY <1>5, <1>6

(* A new line begins with its first pixel.                                 *)
LEMMA FillKeeps ==
  ASSUME NEW i \in Images, NEW t, CoderType(t), NEW u, u = FillBuffer(i, t)
  PROVE  /\ CoderType(u) /\ PlaceInv(i, u)
         /\ u.partial = t.partial /\ u.partialSize = t.partialSize /\ u.codeSize = t.codeSize
         /\ u.nextCode = t.nextCode /\ u.prefix = t.prefix /\ u.strmap = t.strmap
<1> DEFINE b == i.bpp
<1>1. PICK q, z : Units(i, q, z)
  BY PixelUnits
<1>2. /\ q \in Nat \ {0} /\ z \in Nat /\ z < q
      /\ ByteBits = q * b /\ ByteBits \div b = q
      /\ LineBytes(i) \in Nat \ {0} /\ Slack(i) = z * b /\ b \in Nat \ {0}
  BY <1>1, ImageFacts DEF Units
<1>3. /\ CoderShape(u) /\ u.bufferShift = ByteBits - b /\ u.bufferPos = 0
      /\ u.partial = t.partial /\ u.partialSize = t.partialSize /\ u.codeSize = t.codeSize
      /\ u.nextCode = t.nextCode /\ u.prefix = t.prefix /\ u.strmap = t.strmap
      /\ u.firstPixelPassed = t.firstPixelPassed
  BY DEF CoderType, CoderShape, FillBuffer
<1>4. u.bufferShift = (q - 1) * b /\ q - 1 \in Nat /\ q - 1 < q /\ (q - 1) * b >= z * b
  BY <1>2, <1>3
<1>5. PlaceInv(i, u)
  BY <1>2, <1>3, <1>4 DEF PlaceInv
<1>6. u.bufferShift \in Nat
  BY <1>2, <1>4
<1> QED
  BY <1>3, <1>5, <1>6 DEF CoderType

-----------------------------------------------------------------------------
(* Sub-blocks that may be written at once after full ones, and what may be *)
(* left of them when a write fails.                                        *)
Blocks == [len : 0..BlockLen, bytes : Seq(Bytes)]
Batch(blocks, p) ==
  /\ blocks \in Seq(Blocks)
  /\ \A k \in 1..Len(blocks) :
       /\ blocks[k] # End =>
            /\ blocks[k].len \in 1..BlockLen
            /\ Len(blocks[k].bytes) = blocks[k].len
            /\ k < Len(blocks) /\ blocks[k+1] # End => blocks[k].len = BlockLen
       /\ blocks[k] = End => k = Len(blocks) /\ p # "saving"
Piece(q, blocks) ==
  /\ q \in Seq(Blocks) /\ Len(q) <= Len(blocks)
  /\ \A k \in 1..Len(q) :
       \/ q[k] = blocks[k]
       \/ /\ k = Len(q) /\ blocks[k] # End
          /\ q[k].len = blocks[k].len

(* What a failed write leaves is a piece.                                  *)
LEMMA StumpIsPiece ==
  ASSUME NEW blocks \in Seq(Blocks), NEW q \in Stumps(blocks)
  PROVE  Piece(q, blocks)
<1>1. Len(blocks) \in Nat
  BY LenProperties
<1>2. CASE q \in {SubSeq(blocks, 1, n) : n \in 0..Len(blocks)-1}
  <2>1. PICK n \in 0..Len(blocks)-1 : q = SubSeq(blocks, 1, n)
    BY <1>2
  <2>2. q \in Seq(Blocks) /\ Len(q) = n /\ \A k \in 1..n : q[k] = blocks[k]
    BY <1>1, <2>1
  <2> QED
    BY <1>1, <2>1, <2>2 DEF Piece
<1>3. CASE q \in {Append(SubSeq(blocks, 1, n-1), [blocks[n] EXCEPT !.bytes = << >>]) :
                    n \in {k \in 1..Len(blocks) : blocks[k] # End}}
  <2>1. PICK n \in 1..Len(blocks) :
          /\ blocks[n] # End
          /\ q = Append(SubSeq(blocks, 1, n-1), [blocks[n] EXCEPT !.bytes = << >>])
    BY <1>3
  <2> DEFINE a == SubSeq(blocks, 1, n-1)
  <2>2. a \in Seq(Blocks) /\ Len(a) = n - 1 /\ \A k \in 1..n-1 : a[k] = blocks[k]
    BY <1>1
  <2>3. PICK e : e = [blocks[n] EXCEPT !.bytes = << >>]
    OBVIOUS
  <2>4. blocks[n] \in Blocks
    BY <1>1
  <2>5. e \in Blocks /\ e.len = blocks[n].len
    <3>1. << >> \in Seq(Bytes)
      BY EmptySeq
    <3> QED
      BY <2>3, <2>4, <3>1 DEF Blocks
  <2> HIDE DEF a
  <2>6. q = Append(a, e)
    BY <2>1, <2>3 DEF a
  <2>7. q \in Seq(Blocks) /\ Len(q) = n /\ q[n] = e /\ \A k \in 1..n-1 : q[k] = a[k]
    BY <1>1, <2>2, <2>5, <2>6, AppendProperties
  <2> QED
    BY <1>1, <2>1, <2>2, <2>5, <2>7 DEF Piece
<1> QED
  BY <1>2, <1>3 DEF Stumps

(* All of a batch is a piece.                                              *)
LEMMA WholeIsPiece ==
  ASSUME NEW blocks \in Seq(Blocks)
  PROVE  Piece(blocks, blocks)
BY LenProperties DEF Piece

(* After full blocks, any piece of a batch leaves the file in order.       *)
LEMMA GrownFile ==
  ASSUME NEW f, NEW p, FileOk(f, "saving", FALSE), NEW blocks, Batch(blocks, p),
         NEW q, Piece(q, blocks), NEW g, g = f \o q
  PROVE  FileOk(g, p, TRUE)
<1>1. BlockLen \in Nat /\ BlockLen > 6
  BY WidthAssumption
<1>2. f \in Seq(Blocks) /\ Len(f) \in Nat /\ \A k \in 1..Len(f) : FullBlock(f[k])
  BY LenProperties DEF FileOk, Blocks
<1>3. /\ q \in Seq(Blocks) /\ Len(q) \in Nat /\ Len(blocks) \in Nat /\ Len(q) <= Len(blocks)
      /\ \A k \in 1..Len(q) : \/ q[k] = blocks[k]
                              \/ k = Len(q) /\ blocks[k] # End /\ q[k].len = blocks[k].len
  BY LenProperties DEF Piece, Batch
<1>4. \A k \in 1..Len(blocks) :
       /\ blocks[k] # End =>
            /\ blocks[k].len \in 1..BlockLen
            /\ Len(blocks[k].bytes) = blocks[k].len
            /\ k < Len(blocks) /\ blocks[k+1] # End => blocks[k].len = BlockLen
       /\ blocks[k] = End => k = Len(blocks) /\ p # "saving"
  BY DEF Batch
<1>5. /\ g \in Seq(Blocks) /\ Len(g) = Len(f) + Len(q)
      /\ \A k \in 1..Len(f) : g[k] = f[k]
      /\ \A j \in 1..Len(q) : g[Len(f) + j] = q[j]
  BY <1>2, <1>3, ConcatProperties
<1>8. /\ Len(f) \in Nat /\ Len(q) \in Nat /\ Len(blocks) \in Nat
      /\ Len(q) <= Len(blocks) /\ Len(g) = Len(f) + Len(q)
  BY <1>2, <1>3, <1>5
<1>6. End.len = 0
  BY DEF End
<1> HIDE DEF End
<1>7. ASSUME NEW k \in 1..Len(g)
      PROVE  /\ g[k] # End =>
                  /\ g[k].len \in 1..BlockLen
                  /\ k < Len(g) => Len(g[k].bytes) = g[k].len
                  /\ k + 1 < Len(g) /\ g[k+1] # End => g[k].len = BlockLen
             /\ g[k] = End => k = Len(g) /\ p # "saving"
  <2>1. CASE k \in 1..Len(f)
    <3>1. g[k].len = BlockLen /\ Len(g[k].bytes) = BlockLen
      BY <1>2, <1>5, <2>1 DEF FullBlock
    <3> QED
      BY <1>1, <1>6, <3>1
  <2>2. CASE k \notin 1..Len(f)
    <3>1. PICK j \in 1..Len(q) : k = Len(f) + j
      <4>1. k - Len(f) \in 1..Len(q) /\ k = Len(f) + (k - Len(f))
        BY <1>2, <1>3, <1>5, <2>2
      <4> QED
        BY <4>1
    <3>2. g[k] = q[j] /\ j \in 1..Len(blocks)
      BY <1>3, <1>5, <3>1
    <3>3. CASE q[j] = blocks[j]
      <4>1. CASE k + 1 < Len(g) /\ g[k+1] # End
        <5>0. j + 1 \in 1..Len(q) /\ j + 1 # Len(q) /\ k + 1 = Len(f) + (j + 1)
          BY <1>2, <1>3, <1>5, <3>1, <4>1
        <5>1. PICK n : n = j + 1 /\ n \in 1..Len(q) /\ n # Len(q) /\ k + 1 = Len(f) + n
          BY <5>0
        <5>2. q[n] = blocks[n]
          BY <1>3, <5>1
        <5>3. g[Len(f) + n] = q[n]
          BY <1>5, <5>1
        <5>4. blocks[j+1] # End /\ j < Len(blocks)
          BY <1>3, <4>1, <5>1, <5>2, <5>3
        <5>5. /\ blocks[j] # End => blocks[j].len = BlockLen /\ Len(blocks[j].bytes) = BlockLen
              /\ blocks[j] # End
          BY <1>4, <3>2, <5>4, SMTT(30)
        <5>6. g[k] # End /\ g[k].len = BlockLen /\ Len(g[k].bytes) = BlockLen
          BY <3>2, <3>3, <5>5
        <5> QED
          BY <1>1, <5>6
      <4>2. CASE ~(k + 1 < Len(g) /\ g[k+1] # End)
        <5>1. g[k] # End => g[k].len \in 1..BlockLen /\ Len(g[k].bytes) = g[k].len
          BY <1>4, <3>2, <3>3
        <5>2. g[k] = End => j = Len(blocks) /\ p # "saving"
          BY <1>4, <3>2, <3>3
        <5>3. ASSUME j = Len(blocks) PROVE k = Len(g)
          <6>1. j \in Nat /\ j <= Len(q)
            BY <1>8
          <6>2. j = Len(q)
            BY <1>8, <5>3, <6>1
          <6> QED
            BY <1>8, <3>1, <6>2
        <5> QED
          BY <4>2, <5>1, <5>2, <5>3
      <4> QED
        BY <4>1, <4>2
    <3>4. CASE j = Len(q) /\ blocks[j] # End /\ q[j].len = blocks[j].len
      <4>1. k = Len(g) /\ g[k].len \in 1..BlockLen
        BY <1>2, <1>3, <1>4, <1>5, <3>1, <3>2, <3>4
      <4> QED
        BY <1>1, <1>2, <1>3, <1>5, <1>6, <4>1
    <3> QED
      BY <1>3, <3>3, <3>4
  <2> QED
    BY <2>1, <2>2
<1> QED
  BY <1>5, <1>7, Zenon DEF FileOk, Blocks

(* Without a failure full blocks follow full blocks.                       *)
LEMMA FullFile ==
  ASSUME NEW f, FileOk(f, "saving", FALSE), NEW blocks, Batch(blocks, "saving"),
         \A k \in 1..Len(blocks) : FullBlock(blocks[k]), NEW g, g = f \o blocks
  PROVE  FileOk(g, "saving", FALSE)
<1>1. FileOk(g, "saving", TRUE)
  BY GrownFile, WholeIsPiece DEF Batch
<1>2. f \in Seq(Blocks) /\ Len(f) \in Nat /\ \A k \in 1..Len(f) : FullBlock(f[k])
  BY LenProperties DEF FileOk, Blocks
<1>3. blocks \in Seq(Blocks) /\ Len(blocks) \in Nat
  BY LenProperties DEF Batch
<1>4. /\ Len(g) = Len(f) + Len(blocks)
      /\ \A k \in 1..Len(f) : g[k] = f[k]
      /\ \A j \in 1..Len(blocks) : g[Len(f) + j] = blocks[j]
  BY <1>2, <1>3, ConcatProperties
<1>5. ASSUME NEW k \in 1..Len(g) PROVE FullBlock(g[k])
  <2>1. CASE k \in 1..Len(f)
    BY <1>2, <1>4, <2>1
  <2>2. CASE k \notin 1..Len(f)
    <3>1. k - Len(f) \in 1..Len(blocks) /\ k = Len(f) + (k - Len(f))
      BY <1>2, <1>3, <1>4, <2>2
    <3> QED
      BY <1>4, <3>1
  <2> QED
    BY <2>1, <2>2
<1> QED
  BY <1>1, <1>5, Zenon DEF FileOk

(* A file in order stays so when a write has failed and nothing follows.   *)
LEMMA CutFile ==
  ASSUME NEW f, NEW p, NEW cut, FileOk(f, p, cut), NEW r, p # "saving" => r # "saving"
  PROVE  /\ FileOk(f, p, TRUE)
         /\ r # "saving" => FileOk(f, r, cut)
BY Zenon DEF FileOk

(* What Store makes of the file.                                           *)
LEMMA StoreKeeps ==
  ASSUME NEW blocks, NEW p, full \in BOOLEAN, FileOk(file, "saving", full),
         Batch(blocks, p), Store(blocks),
         p = "saving" => \A k \in 1..Len(blocks) : FullBlock(blocks[k])
  PROVE  full' \in BOOLEAN /\ FileOk(file', p, full')
<1>1. CASE full /\ UNCHANGED fileVars
  <2>1. file' = file /\ full' = full
    BY <1>1 DEF fileVars
  <2>2. FileOk(file, p, full)
    <3>1. CASE p = "saving"
      BY <3>1
    <3>2. CASE p # "saving"
      BY <3>2, CutFile
    <3> QED
      BY <3>1, <3>2
  <2> QED
    BY <2>1, <2>2
<1>2. CASE ~full /\ file' = file \o blocks /\ UNCHANGED full
  <2>1. FileOk(file, "saving", FALSE) /\ full' = FALSE
    <3>1. full = FALSE
      BY <1>2
    <3> QED
      BY <1>2, <3>1
  <2>2. CASE p = "saving"
    BY <1>2, <2>1, <2>2, FullFile
  <2>3. CASE p # "saving"
    <3>1. Piece(blocks, blocks)
      BY WholeIsPiece DEF Batch
    <3>2. FileOk(file', p, TRUE)
      BY <1>2, <2>1, <3>1, GrownFile
    <3> QED
      BY <2>1, <2>3, <3>2, Zenon DEF FileOk
  <2> QED
    BY <2>2, <2>3
<1>3. CASE /\ ~full /\ MayFail
           /\ \E stump \in Stumps(blocks) : file' = file \o stump
           /\ full' = TRUE
  <2>1. FileOk(file, "saving", FALSE)
    <3>1. full = FALSE
      BY <1>3
    <3> QED
      BY <3>1
  <2>2. PICK stump \in Stumps(blocks) : file' = file \o stump
    BY <1>3
  <2>3. Piece(stump, blocks)
    BY StumpIsPiece DEF Batch
  <2>4. FileOk(file', p, TRUE)
    BY <2>1, <2>2, <2>3, GrownFile
  <2> QED
    BY <1>3, <2>4
<1> QED
  BY <1>1, <1>2, <1>3 DEF Store

-----------------------------------------------------------------------------
(* CompressEnd writes a few bytes, and at least one: what waits and two    *)
(* codes, to the last bit.                                                 *)
LEMMA EndBytes ==
  ASSUME image \in Images, NEW t, CoderType(t), TableInv(image, t),
         NEW buf \in Seq(Bytes), BitsInv(image, t, buf)
  PROVE  /\ CompressEnd(t) \in Seq(Bytes) /\ Len(CompressEnd(t)) \in 1..8
         /\ t.partialSize < 2 * CodeBits
         /\ ByteBits * Len(CompressEnd(t)) < t.partialSize + 2 * t.codeSize + ByteBits
<1> HIDE DEF Pow2
<1>1. PICK one : one = PutCode(t, t.prefix)
  OBVIOUS
<1>2. PICK two : two = PutCode(one, EndCode(image))
  OBVIOUS
<1>3. /\ CoderShape(t) /\ t.partial \in Nat /\ t.partialSize \in Nat /\ t.codeSize \in Nat
      /\ t.prefix \in Nat
  BY DEF CoderType
<1>4. /\ CoderShape(one) /\ one.codeSize = t.codeSize
      /\ one.partial = t.partial + t.prefix * Pow2[t.partialSize]
      /\ one.partialSize = t.partialSize + t.codeSize
  BY <1>1, <1>3, PutFacts
<1>5. /\ two.partial = one.partial + EndCode(image) * Pow2[one.partialSize]
      /\ two.partialSize = one.partialSize + one.codeSize
  BY <1>2, <1>4, PutFacts
<1>6. /\ ByteBits \in Nat \ {0, 1} /\ CodeBits \in Nat /\ ByteBits < CodeBits
      /\ CodeBits < 2 * ByteBits /\ EndCode(image) \in Nat /\ MinCodeSize(image) \in Nat
      /\ MinCodeSize(image) <= ByteBits
  BY ImageFacts
<1>7. two.partial \in Nat
  <2>1. Pow2[t.partialSize] \in Nat
    BY <1>3, PowerEquations
  <2>4. one.partialSize \in Nat
    BY <1>3, <1>4
  <2>2. Pow2[one.partialSize] \in Nat
    BY <2>4, PowerEquations
  <2>3. one.partial \in Nat
    BY <1>3, <1>4, <2>1, SMTT(30)
  <2> QED
    BY <1>5, <1>6, <2>2, <2>3, SMTT(30)
<1>8. t.partialSize < 2 * CodeBits /\ t.codeSize <= CodeBits /\ t.codeSize > 0
  <2>1. t.codeSize <= CodeBits /\ t.codeSize > 0
    BY <1>3, <1>6 DEF TableInv
  <2>2. t.partialSize < 2 * CodeBits
    BY <1>3, <1>6 DEF BitsInv
  <2> QED
    BY <2>1, <2>2
<1> DEFINE all == two.partialSize
           n == (all + ByteBits - 1) \div ByteBits
<1>9. all \in Nat /\ all > 0 /\ all < 8 * ByteBits
  <2>1. PICK z, c, b, l \in Nat :
          /\ z = t.partialSize /\ c = t.codeSize /\ b = ByteBits /\ l = CodeBits
          /\ z < 2 * l /\ c <= l /\ c > 0 /\ l < 2 * b
    BY <1>3, <1>6, <1>8
  <2>2. all = (z + c) + c
    BY <1>4, <1>5, <2>1, Zenon DEF all
  <2>3. (z + c) + c \in Nat /\ (z + c) + c > 0 /\ (z + c) + c < 8 * b
    BY <2>1
  <2> QED
    BY <2>1, <2>2, <2>3, Zenon
<1> HIDE DEF all
<1>10. n \in 1..8
  <2> DEFINE x == all + ByteBits - 1
  <2>1. x \in Nat /\ ByteBits <= x /\ x < 9 * ByteBits
    BY <1>6, <1>9
  <2> HIDE DEF x
  <2>2. x \div ByteBits \in 1..8
    BY <1>6, <2>1
  <2> QED
    BY <2>2 DEF x
<1>11. CompressEnd(t) = LowBytes(two, n)
  BY <1>1, <1>2, Zenon DEF CompressEnd, CeilDiv, all
<1> HIDE DEF n
<1>12. LowBytes(two, n) \in Seq(Bytes) /\ Len(LowBytes(two, n)) = n
  <2>1. n \in Nat
    BY <1>10
  <2> QED
    BY <1>7, <2>1, LowBytesFacts
<1>13. ByteBits * n < t.partialSize + 2 * t.codeSize + ByteBits
  <2> DEFINE x == all + ByteBits - 1
  <2>1. x \in Nat /\ x = t.partialSize + 2 * t.codeSize + ByteBits - 1
    <3>1. PICK z, c, b \in Nat : z = t.partialSize /\ c = t.codeSize /\ b = ByteBits /\ b >= 1
      BY <1>3, <1>6
    <3>2. all = (z + c) + c
      BY <1>4, <1>5, <3>1, Zenon DEF all
    <3>3. (z + c) + c + b - 1 \in Nat /\ (z + c) + c + b - 1 = z + 2 * c + b - 1
      <4>1. b >= 1
        BY <3>1
      <4> QED
        BY <4>1
    <3> QED
      BY <3>1, <3>2, <3>3, Zenon
  <2> HIDE DEF x
  <2>2. ByteBits * (x \div ByteBits) <= x
    BY <1>6, <2>1
  <2> DEFINE y == ByteBits * (x \div ByteBits)
  <2>3. y \in Int /\ y <= x
    BY <1>6, <2>1, <2>2
  <2>4. y = ByteBits * n
    BY DEF n, x
  <2> HIDE DEF y
  <2>5. PICK e \in Nat : e = t.partialSize + 2 * t.codeSize
    BY <1>3
  <2>6. y < e + ByteBits
    <3>1. x = e + ByteBits - 1 /\ ByteBits \in Nat
      BY <1>6, <2>1, <2>5
    <3> QED
      BY <2>1, <2>3, <3>1
  <2> QED
    BY <2>4, <2>5, <2>6, Zenon
<1> QED
  BY <1>8, <1>10, <1>11, <1>12, <1>13

(* The last sub-blocks and the terminator.                                 *)
LEMMA Appended ==
  ASSUME NEW S, NEW r \in Seq(S), NEW e \in S, NEW s, s = Append(r, e)
  PROVE  /\ s \in Seq(S) /\ Len(s) = Len(r) + 1
         /\ (\A k \in 1..Len(r) : s[k] = r[k]) /\ s[Len(r) + 1] = e
BY AppendProperties

(* The sub-block of some bytes, and the terminator.                        *)
LEMMA BlockFacts ==
  ASSUME NEW bytes \in Seq(Bytes), Len(bytes) <= BlockLen
  PROVE  /\ Block(bytes) \in Blocks /\ Block(bytes).len = Len(bytes)
         /\ Block(bytes).bytes = bytes
         /\ End \in Blocks /\ End.len = 0
<1>1. Len(bytes) \in 0..BlockLen /\ 0 \in 0..BlockLen /\ << >> \in Seq(Bytes)
  BY WidthAssumption, LenProperties, EmptySeq
<1> QED
  BY <1>1 DEF Block, Blocks, End

(* The last sub-blocks with the terminator are a batch.                    *)
LEMMA LastBatch ==
  ASSUME NEW bytes \in Seq(Bytes), Len(bytes) \in 1..2 * BlockLen, NEW p, p # "saving"
  PROVE  Batch(Append(LastBlocks(bytes), End), p)
<1>1. BlockLen \in Nat /\ BlockLen > 6 /\ Len(bytes) \in Nat
  BY WidthAssumption, LenProperties
<1>2. CASE Len(bytes) <= BlockLen
  <2>1. PICK x : x = Block(bytes)
    OBVIOUS
  <2>2. x \in Blocks /\ x.len = Len(bytes) /\ x.bytes = bytes /\ End \in Blocks /\ End.len = 0
    BY <1>2, <2>1, BlockFacts
  <2>3. LastBlocks(bytes) = <<x>>
    BY <1>2, <2>1, Zenon DEF LastBlocks
  <2> HIDE DEF End
  <2>4. PICK r : r = <<x>>
    OBVIOUS
  <2>8. r \in Seq(Blocks) /\ Len(r) = 1 /\ r[1] = x
    BY <2>2, <2>4
  <2>9. PICK s : s = Append(r, End)
    OBVIOUS
  <2>10. /\ s \in Seq(Blocks) /\ Len(s) = Len(r) + 1
         /\ (\A k \in 1..Len(r) : s[k] = r[k]) /\ s[Len(r) + 1] = End
    BY <2>2, <2>8, <2>9, Appended
  <2>5. s \in Seq(Blocks) /\ Len(s) = 2 /\ s[1] = x /\ s[2] = End
    BY <2>8, <2>10
  <2>6. x # End /\ x.len \in 1..BlockLen /\ Len(x.bytes) = x.len
    BY <1>1, <1>2, <2>2
  <2>7. Batch(s, p)
    BY <2>5, <2>6 DEF Batch
  <2> QED
    BY <2>3, <2>4, <2>7, <2>9
<1>3. CASE ~(Len(bytes) <= BlockLen)
  <2> DEFINE a == SubSeq(bytes, 1, BlockLen)
             c == SubSeq(bytes, BlockLen + 1, Len(bytes))
  <2>1. /\ a \in Seq(Bytes) /\ Len(a) = BlockLen
        /\ c \in Seq(Bytes) /\ Len(c) = Len(bytes) - BlockLen
    BY <1>1, <1>3
  <2>2. Len(c) \in 1..BlockLen
    BY <1>1, <1>3, <2>1
  <2>3. PICK x, y : x = Block(a) /\ y = Block(c)
    OBVIOUS
  <2>9. LastBlocks(bytes) = <<x, y>>
    BY <1>3, <2>3, Zenon DEF LastBlocks
  <2> HIDE DEF a, c
  <2>4. /\ x \in Blocks /\ x.len = BlockLen /\ x.bytes = a
        /\ y \in Blocks /\ y.len = Len(c) /\ y.bytes = c
        /\ End \in Blocks /\ End.len = 0
    BY <1>1, <2>1, <2>2, <2>3, BlockFacts
  <2> HIDE DEF End
  <2>10. PICK r : r = <<x, y>>
    OBVIOUS
  <2>11. r \in Seq(Blocks) /\ Len(r) = 2 /\ r[1] = x /\ r[2] = y
    BY <2>4, <2>10
  <2>5. PICK s : s = Append(r, End)
    OBVIOUS
  <2>12. /\ s \in Seq(Blocks) /\ Len(s) = Len(r) + 1
         /\ (\A k \in 1..Len(r) : s[k] = r[k]) /\ s[Len(r) + 1] = End
    BY <2>4, <2>5, <2>11, Appended
  <2>6. s \in Seq(Blocks) /\ Len(s) = 3 /\ s[1] = x /\ s[2] = y /\ s[3] = End
    BY <2>11, <2>12
  <2>7. /\ x # End /\ x.len = BlockLen /\ Len(x.bytes) = BlockLen
        /\ y # End /\ y.len \in 1..BlockLen /\ Len(y.bytes) = y.len
    BY <1>1, <2>1, <2>2, <2>4
  <2>8. Batch(s, p)
    BY <1>1, <2>6, <2>7 DEF Batch
  <2> QED
    BY <2>5, <2>8, <2>9, <2>10
<1> QED
  BY <1>2, <1>3

(* A full sub-block is a batch of full ones.                               *)
LEMMA FullBatch ==
  ASSUME NEW bytes \in Seq(Bytes), Len(bytes) = BlockLen
  PROVE  /\ Batch(<<Block(bytes)>>, "saving")
         /\ \A k \in 1..Len(<<Block(bytes)>>) : FullBlock((<<Block(bytes)>>)[k])
<1>1. BlockLen \in Nat /\ BlockLen > 6
  BY WidthAssumption
<1>2. PICK x : x = Block(bytes)
  OBVIOUS
<1>3. x \in Blocks /\ x.len = BlockLen /\ x.bytes = bytes /\ End.len = 0
  BY <1>1, <1>2, BlockFacts
<1> HIDE DEF End
<1>4. PICK s : s = <<x>>
  OBVIOUS
<1>5. s \in Seq(Blocks) /\ Len(s) = 1 /\ s[1] = x
  BY <1>3, <1>4
<1>6. x # End /\ FullBlock(x)
  BY <1>1, <1>3 DEF FullBlock
<1>7. Batch(s, "saving") /\ \A k \in 1..Len(s) : FullBlock(s[k])
  BY <1>1, <1>3, <1>5, <1>6 DEF Batch
<1> QED
  BY <1>2, <1>4, <1>7

-----------------------------------------------------------------------------
(* The row after a row: interlaced or not, below the last one or on.       *)
LEMMA NextRowFacts ==
  ASSUME NEW i \in Images, NEW at, NEW t, RowInv(i, at, t), at.y < i.height,
         NEW next, next = NextRow(i, at)
  PROVE  /\ next.y \in Nat /\ next.pass \in 0..4 /\ next.buf = at.buf
         /\ next = [y |-> next.y, pass |-> next.pass, buf |-> next.buf]
         /\ next.y < i.height => next.pass \in 0..3
<1>1. /\ at = [y |-> at.y, pass |-> at.pass, buf |-> at.buf] /\ at.y \in Nat
      /\ at.pass \in 0..3 /\ i.height \in Nat
  BY ImageFacts DEF RowInv
<1>2. Increment[at.pass] \in Nat
  BY <1>1 DEF Increment
<1> DEFINE below == at.y + Increment[at.pass]
<1>3. below \in Nat
  BY <1>1, <1>2
<1>4. CASE ~i.interlaced
  <2>1. next = [at EXCEPT !.y = @ + 1]
    BY <1>4 DEF NextRow
  <2> QED
    BY <1>1, <2>1
<1>5. CASE i.interlaced /\ below < i.height
  <2>1. next = [at EXCEPT !.y = below]
    BY <1>5 DEF NextRow
  <2> HIDE DEF below
  <2> QED
    BY <1>1, <1>3, <2>1
<1>6. CASE i.interlaced /\ ~(below < i.height) /\ at.pass = 3
  <2>1. next = [at EXCEPT !.y = below, !.pass = 4]
    BY <1>6 DEF NextRow
  <2> HIDE DEF below
  <2>2. /\ next.y = below /\ next.pass = 4 /\ next.buf = at.buf
        /\ next = [y |-> next.y, pass |-> next.pass, buf |-> next.buf]
    BY <1>1, <2>1
  <2> QED
    BY <1>1, <1>3, <1>6, <2>2
<1>7. CASE i.interlaced /\ ~(below < i.height) /\ at.pass # 3
  <2>5. PICK top, p : top = Offset[at.pass + 1] /\ p = at.pass + 1
    OBVIOUS
  <2>1. next = [at EXCEPT !.y = top, !.pass = p]
    BY <1>7, <2>5 DEF NextRow
  <2>2. at.pass + 1 \in 1..3
    BY <1>1, <1>7
  <2>3. \A k \in 1..3 : Offset[k] \in Nat
    BY DEF Offset
  <2>4. top \in Nat /\ p \in 0..3
    BY <2>2, <2>3, <2>5
  <2>6. /\ next.y = top /\ next.pass = p /\ next.buf = at.buf
        /\ next = [y |-> next.y, pass |-> next.pass, buf |-> next.buf]
    BY <1>1, <2>1
  <2> QED
    BY <2>4, <2>6
<1> QED
  BY <1>4, <1>5, <1>6, <1>7

-----------------------------------------------------------------------------
(* Only the prefix is another, and the place the next one.                 *)
Repixeled(t, r, x) ==
  /\ CoderShape(r) /\ r.firstPixelPassed \in BOOLEAN /\ r.prefix = x
  /\ r.partial = t.partial /\ r.partialSize = t.partialSize /\ r.codeSize = t.codeSize
  /\ r.nextCode = t.nextCode /\ r.strmap = t.strmap
  /\ r.bufferPos = t.bufferPos /\ r.bufferShift = t.bufferShift

(* A new prefix and the next place leave table and bits in order.          *)
LEMMA NewPrefix ==
  ASSUME NEW i \in Images, NEW t, CoderType(t), TableInv(i, t),
         t.bufferPos < LineBytes(i), PlaceInv(i, t),
         NEW x \in Nat, x < t.nextCode, Learnt(i, t) = 0 => x < ClearCode(i),
         NEW r, Repixeled(t, r, x), NEW u, u = Advance(i, r)
  PROVE  /\ CoderType(u) /\ TableInv(i, u) /\ PlaceInv(i, u)
         /\ \A buf : BitsInv(i, t, buf) => BitsInv(i, u, buf)
<1> HIDE DEF Pow2
<1>1. CoderType(r)
  BY DEF CoderType, Repixeled
<1>2. PlaceInv(i, r) /\ r.bufferPos < LineBytes(i)
  BY DEF PlaceInv, Repixeled
<1>3. /\ CoderType(u) /\ PlaceInv(i, u)
      /\ u.partial = r.partial /\ u.partialSize = r.partialSize /\ u.codeSize = r.codeSize
      /\ u.nextCode = r.nextCode /\ u.prefix = r.prefix /\ u.strmap = r.strmap
  BY <1>1, <1>2, AdvanceKeeps
<1>4. /\ u.partial = t.partial /\ u.partialSize = t.partialSize /\ u.codeSize = t.codeSize
      /\ u.nextCode = t.nextCode /\ u.prefix = x /\ u.strmap = t.strmap
  BY <1>3 DEF Repixeled
<1>5. TableInv(i, u)
  BY <1>4 DEF TableInv, Learnt
<1>6. \A buf : BitsInv(i, t, buf) => BitsInv(i, u, buf)
  BY <1>4, Zenon DEF BitsInv, Learnt
<1> QED
  BY <1>3, <1>5, <1>6

(* A pixel is a code that a cleared table has.                             *)
LEMMA PixelIsCode ==
  ASSUME NEW i \in Images, NEW t, CoderType(t), TableInv(i, t),
         t.bufferPos < LineBytes(i), PlaceInv(i, t),
         NEW y \in Nat, y < i.height, NEW x, x = i.pixel[<<y, Column(i, t)>>]
  PROVE  x \in Nat /\ x < ClearCode(i) /\ x < t.nextCode
<1> HIDE DEF Pow2
<1>1. /\ Pow2[i.bpp] \in Nat \ {0} /\ Pow2[i.bpp] <= ClearCode(i) /\ i.height \in Nat
      /\ ClearCode(i) \in Nat /\ EndCode(i) = ClearCode(i) + 1
  BY ImageFacts
<1>2. t.bufferPos \in Nat /\ t.nextCode \in Nat /\ t.nextCode > EndCode(i)
  BY <1>1 DEF CoderType, TableInv
<1>3. y \in 0..i.height-1
  BY <1>1
<1>4. x \in 0..Pow2[i.bpp]-1
  BY <1>2, <1>3, PixelInLine
<1> QED
  BY <1>1, <1>2, <1>4

(* The state Save begins with.                                             *)
LEMMA ObjectShape ==
  ASSUME NEW a, NEW b, NEW c, NEW d, NEW e, NEW f, NEW g, NEW h, NEW j, NEW t,
         t = [partial |-> a, partialSize |-> b, codeSize |-> c, nextCode |-> d,
              prefix |-> e, strmap |-> f, firstPixelPassed |-> g,
              bufferPos |-> h, bufferShift |-> j]
  PROVE  CoderShape(t)
BY DEF CoderShape

(* The state Save begins with is in order.                                 *)
LEMMA StartOk ==
  ASSUME NEW i \in Images, NEW t, t = StartedCompressor(i),
         NEW at, at = [y |-> 0, pass |-> 0, buf |-> << >>]
  PROVE  CoderOk(i, t, at)
<1> HIDE DEF Pow2
<1> DEFINE m == MinCodeSize(i)
           clear == ClearCode(i)
<1>1. /\ m \in Nat /\ 2 <= m /\ m <= ByteBits /\ clear \in Nat /\ clear >= 4
      /\ EndCode(i) = clear + 1 /\ MaxCode \in Nat /\ 2 * clear <= MaxCode
      /\ Pow2[m + 1] = 2 * clear /\ CodeBits \in Nat /\ m + 1 <= CodeBits
      /\ ByteBits \in Nat /\ i.height \in Nat \ {0}
  BY ImageFacts
<1>15. PICK none, size, first, no :
         none = << >> /\ size = m + 1 /\ first = EndCode(i) + 1 /\ no = FALSE
  OBVIOUS
<1>2. PICK s : s = [partial |-> clear, partialSize |-> size,
                    codeSize |-> size, nextCode |-> first,
                    prefix |-> 0, strmap |-> none, firstPixelPassed |-> no,
                    bufferPos |-> 0, bufferShift |-> 0]
  OBVIOUS
<1>3. t = FillBuffer(i, s)
  BY <1>2, <1>15, Zenon DEF StartedCompressor
<1>4. /\ s.partial = clear /\ s.partialSize = m + 1 /\ s.codeSize = m + 1
      /\ s.nextCode = EndCode(i) + 1 /\ s.prefix = 0 /\ s.strmap = << >>
      /\ s.firstPixelPassed = FALSE /\ s.bufferPos = 0 /\ s.bufferShift = 0
  BY <1>2, <1>15
<1> HIDE DEF m, clear
<1>5. CoderShape(s)
  BY <1>2, ObjectShape, Zenon
<1>6. CoderType(s)
  <2>1. /\ s.partial \in Nat /\ s.partialSize \in Nat /\ s.codeSize \in Nat
        /\ s.nextCode \in Nat /\ s.prefix \in Nat
        /\ s.bufferPos \in Nat /\ s.bufferShift \in Nat
    BY <1>1, <1>4
  <2>2. s.firstPixelPassed \in BOOLEAN
    BY <1>4
  <2> QED
    BY <1>5, <2>1, <2>2, Zenon DEF CoderType
<1>7. /\ CoderType(t) /\ PlaceInv(i, t)
      /\ t.partial = s.partial /\ t.partialSize = s.partialSize /\ t.codeSize = s.codeSize
      /\ t.nextCode = s.nextCode /\ t.prefix = s.prefix /\ t.strmap = s.strmap
  BY <1>3, <1>6, FillKeeps
<1>8. Learnt(i, t) = 0
  BY <1>1, <1>4, <1>7 DEF Learnt
<1>9. DOMAIN t.strmap = {}
  BY <1>4, <1>7
<1>10. TableInv(i, t)
  <2>1. /\ t.nextCode \in EndCode(i) + 1 .. MaxCode - 1
        /\ t.codeSize \in m + 1 .. CodeBits /\ t.codeSize = m + 1
        /\ t.nextCode <= Pow2[t.codeSize]
        /\ t.prefix < t.nextCode /\ t.prefix < clear
    BY <1>1, <1>4, <1>7
  <2> QED
    BY <1>8, <1>9, <2>1 DEF TableInv, m, clear
<1>11. at.buf = << >> /\ at.y = 0 /\ at.pass = 0
       /\ at = [y |-> at.y, pass |-> at.pass, buf |-> at.buf]
  OBVIOUS
<1>12. at.buf \in Seq(Bytes) /\ Len(at.buf) < BlockLen
  <2>1. << >> \in Seq(Bytes) /\ Len(<< >>) = 0
    BY EmptySeq
  <2>2. 0 < BlockLen
    BY WidthAssumption
  <2> QED
    BY <1>11, <2>1, <2>2
<1>13. BitsInv(i, t, at.buf)
  <2>1. t.partial < Pow2[t.partialSize] /\ t.partialSize < ByteBits + CodeBits
    BY <1>1, <1>4, <1>7
  <2> QED
    BY <1>8, <2>1 DEF BitsInv
<1>14. RowInv(i, at, t)
  BY <1>1, <1>11 DEF RowInv
<1> QED
  BY <1>7, <1>10, <1>12, <1>13, <1>14 DEF CoderOk

(* The invariant holds at first.                                           *)
LEMMA InitCoder == Init => CoderInv
<1> SUFFICES ASSUME Init PROVE CoderInv
  OBVIOUS
<1>1. /\ phase = "saving" /\ image \in Images /\ enc = StartedCompressor(image)
      /\ save = [y |-> 0, pass |-> 0, buf |-> << >>]
      /\ file = << >> /\ full = FALSE
  BY DEF Init, SaveInit
<1>2. CoderOk(image, enc, save)
  BY <1>1, StartOk
<1>3. FileOk(file, phase, full)
  <2>1. file \in Seq([len : 0..BlockLen, bytes : Seq(Bytes)]) /\ 1..Len(file) = {}
    BY <1>1, EmptySeq
  <2> QED
    BY <2>1 DEF FileOk
<1> QED
  BY <1>1, <1>2, <1>3 DEF CoderInv

-----------------------------------------------------------------------------
(* One step of saving after the other.                                     *)
LEMMA SameRow ==
  ASSUME NEW i, NEW at, NEW t, RowInv(i, at, t), t.bufferPos < LineBytes(i),
         NEW buf, NEW u, NEW next, next = [at EXCEPT !.buf = buf]
  PROVE  RowInv(i, next, u) /\ next.buf = buf
<1>1. /\ at.y \in Nat /\ at.pass \in 0..4 /\ at.y < i.height
      /\ at = [y |-> at.y, pass |-> at.pass, buf |-> at.buf]
      /\ at.y < i.height => at.pass \in 0..3
  BY DEF RowInv
<1>2. next.y = at.y /\ next.pass = at.pass /\ next.buf = buf
      /\ next = [y |-> next.y, pass |-> next.pass, buf |-> next.buf]
  BY <1>1
<1> QED
  BY <1>1, <1>2 DEF RowInv

(* What is known when a pixel is compressed.                               *)
LEMMA OneMorePixel ==
  ASSUME CoderInv, InLine
  PROVE  /\ image \in Images /\ CoderType(enc) /\ TableInv(image, enc)
         /\ PlaceInv(image, enc) /\ enc.bufferPos < LineBytes(image)
         /\ save.buf \in Seq(Bytes) /\ Len(save.buf) < BlockLen
         /\ BitsInv(image, enc, save.buf)
         /\ RowInv(image, save, enc)
         /\ CurrentPixel \in Nat /\ CurrentPixel < ClearCode(image)
         /\ CurrentPixel < enc.nextCode
<1>1. /\ image \in Images /\ CoderType(enc) /\ TableInv(image, enc)
      /\ PlaceInv(image, enc) /\ RowInv(image, save, enc)
      /\ save.buf \in Seq(Bytes) /\ Len(save.buf) < BlockLen
      /\ BitsInv(image, enc, save.buf)
  BY DEF CoderInv, CoderOk
<1>2. enc.bufferPos < LineBytes(image)
  BY DEF InLine
<1>3. save.y \in Nat /\ save.y < image.height
  BY <1>1, <1>2 DEF RowInv
<1>4. CurrentPixel = image.pixel[<<save.y, Column(image, enc)>>]
  BY DEF CurrentPixel, Column
<1>5. CurrentPixel \in Nat /\ CurrentPixel < ClearCode(image) /\ CurrentPixel < enc.nextCode
  BY <1>1, <1>2, <1>3, <1>4, PixelIsCode
<1> QED
  BY <1>1, <1>2, <1>5

(* A new prefix and the next place, with the row and the block as before.  *)
LEMMA NextPixelOk ==
  ASSUME CoderInv, InLine,
         NEW x \in Nat, x < enc.nextCode, Learnt(image, enc) = 0 => x < ClearCode(image),
         NEW r, Repixeled(enc, r, x), NEW u, u = Advance(image, r)
  PROVE  CoderOk(image, u, save)
<1>1. /\ image \in Images /\ CoderType(enc) /\ TableInv(image, enc)
      /\ PlaceInv(image, enc) /\ enc.bufferPos < LineBytes(image)
      /\ save.buf \in Seq(Bytes) /\ Len(save.buf) < BlockLen
      /\ BitsInv(image, enc, save.buf)
      /\ RowInv(image, save, enc)
  BY OneMorePixel
<1>2. /\ CoderType(u) /\ TableInv(image, u) /\ PlaceInv(image, u)
      /\ BitsInv(image, u, save.buf)
  BY <1>1, NewPrefix
<1>3. RowInv(image, save, u)
  BY <1>1 DEF RowInv
<1> QED
  BY <1>1, <1>2, <1>3 DEF CoderOk

(* The first pixel keeps the invariant.                                    *)
LEMMA FirstPixelKeeps ==
  ASSUME CoderInv, FirstPixel
  PROVE  CoderInv'
<1>1. /\ InLine
      /\ enc' = Advance(image, [enc EXCEPT !.firstPixelPassed = TRUE, !.prefix = CurrentPixel])
      /\ UNCHANGED <<phase, image, save, file, full>>
  BY DEF FirstPixel, fileVars
<1>2. CurrentPixel \in Nat /\ CurrentPixel < ClearCode(image) /\ CurrentPixel < enc.nextCode
  BY <1>1, OneMorePixel
<1>3. PICK x : x = CurrentPixel
  OBVIOUS
<1>4. PICK r : r = [enc EXCEPT !.firstPixelPassed = TRUE, !.prefix = x]
  OBVIOUS
<1>5. Repixeled(enc, r, x)
  <2>1. CoderShape(enc)
    BY DEF CoderInv, CoderOk, CoderType
  <2>2. CoderShape(r)
    BY <1>4, <2>1 DEF CoderShape
  <2>3. /\ r.firstPixelPassed \in BOOLEAN /\ r.prefix = x
        /\ r.partial = enc.partial /\ r.partialSize = enc.partialSize
        /\ r.codeSize = enc.codeSize /\ r.nextCode = enc.nextCode /\ r.strmap = enc.strmap
        /\ r.bufferPos = enc.bufferPos /\ r.bufferShift = enc.bufferShift
    BY <1>4, <2>1 DEF CoderShape
  <2> QED
    BY <2>2, <2>3 DEF Repixeled
<1>6. CoderOk(image, enc', save)
  BY <1>1, <1>2, <1>3, <1>4, <1>5, NextPixelOk
<1> QED
  BY <1>1, <1>6 DEF CoderInv

(* A pixel that continues a string keeps it.                               *)
LEMMA ExtendPrefixKeeps ==
  ASSUME CoderInv, ExtendPrefix
  PROVE  CoderInv'
<1> DEFINE pair == <<enc.prefix, CurrentPixel>>
<1>1. /\ InLine /\ pair \in DOMAIN enc.strmap
      /\ enc' = Advance(image, [enc EXCEPT !.prefix = enc.strmap[pair]])
      /\ UNCHANGED <<phase, image, save, file, full>>
  <2>1. CoderShape(enc)
    BY DEF CoderInv, CoderOk, CoderType
  <2>2. [enc EXCEPT !.prefix = enc.strmap[<<@, CurrentPixel>>]]
          = [enc EXCEPT !.prefix = enc.strmap[pair]]
    BY <2>1 DEF CoderShape
  <2> QED
    BY <2>2 DEF ExtendPrefix, fileVars
<1>2. PICK x : x = enc.strmap[pair]
  OBVIOUS
<1>3. /\ x \in Nat /\ x < enc.nextCode
      /\ Learnt(image, enc) = 0 => x < ClearCode(image)
  <2>1. image \in Images /\ CoderType(enc) /\ TableInv(image, enc)
    BY DEF CoderInv, CoderOk
  <2>2. x \in EndCode(image) + 1 .. enc.nextCode - 1
    BY <1>1, <1>2, <2>1 DEF TableInv
  <2>3. EndCode(image) \in Nat /\ enc.nextCode \in Nat
    BY <2>1, ImageFacts DEF CoderType
  <2> QED
    BY <2>2, <2>3 DEF Learnt
<1> HIDE DEF pair
<1>4. PICK r : r = [enc EXCEPT !.prefix = x]
  OBVIOUS
<1>5. Repixeled(enc, r, x)
  <2>1. CoderShape(enc) /\ enc.firstPixelPassed \in BOOLEAN
    BY DEF CoderInv, CoderOk, CoderType
  <2>2. CoderShape(r)
    BY <1>4, <2>1 DEF CoderShape
  <2>3. /\ r.firstPixelPassed \in BOOLEAN /\ r.prefix = x
        /\ r.partial = enc.partial /\ r.partialSize = enc.partialSize
        /\ r.codeSize = enc.codeSize /\ r.nextCode = enc.nextCode /\ r.strmap = enc.strmap
        /\ r.bufferPos = enc.bufferPos /\ r.bufferShift = enc.bufferShift
    BY <1>4, <2>1 DEF CoderShape
  <2> QED
    BY <2>2, <2>3 DEF Repixeled
<1>6. CoderOk(image, enc', save)
  BY <1>1, <1>2, <1>3, <1>4, <1>5, NextPixelOk
<1> QED
  BY <1>1, <1>6 DEF CoderInv

(* The end of a line keeps it.                                             *)
LEMMA FinishLineKeeps ==
  ASSUME CoderInv, FinishLine
  PROVE  CoderInv'
<1>1. /\ save.y < image.height /\ ~InLine
      /\ save' = NextRow(image, save)
      /\ enc' = IF save'.y < image.height THEN FillBuffer(image, enc) ELSE enc
      /\ UNCHANGED <<phase, image, file, full>>
  BY DEF FinishLine, fileVars
<1>2. /\ image \in Images /\ CoderType(enc) /\ TableInv(image, enc)
      /\ PlaceInv(image, enc) /\ RowInv(image, save, enc)
      /\ save.buf \in Seq(Bytes) /\ Len(save.buf) < BlockLen
      /\ BitsInv(image, enc, save.buf)
  BY DEF CoderInv, CoderOk
<1>3. PICK next : next = NextRow(image, save)
  OBVIOUS
<1>4. /\ next.y \in Nat /\ next.pass \in 0..4 /\ next.buf = save.buf
      /\ next = [y |-> next.y, pass |-> next.pass, buf |-> next.buf]
      /\ next.y < image.height => next.pass \in 0..3
  BY <1>1, <1>2, <1>3, NextRowFacts
<1>5. CASE next.y < image.height
  <2>1. PICK u : u = FillBuffer(image, enc)
    OBVIOUS
  <2>2. /\ CoderType(u) /\ PlaceInv(image, u)
        /\ u.partial = enc.partial /\ u.partialSize = enc.partialSize
        /\ u.codeSize = enc.codeSize /\ u.nextCode = enc.nextCode /\ u.prefix = enc.prefix
        /\ u.strmap = enc.strmap
    BY <1>2, <2>1, FillKeeps
  <2>3. TableInv(image, u)
    BY <1>2, <2>2 DEF TableInv, Learnt
  <2>4. BitsInv(image, u, next.buf)
    BY <1>2, <1>4, <2>2, Zenon DEF BitsInv, Learnt
  <2>5. RowInv(image, next, u)
    BY <1>4, <1>5 DEF RowInv
  <2>6. CoderOk(image, u, next)
    BY <1>2, <1>4, <2>2, <2>3, <2>4, <2>5, Zenon DEF CoderOk
  <2>7. enc' = u /\ save' = next
    BY <1>1, <1>3, <1>5, <2>1
  <2> QED
    BY <1>1, <2>6, <2>7 DEF CoderInv
<1>6. CASE ~(next.y < image.height)
  <2>1. RowInv(image, next, enc)
    BY <1>1, <1>4, <1>6 DEF RowInv, InLine
  <2>2. CoderOk(image, enc, next)
    BY <1>2, <1>4, <2>1, Zenon DEF CoderOk
  <2>3. enc' = enc /\ save' = next
    BY <1>1, <1>3, <1>6
  <2> QED
    BY <1>1, <2>2, <2>3 DEF CoderInv
<1> QED
  BY <1>5, <1>6

(* CompressEnd and the last sub-blocks keep it.                            *)
LEMMA FinishSaveKeeps ==
  ASSUME CoderInv, FinishSave
  PROVE  CoderInv'
<1> DEFINE bytes == save.buf \o CompressEnd(enc)
           blocks == Append(LastBlocks(bytes), End)
<1>1. /\ phase = "saving" /\ Store(blocks) /\ phase' = "saved"
      /\ UNCHANGED <<image, enc, save>>
  BY DEF FinishSave, saveVars
<1>2. /\ image \in Images /\ CoderOk(image, enc, save) /\ full \in BOOLEAN
      /\ FileOk(file, "saving", full)
  BY <1>1 DEF CoderInv
<1>3. bytes \in Seq(Bytes) /\ Len(bytes) \in 1..2 * BlockLen
  <2>1. /\ CoderType(enc) /\ TableInv(image, enc) /\ BitsInv(image, enc, save.buf)
        /\ save.buf \in Seq(Bytes) /\ Len(save.buf) < BlockLen
    BY <1>2 DEF CoderOk
  <2>2. CompressEnd(enc) \in Seq(Bytes) /\ Len(CompressEnd(enc)) \in 1..8
    BY <1>2, <2>1, EndBytes
  <2>3. bytes \in Seq(Bytes) /\ Len(bytes) = Len(save.buf) + Len(CompressEnd(enc))
    BY <2>1, <2>2, ConcatProperties
  <2>4. BlockLen \in Nat /\ BlockLen > 6 /\ Len(save.buf) \in Nat
    BY <2>1, WidthAssumption, LenProperties
  <2> DEFINE a == Len(save.buf)
             c == Len(CompressEnd(enc))
  <2>5. /\ a \in Nat /\ a < BlockLen /\ c \in 1..8 /\ BlockLen \in Nat /\ BlockLen > 6
        /\ Len(bytes) = a + c
    BY <2>1, <2>2, <2>3, <2>4
  <2> HIDE DEF bytes, a, c
  <2>6. a + c \in 1..2 * BlockLen
    BY <2>5
  <2> QED
    BY <2>3, <2>5, <2>6
<1> HIDE DEF bytes
<1>4. Batch(blocks, "saved")
  BY <1>3, LastBatch
<1> HIDE DEF blocks
<1>5. full' \in BOOLEAN /\ FileOk(file', "saved", full')
  BY <1>1, <1>2, <1>4, StoreKeeps
<1> QED
  BY <1>1, <1>2, <1>5 DEF CoderInv

(* An array that is overrun ends saving, and changes nothing of it.        *)
LEMMA OverrunLastKeeps ==
  ASSUME CoderInv, OverrunLast
  PROVE  CoderInv'
<1>1. phase = "saving" /\ phase' = "overrun" /\ UNCHANGED <<image, enc, save, file, full>>
  BY DEF OverrunLast, saveVars, fileVars
<1>2. FileOk(file, "overrun", full)
  <2>1. FileOk(file, "saving", full)
    BY <1>1 DEF CoderInv
  <2> QED
    BY <2>1, CutFile
<1> QED
  BY <1>1, <1>2 DEF CoderInv

-----------------------------------------------------------------------------
(* What the code of the prefix makes of the coder and of the block.        *)
LEMMA EmittedOk ==
  ASSUME CoderInv, InLine,
         NEW n, NEW left, NEW d, NEW bytes, NEW rest,
         Taken(enc, save.buf, n, left, d, bytes, rest),
         NEW pair, NEW learnt, learnt = Learn(image, d, pair),
         NEW u, u = Advance(image, [learnt EXCEPT !.prefix = CurrentPixel])
  PROVE  /\ CoderOk(image, u, [save EXCEPT !.buf = rest])
         /\ bytes \in Seq(Bytes) /\ Len(bytes) <= BlockLen
<1>1. /\ image \in Images /\ CoderType(enc) /\ TableInv(image, enc)
      /\ PlaceInv(image, enc) /\ enc.bufferPos < LineBytes(image)
      /\ save.buf \in Seq(Bytes) /\ Len(save.buf) < BlockLen
      /\ BitsInv(image, enc, save.buf)
      /\ RowInv(image, save, enc)
      /\ CurrentPixel \in Nat /\ CurrentPixel < ClearCode(image)
  BY OneMorePixel
<1>2. /\ CoderType(learnt) /\ TableInv(image, learnt) /\ Elsewhere(enc, learnt)
      /\ bytes \in Seq(Bytes) /\ Len(bytes) <= BlockLen
      /\ rest \in Seq(Bytes) /\ Len(rest) < BlockLen
      /\ BitsInv(image, learnt, rest)
  BY <1>1, EmitKeeps
<1>3. PICK x : x = CurrentPixel
  OBVIOUS
<1>4. /\ x \in Nat /\ x < learnt.nextCode
      /\ Learnt(image, learnt) = 0 => x < ClearCode(image)
  <2>1. ClearCode(image) \in Nat /\ EndCode(image) = ClearCode(image) + 1
    BY <1>1, ImageFacts
  <2>2. learnt.nextCode \in Nat /\ learnt.nextCode > ClearCode(image)
    BY <1>2, <2>1 DEF TableInv, CoderType
  <2> QED
    BY <1>1, <1>3, <2>1, <2>2
<1>5. learnt.bufferPos < LineBytes(image) /\ PlaceInv(image, learnt)
  BY <1>1, <1>2 DEF Elsewhere, PlaceInv
<1>6. PICK r : r = [learnt EXCEPT !.prefix = x]
  OBVIOUS
<1>7. Repixeled(learnt, r, x)
  <2>1. CoderShape(learnt) /\ learnt.firstPixelPassed \in BOOLEAN
    BY <1>2 DEF CoderType
  <2>2. CoderShape(r)
    BY <1>6, <2>1 DEF CoderShape
  <2>3. /\ r.firstPixelPassed \in BOOLEAN /\ r.prefix = x
        /\ r.partial = learnt.partial /\ r.partialSize = learnt.partialSize
        /\ r.codeSize = learnt.codeSize /\ r.nextCode = learnt.nextCode
        /\ r.strmap = learnt.strmap
        /\ r.bufferPos = learnt.bufferPos /\ r.bufferShift = learnt.bufferShift
    BY <1>6, <2>1 DEF CoderShape
  <2> QED
    BY <2>2, <2>3 DEF Repixeled
<1>8. u = Advance(image, r)
  BY <1>3, <1>6
<1>9. /\ CoderType(u) /\ TableInv(image, u) /\ PlaceInv(image, u)
      /\ BitsInv(image, u, rest)
  BY <1>1, <1>2, <1>4, <1>5, <1>7, <1>8, NewPrefix
<1>10. PICK next : next = [save EXCEPT !.buf = rest]
  OBVIOUS
<1>11. RowInv(image, next, u) /\ next.buf = rest
  BY <1>1, <1>10, SameRow
<1>12. CoderOk(image, u, next)
  BY <1>2, <1>9, <1>11, Zenon DEF CoderOk
<1> QED
  BY <1>2, <1>10, <1>12

(* A pixel that sends a code keeps it.                                     *)
LEMMA EmitCodeKeeps ==
  ASSUME CoderInv, EmitCode
  PROVE  CoderInv'
<1>1. PICK put : put = PutCode(enc, enc.prefix)
  OBVIOUS
<1>2. PICK n : n = FullBytes(put, BlockLen - Len(save.buf))
  OBVIOUS
<1>3. PICK bytes : bytes = save.buf \o LowBytes(put, n)
  OBVIOUS
<1>4. PICK d : d = DropBits(put, n * ByteBits)
  OBVIOUS
<1>5. PICK pair : pair = <<enc.prefix, CurrentPixel>>
  OBVIOUS
<1>6. PICK learnt : learnt = Learn(image, d, pair)
  OBVIOUS
<1>7. PICK rest : rest = IF Len(bytes) = BlockLen THEN << >> ELSE bytes
  OBVIOUS
<1>8. /\ phase = "saving" /\ InLine
      /\ enc' = Advance(image, [learnt EXCEPT !.prefix = CurrentPixel])
      /\ IF Len(bytes) = BlockLen
         THEN save' = [save EXCEPT !.buf = << >>] /\ Store(<<Block(bytes)>>)
         ELSE save' = [save EXCEPT !.buf = bytes] /\ UNCHANGED fileVars
      /\ phase' = phase /\ image' = image
  BY <1>1, <1>2, <1>3, <1>4, <1>5, <1>6, Zenon DEF EmitCode
<1>9. PICK left : left = (enc.partialSize + enc.codeSize) - n * ByteBits
  OBVIOUS
<1>10. /\ image \in Images /\ CoderType(enc) /\ TableInv(image, enc)
       /\ save.buf \in Seq(Bytes) /\ Len(save.buf) < BlockLen
       /\ BitsInv(image, enc, save.buf)
  BY <1>8, OneMorePixel
<1>11. Taken(enc, save.buf, n, left, d, bytes, rest)
  <2>1. LET p == PutCode(enc, enc.prefix)
            k == FullBytes(p, BlockLen - Len(save.buf))
            b == save.buf \o LowBytes(p, k)
        IN  Taken(enc, save.buf, k, (enc.partialSize + enc.codeSize) - k * ByteBits,
                  DropBits(p, k * ByteBits), b,
                  IF Len(b) = BlockLen THEN << >> ELSE b)
    BY <1>10, EmitTakes, Zenon
  <2> QED
    BY <1>1, <1>2, <1>3, <1>4, <1>7, <1>9, <2>1, Zenon
<1>12. /\ CoderOk(image, enc', [save EXCEPT !.buf = rest])
       /\ bytes \in Seq(Bytes) /\ Len(bytes) <= BlockLen
  BY <1>6, <1>8, <1>11, EmittedOk
<1>13. save' = [save EXCEPT !.buf = rest]
  BY <1>7, <1>8
<1>14. full \in BOOLEAN /\ FileOk(file, "saving", full)
  BY <1>8 DEF CoderInv
<1>15. full' \in BOOLEAN /\ FileOk(file', "saving", full')
  <2>1. CASE Len(bytes) = BlockLen
    <3>1. PICK blocks : blocks = <<Block(bytes)>>
      OBVIOUS
    <3>2. Store(blocks)
      BY <1>8, <2>1, <3>1
    <3>3. Batch(blocks, "saving") /\ \A k \in 1..Len(blocks) : FullBlock(blocks[k])
      BY <1>12, <2>1, <3>1, FullBatch
    <3> QED
      BY <1>14, <3>2, <3>3, StoreKeeps
  <2>2. CASE Len(bytes) # BlockLen
    BY <1>8, <1>14, <2>2 DEF fileVars
  <2> QED
    BY <2>1, <2>2
<1>16. CoderOk(image', enc', save')
  BY <1>8, <1>12, <1>13
<1> QED
  BY <1>8, <1>10, <1>15, <1>16 DEF CoderInv

(* Loading changes nothing of what saving is about.                        *)
LEMMA LoadKeeps ==
  ASSUME CoderInv, LoadStep
  PROVE  CoderInv'
<1>1. /\ UNCHANGED <<image, enc, save, file, full>>
      /\ phase' = phase \/ phase' \in {"refused", "loading", "loaded"}
  BY DEF LoadStep, Open, ReadBlock, FinishLoad, TakeByte, EndOfBuffer, TakeEndCode,
         TakeClearCode, TakeCode, ShowPixel, CallAgain, saveVars, fileVars
<1>2. FileOk(file, phase', full)
  <2>1. FileOk(file, phase, full)
    BY DEF CoderInv
  <2>2. CASE phase' = phase
    BY <2>1, <2>2
  <2>3. CASE phase' \in {"refused", "loading", "loaded"}
    <3>1. phase' # "saving"
      BY <2>3
    <3> QED
      BY <2>1, <3>1, CutFile
  <2> QED
    BY <1>1, <2>2, <2>3
<1> QED
  BY <1>1, <1>2 DEF CoderInv

(* Every step keeps it.                                                    *)
LEMMA CoderStep == CoderInv /\ [Next]_vars => CoderInv'
<1> SUFFICES ASSUME CoderInv, [Next]_vars PROVE CoderInv'
  OBVIOUS
<1>1. CASE SaveStep
  BY <1>1, FirstPixelKeeps, ExtendPrefixKeeps, EmitCodeKeeps, FinishLineKeeps, FinishSaveKeeps,
     OverrunLastKeeps DEF SaveStep
<1>2. CASE LoadStep
  BY <1>2, LoadKeeps
<1>3. CASE UNCHANGED vars
  <2>1. UNCHANGED <<phase, image, enc, save, file, full>>
    BY <1>3 DEF vars, saveVars, fileVars
  <2> QED
    BY <2>1 DEF CoderInv
<1> QED
  BY <1>1, <1>2, <1>3 DEF Next

(* It holds in every state.                                                *)
LEMMA CoderAlways == Spec => []CoderInv
BY InitCoder, CoderStep, PTL DEF Spec

-----------------------------------------------------------------------------
(* The array is overrun only by more bytes than it has.                    *)
OverrunInv == phase = "overrun" => Len(CompressEnd(enc)) > LastLen
LEMMA OverrunAlways == Spec => []OverrunInv
<1>1. Init => OverrunInv
  BY DEF Init, SaveInit, OverrunInv
<1>2. OverrunInv /\ [Next]_vars => OverrunInv'
  <2> SUFFICES ASSUME OverrunInv, [Next]_vars PROVE OverrunInv'
    OBVIOUS
  <2>1. CASE OverrunLast
    <3>1. Len(CompressEnd(enc)) > LastLen /\ enc' = enc /\ image' = image
      BY <2>1 DEF OverrunLast, saveVars
    <3> QED
      BY <3>1 DEF OverrunInv, CompressEnd, EndCode, ClearCode, MinCodeSize
  <2>2. CASE UNCHANGED vars
    <3>1. phase' = phase /\ enc' = enc /\ image' = image
      BY <2>2 DEF vars, saveVars
    <3> QED
      BY <3>1 DEF OverrunInv, CompressEnd, EndCode, ClearCode, MinCodeSize
  <2>3. CASE FirstPixel \/ ExtendPrefix \/ EmitCode \/ FinishLine \/ FinishSave
    <3>1. phase' # "overrun"
      BY <2>3 DEF FirstPixel, ExtendPrefix, EmitCode, FinishLine, FinishSave
    <3> QED
      BY <3>1 DEF OverrunInv
  <2>4. CASE LoadStep
    <3>1. phase' # "overrun"
      BY <2>4 DEF LoadStep, Open, ReadBlock, FinishLoad, TakeByte, EndOfBuffer, TakeEndCode,
                  TakeClearCode, TakeCode, ShowPixel, CallAgain, HasCode, WantsByte
    <3> QED
      BY <3>1 DEF OverrunInv
  <2> QED
    BY <2>1, <2>2, <2>3, <2>4 DEF Next, SaveStep
<1> QED
  BY <1>1, <1>2, PTL DEF Spec

(* What waits in m_partial between two pixels is less than a code, but for *)
(* what a clear code adds; it is a byte or more only behind a clear code   *)
(* and in an empty sub-block.  The array `last` is overrun only when it is *)
(* a byte or more, and never by more than two codes make.                  *)
THEOREM LeftoverBounded == Spec => []Leftover
<1>1. CoderInv /\ OverrunInv => Leftover
  <2> HIDE DEF Pow2
  <2> SUFFICES ASSUME CoderInv, OverrunInv PROVE Leftover
    OBVIOUS
  <2>1. /\ image \in Images /\ CoderType(enc) /\ TableInv(image, enc)
        /\ save.buf \in Seq(Bytes) /\ BitsInv(image, enc, save.buf)
    BY DEF CoderInv, CoderOk
  <2>2. /\ ByteBits \in Nat \ {0} /\ CodeBits \in Nat /\ ByteBits < CodeBits
        /\ MinCodeSize(image) \in Nat /\ enc.partialSize \in Nat
        /\ enc.codeSize \in Nat /\ enc.codeSize <= CodeBits
    BY <2>1, ImageFacts, CoderNumbers
  <2> DEFINE learnt == enc.nextCode - (EndCode(image) + 1)
             bound == CASE learnt = 0 -> 2 * CodeBits
                        [] learnt = 1 -> CodeBits + MinCodeSize(image) + 1
                        [] OTHER -> CodeBits
             n == Len(CompressEnd(enc))
  <2>3. learnt = Learnt(image, enc)
    BY DEF Learnt
  <2>4. /\ \/ enc.partialSize < ByteBits
           \/ learnt = 0 /\ enc.partialSize < ByteBits + CodeBits
           \/ enc.partialSize < bound
        /\ enc.partialSize < ByteBits \/ learnt = 0 \/ save.buf = << >>
    BY <2>1, <2>3, Zenon DEF BitsInv
  <2>5. Leftover <=> /\ enc.partialSize < bound
                     /\ enc.partialSize < ByteBits \/ learnt = 0 \/ save.buf = << >>
                     /\ phase = "overrun" => /\ enc.partialSize >= ByteBits
                                             /\ ByteBits * n < 4 * CodeBits + ByteBits
    BY Zenon DEF Leftover
  <2>6. phase = "overrun" => /\ enc.partialSize >= ByteBits
                             /\ ByteBits * n < 4 * CodeBits + ByteBits
    <3> SUFFICES ASSUME phase = "overrun" PROVE /\ enc.partialSize >= ByteBits
                                                /\ ByteBits * n < 4 * CodeBits + ByteBits
      OBVIOUS
    <3>1. /\ n \in Nat /\ enc.partialSize < 2 * CodeBits
          /\ ByteBits * n < enc.partialSize + 2 * enc.codeSize + ByteBits
      BY <2>1, EndBytes
    <3>2. n > LastLen /\ LastLen \in Nat /\ ByteBits * LastLen >= 2 * CodeBits + ByteBits - 1
      BY WidthAssumption DEF OverrunInv
    <3> HIDE DEF n
    <3>3. ByteBits * n >= ByteBits * (LastLen + 1)
      BY <2>2, <3>1, <3>2
    <3>4. ByteBits * (LastLen + 1) = ByteBits * LastLen + ByteBits
      BY <2>2, <3>2
    <3> DEFINE bn == ByteBits * n
               bl == ByteBits * LastLen
    <3>5. /\ bn \in Nat /\ bl \in Nat /\ bn >= bl + ByteBits /\ bl >= 2 * CodeBits + ByteBits - 1
          /\ bn < enc.partialSize + 2 * enc.codeSize + ByteBits
      BY <2>2, <3>1, <3>2, <3>3, <3>4
    <3> HIDE DEF bn, bl
    <3>6. enc.partialSize >= ByteBits /\ bn < 4 * CodeBits + ByteBits
      BY <2>2, <3>1, <3>5
    <3> QED
      BY <3>6 DEF bn
  <2> HIDE DEF learnt, n
  <2>7. bound \in Nat /\ ByteBits <= bound /\ (learnt = 0 => bound = 2 * CodeBits)
    BY <2>2
  <2> HIDE DEF bound
  <2> QED
    BY <2>2, <2>4, <2>5, <2>6, <2>7
<1> QED
  BY <1>1, CoderAlways, OverrunAlways, PTL

(* The file is one of sub-blocks as a reader takes them: never an empty    *)
(* one before the terminator, never a short one before another, however    *)
(* far it was written.                                                     *)
THEOREM FileOfSubBlocks == Spec => []SubBlocksWellFormed
<1>1. CoderInv => SubBlocksWellFormed
  BY Zenon DEF CoderInv, FileOk, SubBlocksWellFormed
<1> QED
  BY <1>1, CoderAlways, PTL

(* The bit buffer of the coder is an int, and the codes leave one bit of   *)
(* it free.  With 8 and 12 bits the hypothesis holds for every picture.    *)
THEOREM CoderFitsItsInt ==
  ASSUME \A i \in Images : MinCodeSize(i) + 2 <= CodeBits
  PROVE  Spec => []CoderInRange
<1>1. CoderInv => CoderInRange
  <2> HIDE DEF Pow2
  <2> SUFFICES ASSUME CoderInv PROVE CoderInRange
    OBVIOUS
  <2>1. /\ image \in Images /\ CoderType(enc) /\ TableInv(image, enc)
        /\ BitsInv(image, enc, save.buf)
    BY DEF CoderInv, CoderOk
  <2> DEFINE m == MinCodeSize(image)
             ps == enc.partialSize
             cs == enc.codeSize
             fresh == Learnt(image, enc)
             word == 2 * CodeBits + m - 1
  <2>2. /\ m \in Nat /\ 2 <= m /\ m + 2 <= CodeBits
        /\ ByteBits \in Nat \ {0} /\ CodeBits \in Nat /\ ByteBits < CodeBits
        /\ ClearCode(image) = Pow2[m]
    BY <2>1, ImageFacts DEF ClearCode
  <2>3. /\ ps \in Nat /\ cs \in Nat /\ cs <= CodeBits /\ fresh \in Nat
        /\ fresh <= 1 => cs = m + 1
    BY <2>1, CoderNumbers
  <2>4. /\ enc.partial \in Nat /\ enc.partial < Pow2[ps] /\ enc.prefix \in Nat
        /\ enc.prefix < Pow2[cs] /\ CoderShape(enc)
        /\ fresh = 0 => enc.prefix < Pow2[m]
    <3>1. enc.partial \in Nat /\ enc.prefix \in Nat /\ CoderShape(enc) /\ enc.nextCode \in Nat
      BY <2>1 DEF CoderType
    <3>2. enc.partial < Pow2[ps]
      BY <2>1 DEF BitsInv
    <3>3. enc.prefix < enc.nextCode /\ enc.nextCode <= Pow2[cs]
      BY <2>1 DEF TableInv
    <3>4. Pow2[cs] \in Nat
      BY <2>3, PowerEquations
    <3>5. fresh = 0 => enc.prefix < Pow2[m]
      BY <2>1, <2>2, Zenon DEF TableInv
    <3> QED
      BY <3>1, <3>2, <3>3, <3>4, <3>5
  <2>5. /\ word \in Nat /\ WordBits - 1 = word
    BY <2>2 DEF WordBits
  <2>6. ASSUME NEW w \in Nat, enc.prefix < Pow2[w], ps + w <= word
        PROVE  enc.partial + enc.prefix * Pow2[ps] < Pow2[word]
    <3>1. /\ enc.partial + enc.prefix * Pow2[ps] \in Nat
          /\ enc.partial + enc.prefix * Pow2[ps] < Pow2[ps + w]
      BY <2>3, <2>4, <2>6, ShiftedIn
    <3>2. ps + w \in Nat
      BY <2>3, <2>6
    <3> HIDE DEF word, ps
    <3>3. Pow2[ps + w] \in Nat /\ Pow2[word] \in Nat /\ Pow2[ps + w] <= Pow2[word]
      BY <2>5, <2>6, <3>2, PowerEquations, PowerGrows
    <3> QED
      BY <3>1, <3>3
  <2>7. /\ fresh = 0 => ps < 2 * CodeBits
        /\ fresh = 1 => ps < CodeBits + m + 1
        /\ fresh # 0 /\ fresh # 1 => ps < CodeBits
    BY <2>1, <2>2, <2>3 DEF BitsInv
  <2>8. enc.partial + enc.prefix * Pow2[ps] < Pow2[word]
    <3>1. CASE fresh = 0
      <4>1. enc.prefix < Pow2[m] /\ ps + m <= word
        BY <2>2, <2>3, <2>4, <2>7, <3>1
      <4> QED
        BY <2>2, <2>6, <4>1
    <3>2. CASE fresh # 0
      <4>1. ps + cs <= word
        BY <2>2, <2>3, <2>7, <3>2
      <4> QED
        BY <2>3, <2>4, <2>6, <4>1
    <3> QED
      BY <3>1, <3>2
  <2>9. PutCode(enc, enc.prefix).partial = enc.partial + enc.prefix * Pow2[ps]
    BY <2>4, PutFacts
  <2> QED
    BY <2>4, <2>5, <2>8, <2>9 DEF CoderInRange
<1> QED
  BY <1>1, CoderAlways, PTL

-----------------------------------------------------------------------------
(* Numbers taken apart, and bits of numbers.                               *)

(* Division with a remainder.                                              *)
LEMMA Divided ==
  ASSUME NEW x \in Nat, NEW d \in Nat \ {0}
  PROVE  \E q, r \in Nat : q = x \div d /\ r = x % d /\ r < d /\ x = q * d + r
<1>1. PICK q, r : q = x \div d /\ r = x % d
  OBVIOUS
<1>2. x \div d \in Nat
  OBVIOUS
<1>3. x % d \in Nat /\ x % d < d
  OBVIOUS
<1>4. x - (x \div d) * d = x % d
  BY <1>1, Z3
<1>5. q \in Nat /\ r \in Nat /\ x - q * d = r
  BY <1>1, <1>2, <1>3, <1>4
<1>6. x = q * d + r
  <2>1. q * d \in Nat
    BY <1>5
  <2> QED
    BY <1>5, <2>1
<1>7. r < d
  BY <1>1, <1>3, Zenon
<1> QED
  BY <1>1, <1>5, <1>6, <1>7, Zenon

(* There is only one.                                                      *)
LEMMA DividedOnce ==
  ASSUME NEW q \in Nat, NEW r \in Nat, NEW d \in Nat \ {0}, r < d, NEW x, x = q * d + r
  PROVE  x \div d = q /\ x % d = r
<1>1. x \in Nat
  OBVIOUS
<1>2. PICK p, s \in Nat : p = x \div d /\ s = x % d /\ s < d /\ x = p * d + s
  BY <1>1, Divided
<1>3. p * d + s = q * d + r
  BY <1>2
<1>4. ~(p < q)
  <2> SUFFICES ASSUME p < q PROVE FALSE
    OBVIOUS
  <2>1. (p + 1) * d <= q * d /\ (p + 1) * d = p * d + d
    OBVIOUS
  <2> QED
    BY <1>2, <1>3, <2>1
<1>5. ~(q < p)
  <2> SUFFICES ASSUME q < p PROVE FALSE
    OBVIOUS
  <2>1. (q + 1) * d <= p * d /\ (q + 1) * d = q * d + d
    OBVIOUS
  <2> QED
    BY <1>3, <2>1
<1>6. p = q
  BY <1>4, <1>5
<1>7. s = r
  BY <1>3, <1>6
<1> QED
  BY <1>2, <1>6, <1>7

(* The same, for quotient and rest put together.                           *)
LEMMA DividedSum ==
  ASSUME NEW q \in Nat, NEW r \in Nat, NEW d \in Nat \ {0}, r < d
  PROVE  (q * d + r) \div d = q /\ (q * d + r) % d = r
<1>1. PICK x : x = q * d + r
  OBVIOUS
<1>2. x \div d = q /\ x % d = r
  BY <1>1, DividedOnce
<1> QED
  BY <1>1, <1>2, Zenon

(* A number in three parts: the rest of two divisions and the quotient.    *)
Split(x, d, e, z, s, r) ==
  /\ r < d /\ s < e /\ x = z * (d * e) + (s * d + r)
  /\ x \div d = z * e + s /\ x % d = r
  /\ (x \div d) \div e = z /\ (x \div d) % e = s
  /\ x \div (d * e) = z /\ x % (d * e) = s * d + r
  /\ (x % (d * e)) \div d = s /\ (x % (d * e)) % d = r

(* Dividing by a product: first by the one, then by the other factor.      *)
LEMMA DividedTwice ==
  ASSUME NEW x \in Nat, NEW d \in Nat \ {0}, NEW e \in Nat \ {0}
  PROVE  \E z, s, r \in Nat : Split(x, d, e, z, s, r)
<1>1. PICK y, r \in Nat : y = x \div d /\ r = x % d /\ r < d /\ x = y * d + r
  BY Divided
<1>2. PICK z, s \in Nat : z = y \div e /\ s = y % e /\ s < e /\ y = z * e + s
  BY Divided
<1>3. PICK p \in Nat \ {0} : p = d * e
  OBVIOUS
<1>4. PICK l \in Nat : l = s * d + r
  OBVIOUS
<1>5. l < p
  <2>1. (s + 1) * d <= e * d
    BY <1>2
  <2>2. (s + 1) * d = s * d + d /\ e * d = d * e /\ s * d \in Nat
    OBVIOUS
  <2> QED
    BY <1>1, <1>3, <1>4, <2>1, <2>2
<1>6. x = z * p + l
  <2>1. (z * e + s) * d = z * (d * e) + s * d
    OBVIOUS
  <2>2. PICK zp, sd \in Nat : zp = z * p /\ sd = s * d
    OBVIOUS
  <2>3. y * d = zp + sd
    BY <1>2, <1>3, <2>1, <2>2, Zenon
  <2>4. x = (zp + sd) + r /\ l = sd + r
    BY <1>1, <1>4, <2>2, <2>3, Zenon
  <2>5. x = zp + l
    BY <2>4
  <2> QED
    BY <2>2, <2>5, Zenon
<1>7. x \div (d * e) = z /\ x % (d * e) = l
  <2>1. x \div p = z /\ x % p = l
    BY <1>5, <1>6, DividedOnce
  <2> QED
    BY <1>3, <2>1, Zenon
<1>8. l \div d = s /\ l % d = r
  BY <1>1, <1>4, DividedSum, Zenon
<1>9. /\ r < d /\ s < e /\ x = z * (d * e) + (s * d + r)
      /\ x \div d = z * e + s /\ x % d = r
  BY <1>1, <1>2, <1>3, <1>4, <1>6, Zenon
<1>10. /\ (x \div d) \div e = z /\ (x \div d) % e = s
  BY <1>1, <1>2, Zenon
<1>11. /\ x \div (d * e) = z /\ x % (d * e) = s * d + r
       /\ (x % (d * e)) \div d = s /\ (x % (d * e)) % d = r
  BY <1>4, <1>7, <1>8, Zenon
<1> QED
  BY <1>9, <1>10, <1>11, Zenon DEF Split

(* The n bits of a number that lie above the lowest o.                     *)
Bits(v, o, n) == (v \div Pow2[o]) % Pow2[n]

(* What is above the lowest bits, and n bits of it, are numbers.           *)
LEMMA BitsType ==
  ASSUME NEW v \in Nat, NEW o \in Nat, NEW n \in Nat
  PROVE  /\ v \div Pow2[o] \in Nat /\ Bits(v, o, n) \in Nat /\ Bits(v, o, n) < Pow2[n]
         /\ Pow2[o] \in Nat \ {0} /\ Pow2[n] \in Nat \ {0}
<1> HIDE DEF Pow2
<1>1. Pow2[o] \in Nat \ {0} /\ Pow2[n] \in Nat \ {0}
  BY PowerEquations
<1>2. PICK d, e \in Nat \ {0} : d = Pow2[o] /\ e = Pow2[n]
  BY <1>1
<1>3. PICK y \in Nat : y = v \div d
  BY Divided
<1>4. y % e \in Nat /\ y % e < e
  BY Divided
<1> QED
  BY <1>2, <1>3, <1>4, Zenon DEF Bits

(* n and then m bits: how they lie in n + m.                               *)
LEMMA BitsOfBits ==
  ASSUME NEW v \in Nat, NEW o \in Nat, NEW n \in Nat, NEW m \in Nat
  PROVE  /\ Bits(v, o, n + m) % Pow2[n] = Bits(v, o, n)
         /\ Bits(v, o, n + m) \div Pow2[n] = Bits(v, o + n, m)
         /\ Bits(v, o, n + m) = Bits(v, o, n) + Bits(v, o + n, m) * Pow2[n]
         /\ v \div Pow2[o + n] = (v \div Pow2[o]) \div Pow2[n]
<1> HIDE DEF Pow2
<1>1. PICK c, d, e \in Nat \ {0} : c = Pow2[o] /\ d = Pow2[n] /\ e = Pow2[m]
  BY PowerEquations
<1>2. Pow2[n + m] = d * e /\ Pow2[o + n] = c * d
  BY <1>1, PowerSum
<1>3. PICK x \in Nat : x = v \div c
  <2>1. v \div c \in Nat
    OBVIOUS
  <2> QED
    BY <2>1
<1>4. v \div (c * d) = x \div d
  <2>1. \E z, s, r \in Nat : Split(v, c, d, z, s, r)
    BY DividedTwice
  <2> QED
    BY <1>3, <2>1, Zenon DEF Split
<1>12. PICK z, s, r \in Nat : Split(x, d, e, z, s, r)
  BY DividedTwice
<1>5. /\ r < d /\ s < e /\ x % d = r /\ (x \div d) % e = s
      /\ x % (d * e) = s * d + r
      /\ (x % (d * e)) \div d = s /\ (x % (d * e)) % d = r
  BY <1>12, Zenon DEF Split
<1>6. Bits(v, o, n + m) = x % (d * e) /\ Bits(v, o, n) = x % d
  BY <1>1, <1>2, <1>3, Zenon DEF Bits
<1>7. Bits(v, o + n, m) = (x \div d) % e
  BY <1>1, <1>2, <1>4, Zenon DEF Bits
<1>8. s * d + r = r + s * d
  OBVIOUS
<1>9. /\ Bits(v, o, n + m) % Pow2[n] = Bits(v, o, n)
      /\ Bits(v, o, n + m) \div Pow2[n] = Bits(v, o + n, m)
  BY <1>1, <1>5, <1>6, <1>7, Zenon
<1>10. Bits(v, o, n + m) = Bits(v, o, n) + Bits(v, o + n, m) * Pow2[n]
  BY <1>1, <1>5, <1>6, <1>7, <1>8, Zenon
<1>11. v \div Pow2[o + n] = (v \div Pow2[o]) \div Pow2[n]
  BY <1>1, <1>2, <1>3, <1>4, Zenon
<1> QED
  BY <1>9, <1>10, <1>11, Zenon

(* What is put in above the lowest n + m bits changes none of them.        *)
LEMMA BitsBelow ==
  ASSUME NEW v \in Nat, NEW o \in Nat, NEW n \in Nat, NEW m \in Nat, o + n <= m, NEW c \in Nat
  PROVE  /\ v + c * Pow2[m] \in Nat
         /\ Bits(v + c * Pow2[m], o, n) = Bits(v, o, n)
         /\ (v + c * Pow2[m]) \div Pow2[o] = (v \div Pow2[o]) + c * Pow2[m - o]
<1> HIDE DEF Pow2
<1>1. PICK l \in Nat : l = m - (o + n) /\ m - o = n + l /\ m = o + (n + l)
  OBVIOUS
<1>2. PICK d, e, f \in Nat \ {0} : d = Pow2[o] /\ e = Pow2[n] /\ f = Pow2[l]
  BY PowerEquations
<1>3. Pow2[m] = d * (e * f) /\ Pow2[m - o] = e * f
  <2>1. PICK h \in Nat : h = n + l
    OBVIOUS
  <2>2. Pow2[o + h] = Pow2[o] * Pow2[h] /\ Pow2[n + l] = Pow2[n] * Pow2[l]
    BY PowerSum
  <2> QED
    BY <1>1, <1>2, <2>1, <2>2, Zenon
<1>4. PICK x : x = v + c * Pow2[m]
  OBVIOUS
<1>5. PICK y, r \in Nat : y = v \div d /\ r = v % d /\ r < d /\ v = y * d + r
  BY Divided, Zenon
<1>6. PICK z, s \in Nat : z = y \div e /\ s = y % e /\ s < e /\ y = z * e + s
  BY Divided, Zenon
<1>7. c * (e * f) \in Nat /\ z + c * f \in Nat
  OBVIOUS
<1>8. PICK w \in Nat : w = y + c * (e * f)
  BY <1>7
<1>9. x = w * d + r
  <2>1. c * (d * (e * f)) = (c * (e * f)) * d
    OBVIOUS
  <2>2. (y + c * (e * f)) * d = y * d + (c * (e * f)) * d
    BY <1>7
  <2>3. PICK yd, cd \in Nat : yd = y * d /\ cd = (c * (e * f)) * d
    BY <1>7
  <2>4. x = (yd + r) + cd /\ w * d = yd + cd
    BY <1>3, <1>4, <1>5, <1>8, <2>1, <2>2, <2>3, Zenon
  <2>5. x = (yd + cd) + r
    BY <2>4
  <2> QED
    BY <2>4, <2>5, Zenon
<1>10. x \in Nat
  BY <1>9
<1>11. x \div d = w
  BY <1>5, <1>9, DividedOnce
<1>12. w = (z + c * f) * e + s
  <2>1. c * (e * f) = (c * f) * e
    OBVIOUS
  <2>2. (z + c * f) * e = z * e + (c * f) * e
    OBVIOUS
  <2>3. PICK ze, ce \in Nat : ze = z * e /\ ce = (c * f) * e
    OBVIOUS
  <2>4. w = (ze + s) + ce /\ (z + c * f) * e = ze + ce
    BY <1>6, <1>8, <2>1, <2>2, <2>3, Zenon
  <2>5. w = (ze + ce) + s
    BY <2>4
  <2> QED
    BY <2>4, <2>5, Zenon
<1>13. w % e = s
  <2>1. PICK k \in Nat : k = z + c * f
    BY <1>7
  <2>2. (k * e + s) % e = s
    BY <1>6, DividedSum, Zenon
  <2> QED
    BY <1>12, <2>1, <2>2, Zenon
<1>14. Bits(x, o, n) = Bits(v, o, n)
  BY <1>2, <1>5, <1>6, <1>11, <1>13, Zenon DEF Bits
<1>15. x \div Pow2[o] = (v \div Pow2[o]) + c * Pow2[m - o]
  BY <1>2, <1>3, <1>5, <1>8, <1>11, Zenon
<1> QED
  BY <1>4, <1>10, <1>14, <1>15, Zenon

(* A code put in above m bits is what the bits above are.                  *)
LEMMA BitsPut ==
  ASSUME NEW v \in Nat, NEW m \in Nat, NEW n \in Nat, NEW c \in Nat, v < Pow2[m], c < Pow2[n]
  PROVE  /\ Bits(v + c * Pow2[m], m, n) = c
         /\ v + c * Pow2[m] < Pow2[m + n]
<1> HIDE DEF Pow2
<1>1. PICK d, e \in Nat \ {0} : d = Pow2[m] /\ e = Pow2[n]
  BY PowerEquations
<1>2. PICK x : x = v + c * d
  OBVIOUS
<1>3. x = c * d + v
  <2>1. c * d \in Nat
    OBVIOUS
  <2> QED
    BY <1>2, <2>1
<1>4. x \div d = c
  BY <1>1, <1>3, DividedOnce
<1>5. c = 0 * e + c
  OBVIOUS
<1>6. c % e = c
  BY <1>1, <1>5, DividedOnce
<1>7. x < Pow2[m + n]
  BY <1>1, <1>2, ShiftedIn
<1> QED
  BY <1>1, <1>2, <1>4, <1>6, <1>7, Zenon DEF Bits

(* Of a number that is itself some bits of another.                        *)
LEMMA BitsWithin ==
  ASSUME NEW v \in Nat, NEW o \in Nat, NEW a \in Nat, NEW n \in Nat
  PROVE  Bits(v \div Pow2[o], a, n) = Bits(v, o + a, n)
<1> HIDE DEF Pow2
<1>1. v \div Pow2[o + a] = (v \div Pow2[o]) \div Pow2[a]
  BY BitsOfBits
<1> QED
  BY <1>1, Zenon DEF Bits

-----------------------------------------------------------------------------
(* The order in which Save writes pixels and Load shows them.              *)

(* f goes from a by step, n times.                                         *)
StepsTo(f, S, step, a, n) ==
  f \in [0..n -> S] /\ f[0] = a /\ \A k \in 0..n-1 : f[k + 1] = step[f[k]]

(* A step taken again and again from a start.                              *)
LEMMA Iterates ==
  ASSUME NEW S, NEW a \in S, NEW step \in [S -> S]
  PROVE  \E f \in [Nat -> S] : f[0] = a /\ \A n \in Nat : f[n + 1] = step[f[n]]
<1>1. \A n \in Nat : \E f : StepsTo(f, S, step, a, n)
  <2> DEFINE T == {n \in Nat : \E f : StepsTo(f, S, step, a, n)}
  <2>1. 0 \in T
    <3>1. PICK f : f = [k \in 0..0 |-> a]
      OBVIOUS
    <3>2. f \in [0..0 -> S] /\ f[0] = a
      BY <3>1
    <3>3. \A k \in 0..0-1 : f[k + 1] = step[f[k]]
      OBVIOUS
    <3> QED
      BY <3>2, <3>3 DEF StepsTo
  <2>2. ASSUME NEW n \in Nat, n \in T PROVE n + 1 \in T
    <3>1. PICK f : StepsTo(f, S, step, a, n)
      BY <2>2
    <3>2. PICK top : top = step[f[n]]
      OBVIOUS
    <3>3. f \in [0..n -> S] /\ f[0] = a /\ f[n] \in S /\ top \in S
          /\ \A k \in 0..n-1 : f[k + 1] = step[f[k]]
      BY <3>1, <3>2 DEF StepsTo
    <3>4. PICK g : g = [k \in 0..n + 1 |-> IF k <= n THEN f[k] ELSE top]
      OBVIOUS
    <3>5. g \in [0..n + 1 -> S] /\ g[0] = a /\ g[n + 1] = top
          /\ \A k \in 0..n : g[k] = f[k]
      BY <3>3, <3>4
    <3>6. ASSUME NEW k \in 0..(n + 1)-1 PROVE g[k + 1] = step[g[k]]
      <4>1. CASE k = n
        BY <3>2, <3>5, <4>1
      <4>2. CASE k \in 0..n-1
        <5>1. k + 1 \in 0..n /\ k \in 0..n
          BY <4>2
        <5> QED
          BY <3>3, <3>5, <4>2, <5>1
      <4> QED
        BY <4>1, <4>2
    <3>7. StepsTo(g, S, step, a, n + 1)
      BY <3>5, <3>6 DEF StepsTo
    <3> QED
      BY <3>7
  <2> HIDE DEF T
  <2>3. Nat \subseteq T
    BY <2>1, <2>2, SetInduction
  <2> QED
    BY <2>3 DEF T
<1>2. ASSUME NEW n \in Nat, NEW f, NEW g,
             StepsTo(f, S, step, a, n), StepsTo(g, S, step, a, n + 1)
      PROVE  f[n] = g[n]
  <2> DEFINE T == {k \in Nat : k <= n => f[k] = g[k]}
  <2>1. 0 \in T
    BY <1>2 DEF StepsTo
  <2>2. ASSUME NEW k \in Nat, k \in T PROVE k + 1 \in T
    <3> SUFFICES ASSUME k + 1 <= n PROVE f[k + 1] = g[k + 1]
      OBVIOUS
    <3>1. k \in 0..n-1 /\ k \in 0..(n + 1)-1
      OBVIOUS
    <3>2. f[k + 1] = step[f[k]] /\ g[k + 1] = step[g[k]]
      BY <1>2, <3>1 DEF StepsTo
    <3> QED
      BY <2>2, <3>2
  <2> HIDE DEF T
  <2>3. Nat \subseteq T
    BY <2>1, <2>2, SetInduction
  <2> QED
    BY <2>3 DEF T
<1> DEFINE F(n) == CHOOSE f : StepsTo(f, S, step, a, n)
<1>3. \A n \in Nat : StepsTo(F(n), S, step, a, n)
  BY <1>1
<1> HIDE DEF F
<1>4. PICK p : p = [n \in Nat |-> F(n)[n]]
  OBVIOUS
<1>5. p \in [Nat -> S]
  <2>1. ASSUME NEW n \in Nat PROVE F(n)[n] \in S
    <3>1. F(n) \in [0..n -> S] /\ n \in 0..n
      BY <1>3 DEF StepsTo
    <3> QED
      BY <3>1
  <2> QED
    BY <1>4, <2>1
<1>6. p[0] = a
  <2>1. F(0)[0] = a
    BY <1>3 DEF StepsTo
  <2> QED
    BY <1>4, <2>1
<1>7. ASSUME NEW n \in Nat PROVE p[n + 1] = step[p[n]]
  <2>1. F(n)[n] = F(n + 1)[n]
    <3>1. StepsTo(F(n), S, step, a, n) /\ StepsTo(F(n + 1), S, step, a, n + 1)
      BY <1>3
    <3> QED
      BY <1>2, <3>1
  <2>2. F(n + 1)[n + 1] = step[F(n + 1)[n]]
    <3>1. StepsTo(F(n + 1), S, step, a, n + 1) /\ n \in 0..(n + 1)-1
      BY <1>3
    <3> QED
      BY <3>1 DEF StepsTo
  <2> QED
    BY <1>4, <2>1, <2>2
<1> QED
  BY <1>5, <1>6, <1>7

(* The pass of an interlaced picture in which a row is written.            *)
Class(i, y) ==
  IF ~i.interlaced \/ y % 8 = 0 THEN 0
  ELSE IF y % 8 = 4 THEN 1 ELSE IF y % 4 = 2 THEN 2 ELSE 3

(* Where a pixel of the picture is, or where one is after the last.        *)
PlaceSet(i) ==
  {p \in [y : Nat, pass : 0..4, x : 0..i.width-1] :
     IF p.y < i.height THEN p.pass = Class(i, p.y)
     ELSE IF i.interlaced THEN p.pass = 4 \/ (p.pass \in 1..3 /\ p.y = Offset[p.pass])
     ELSE p.pass = 0}
Origin == [y |-> 0, pass |-> 0, x |-> 0]
NextPlace(i, p) ==
  IF p.y >= i.height THEN p
  ELSE IF p.x + 1 < i.width THEN [p EXCEPT !.x = @ + 1]
  ELSE NextRow(i, [p EXCEPT !.x = 0])

(* The cells that come before a place.                                     *)
Before(i, cell, p) ==
  \/ Class(i, cell[1]) < p.pass
  \/ /\ Class(i, cell[1]) = p.pass
     /\ cell[1] < p.y \/ (cell[1] = p.y /\ cell[2] < p.x)

(* The pixel n of the picture, counting from 0, is at Place(i)[n].         *)
Place(i) ==
  CHOOSE f \in [Nat -> PlaceSet(i)] :
    f[0] = Origin /\ \A n \in Nat : f[n + 1] = NextPlace(i, f[n])
Pixel(i) == [n \in Nat |-> i.pixel[<<Place(i)[n].y, Place(i)[n].x>>]]
PlaceShape(p) == p = [y |-> p.y, pass |-> p.pass, x |-> p.x]

(* What a place is.                                                        *)
LEMMA PlaceFacts ==
  ASSUME NEW i \in Images, NEW p \in PlaceSet(i)
  PROVE  /\ PlaceShape(p) /\ p.y \in Nat /\ p.pass \in 0..4 /\ p.x \in Nat /\ p.x < i.width
         /\ p.y < i.height => p.pass = Class(i, p.y) /\ p.pass \in 0..3
         /\ p.y >= i.height =>
              IF i.interlaced THEN p.pass = 4 \/ (p.pass \in 1..3 /\ p.y = Offset[p.pass])
              ELSE p.pass = 0
<1>1. p \in [y : Nat, pass : 0..4, x : 0..i.width-1]
  BY DEF PlaceSet
<1>2. i.width \in Nat /\ i.height \in Nat
  BY ImageFacts
<1>3. PlaceShape(p) /\ p.y \in Nat /\ p.pass \in 0..4 /\ p.x \in 0..i.width-1
  BY <1>1 DEF PlaceShape
<1>4. p.x \in Nat /\ p.x < i.width
  BY <1>2, <1>3
<1>5. p.y < i.height => p.pass = Class(i, p.y) /\ p.pass \in 0..3
  <2>1. Class(i, p.y) \in 0..3
    BY DEF Class
  <2> QED
    BY <2>1 DEF PlaceSet
<1>6. p.y >= i.height =>
        IF i.interlaced THEN p.pass = 4 \/ (p.pass \in 1..3 /\ p.y = Offset[p.pass])
        ELSE p.pass = 0
  <2>1. ~(p.y < i.height) =>
        IF i.interlaced THEN p.pass = 4 \/ (p.pass \in 1..3 /\ p.y = Offset[p.pass])
        ELSE p.pass = 0
    BY Zenon DEF PlaceSet
  <2> QED
    BY <1>2, <1>3, <2>1
<1> QED
  BY <1>3, <1>4, <1>5, <1>6

(* And what makes one.                                                     *)
LEMMA PlaceMade ==
  ASSUME NEW i \in Images, NEW p, PlaceShape(p),
         p.y \in Nat, p.pass \in 0..4, p.x \in Nat, p.x < i.width,
         IF p.y < i.height THEN p.pass = Class(i, p.y)
         ELSE IF i.interlaced THEN p.pass = 4 \/ (p.pass \in 1..3 /\ p.y = Offset[p.pass])
         ELSE p.pass = 0
  PROVE  p \in PlaceSet(i)
<1>1. p.x \in 0..i.width-1
  BY ImageFacts
<1>2. p \in [y : Nat, pass : 0..4, x : 0..i.width-1]
  BY <1>1, Zenon DEF PlaceShape
<1> QED
  BY <1>2, Zenon DEF PlaceSet

(* The order of the rows: the next row after one of a pass is one of the   *)
(* same pass, and the rows between belong to other passes.                 *)
LEMMA RowOrder ==
  ASSUME NEW y \in Nat, NEW z \in Nat
  PROVE  /\ y % 8 = 0 => (y + 8) % 8 = 0
         /\ y % 8 = 4 => (y + 8) % 8 = 4
         /\ y % 4 = 2 => (y + 4) % 4 = 2 /\ (y + 4) % 8 # 0 /\ (y + 4) % 8 # 4
         /\ y % 8 # 0 /\ y % 8 # 4 /\ y % 4 # 2 =>
              /\ y % 2 = 1 /\ (y + 2) % 2 = 1
              /\ (y + 2) % 8 # 0 /\ (y + 2) % 8 # 4 /\ (y + 2) % 4 # 2
         /\ y % 8 = 0 /\ z % 8 = 0 /\ z < y + 8 => z <= y
         /\ y % 8 = 4 /\ z % 8 = 4 /\ z < y + 8 => z <= y
         /\ y % 4 = 2 /\ z % 4 = 2 /\ z < y + 4 => z <= y
         /\ y % 2 = 1 /\ z % 2 = 1 /\ z < y + 2 => z <= y
         /\ z % 8 = 4 => z >= 4
         /\ z % 4 = 2 => z >= 2
         /\ z % 8 # 0 => z >= 1
<1>1. y % 8 = 0 => (y + 8) % 8 = 0
  OBVIOUS
<1>2. y % 8 = 4 => (y + 8) % 8 = 4
  OBVIOUS
<1>3. y % 4 = 2 => (y + 4) % 4 = 2 /\ (y + 4) % 8 # 0 /\ (y + 4) % 8 # 4
  OBVIOUS
<1>4. y % 8 # 0 /\ y % 8 # 4 /\ y % 4 # 2 =>
              /\ y % 2 = 1 /\ (y + 2) % 2 = 1
              /\ (y + 2) % 8 # 0 /\ (y + 2) % 8 # 4 /\ (y + 2) % 4 # 2
  OBVIOUS
<1>5. y % 8 = 0 /\ z % 8 = 0 /\ z < y + 8 => z <= y
  OBVIOUS
<1>6. y % 8 = 4 /\ z % 8 = 4 /\ z < y + 8 => z <= y
  OBVIOUS
<1>7. y % 4 = 2 /\ z % 4 = 2 /\ z < y + 4 => z <= y
  OBVIOUS
<1>8. y % 2 = 1 /\ z % 2 = 1 /\ z < y + 2 => z <= y
  OBVIOUS
<1>9. /\ z % 8 = 4 => z >= 4
      /\ z % 4 = 2 => z >= 2
      /\ z % 8 # 0 => z >= 1
  OBVIOUS
<1> QED
  BY <1>1, <1>2, <1>3, <1>4, <1>5, <1>6, <1>7, <1>8, <1>9

(* NextRow, in numbers.                                                    *)
NextY(i, y, pass) ==
  IF ~i.interlaced THEN y + 1
  ELSE IF y + Increment[pass] < i.height \/ pass = 3 THEN y + Increment[pass]
  ELSE Offset[pass + 1]
NextPass(i, y, pass) ==
  IF ~i.interlaced \/ y + Increment[pass] < i.height THEN pass ELSE pass + 1

(* The passes.                                                             *)
LEMMA PassTable ==
  /\ Increment[0] = 8 /\ Increment[1] = 8 /\ Increment[2] = 4 /\ Increment[3] = 2
  /\ Offset[0] = 0 /\ Offset[1] = 4 /\ Offset[2] = 2 /\ Offset[3] = 1
BY DEF Increment, Offset

(* Where a row is in its pass and which rows come before the next one.     *)
RowOk(i, y, pass) ==
  IF y < i.height THEN pass = Class(i, y)
  ELSE IF i.interlaced THEN pass = 4 \/ (pass \in 1..3 /\ y = Offset[pass])
  ELSE pass = 0
RowsDone(i, y, pass, Y, P) ==
  \A z \in 0..i.height-1 :
    (Class(i, z) < P \/ (Class(i, z) = P /\ z < Y))
      <=> (Class(i, z) < pass \/ (Class(i, z) = pass /\ z <= y))

(* The next row is where a row may be; before it come the rows that came   *)
(* before this one, and this one.                                          *)
LEMMA RowStep ==
  ASSUME NEW i \in Images, NEW y \in Nat, y < i.height,
         NEW pass, pass = Class(i, y),
         NEW Y, Y = NextY(i, y, pass), NEW P, P = NextPass(i, y, pass)
  PROVE  Y \in Nat /\ P \in 0..4 /\ RowOk(i, Y, P) /\ RowsDone(i, y, pass, Y, P)
<1>1. i.height \in Nat \ {0}
  BY ImageFacts
<1>2. PICK h \in Nat : h = i.height
  BY <1>1
<1>3. CASE ~i.interlaced
  <2>1. Y = y + 1 /\ P = 0 /\ pass = 0 /\ \A z : Class(i, z) = 0
    BY <1>3 DEF NextY, NextPass, Class
  <2> QED
    BY <1>1, <1>3, <2>1 DEF RowOk, RowsDone
<1>4. ASSUME i.interlaced, y % 8 = 0 PROVE Y \in Nat /\ P \in 0..4 /\ RowOk(i, Y, P) /\ RowsDone(i, y, pass, Y, P)
  <2>1. pass = 0
    BY <1>4 DEF Class
  <2>2. CASE y + 8 < h
    <3>1. Y = y + 8 /\ P = 0
      BY <1>2, <1>4, <2>1, <2>2, PassTable DEF NextY, NextPass
    <3>2. (y + 8) % 8 = 0
      BY <1>4, RowOrder
    <3>3. RowOk(i, Y, P)
      BY <1>2, <2>2, <3>1, <3>2 DEF RowOk, Class
    <3>4. ASSUME NEW z \in 0..h-1
          PROVE  (Class(i, z) < P \/ (Class(i, z) = P /\ z < Y))
                   <=> (Class(i, z) < pass \/ (Class(i, z) = pass /\ z <= y))
      <4>1. z \in Nat
        OBVIOUS
      <4>2. y % 8 = 0 /\ z % 8 = 0 /\ z < y + 8 => z <= y
        BY <4>1, RowOrder
      <4> QED
        BY <1>4, <2>1, <3>1, <4>2 DEF Class
    <3> QED
      BY <1>2, <3>1, <3>3, <3>4 DEF RowsDone
  <2>3. CASE ~(y + 8 < h)
    <3>1. Y = 4 /\ P = 1
      BY <1>2, <1>4, <2>1, <2>3, PassTable DEF NextY, NextPass
    <3>3. RowOk(i, Y, P)
      BY <1>2, <1>4, <3>1, PassTable DEF RowOk, Class
    <3>4. ASSUME NEW z \in 0..h-1
          PROVE  (Class(i, z) < P \/ (Class(i, z) = P /\ z < Y))
                   <=> (Class(i, z) < pass \/ (Class(i, z) = pass /\ z <= y))
      <4>1. z \in Nat
        OBVIOUS
      <4>2. (y % 8 = 0 /\ z % 8 = 0 /\ z < y + 8 => z <= y) /\ (z % 8 = 4 => z >= 4)
        BY <4>1, RowOrder
      <4> QED
        BY <1>4, <2>1, <2>3, <3>1, <4>2 DEF Class
    <3> QED
      BY <1>2, <3>1, <3>3, <3>4 DEF RowsDone
  <2> QED
    BY <2>2, <2>3
<1>5. ASSUME i.interlaced, y % 8 = 4 PROVE Y \in Nat /\ P \in 0..4 /\ RowOk(i, Y, P) /\ RowsDone(i, y, pass, Y, P)
  <2>1. pass = 1
    BY <1>5 DEF Class
  <2>2. CASE y + 8 < h
    <3>1. Y = y + 8 /\ P = 1
      BY <1>2, <1>5, <2>1, <2>2, PassTable DEF NextY, NextPass
    <3>2. (y + 8) % 8 = 4
      BY <1>5, RowOrder
    <3>3. RowOk(i, Y, P)
      BY <1>2, <1>5, <2>2, <3>1, <3>2 DEF RowOk, Class
    <3>4. ASSUME NEW z \in 0..h-1
          PROVE  (Class(i, z) < P \/ (Class(i, z) = P /\ z < Y))
                   <=> (Class(i, z) < pass \/ (Class(i, z) = pass /\ z <= y))
      <4>1. z \in Nat
        OBVIOUS
      <4>2. y % 8 = 4 /\ z % 8 = 4 /\ z < y + 8 => z <= y
        BY <4>1, RowOrder
      <4> QED
        BY <1>5, <2>1, <3>1, <4>2 DEF Class
    <3> QED
      BY <1>2, <3>1, <3>3, <3>4 DEF RowsDone
  <2>3. CASE ~(y + 8 < h)
    <3>1. Y = 2 /\ P = 2
      BY <1>2, <1>5, <2>1, <2>3, PassTable DEF NextY, NextPass
    <3>3. RowOk(i, Y, P)
      BY <1>2, <1>5, <3>1, PassTable DEF RowOk, Class
    <3>4. ASSUME NEW z \in 0..h-1
          PROVE  (Class(i, z) < P \/ (Class(i, z) = P /\ z < Y))
                   <=> (Class(i, z) < pass \/ (Class(i, z) = pass /\ z <= y))
      <4>1. z \in Nat
        OBVIOUS
      <4>2. (y % 8 = 4 /\ z % 8 = 4 /\ z < y + 8 => z <= y) /\ (z % 4 = 2 => z >= 2)
        BY <4>1, RowOrder
      <4> QED
        BY <1>5, <2>1, <2>3, <3>1, <4>2 DEF Class
    <3> QED
      BY <1>2, <3>1, <3>3, <3>4 DEF RowsDone
  <2> QED
    BY <2>2, <2>3
<1>6. ASSUME i.interlaced, y % 4 = 2 PROVE Y \in Nat /\ P \in 0..4 /\ RowOk(i, Y, P) /\ RowsDone(i, y, pass, Y, P)
  <2>4. y % 8 # 0 /\ y % 8 # 4
    BY <1>6
  <2>1. pass = 2
    BY <1>6, <2>4 DEF Class
  <2>2. CASE y + 4 < h
    <3>1. Y = y + 4 /\ P = 2
      BY <1>2, <1>6, <2>1, <2>2, PassTable DEF NextY, NextPass
    <3>2. (y + 4) % 4 = 2 /\ (y + 4) % 8 # 0 /\ (y + 4) % 8 # 4
      BY <1>6, RowOrder
    <3>3. RowOk(i, Y, P)
      BY <1>2, <1>6, <2>2, <3>1, <3>2 DEF RowOk, Class
    <3>4. ASSUME NEW z \in 0..h-1
          PROVE  (Class(i, z) < P \/ (Class(i, z) = P /\ z < Y))
                   <=> (Class(i, z) < pass \/ (Class(i, z) = pass /\ z <= y))
      <4>1. z \in Nat
        OBVIOUS
      <4>2. y % 4 = 2 /\ z % 4 = 2 /\ z < y + 4 => z <= y
        BY <4>1, RowOrder
      <4> QED
        BY <1>6, <2>1, <3>1, <4>2 DEF Class
    <3> QED
      BY <1>2, <3>1, <3>3, <3>4 DEF RowsDone
  <2>3. CASE ~(y + 4 < h)
    <3>1. Y = 1 /\ P = 3
      BY <1>2, <1>6, <2>1, <2>3, PassTable DEF NextY, NextPass
    <3>3. RowOk(i, Y, P)
      BY <1>2, <1>6, <3>1, PassTable DEF RowOk, Class
    <3>4. ASSUME NEW z \in 0..h-1
          PROVE  (Class(i, z) < P \/ (Class(i, z) = P /\ z < Y))
                   <=> (Class(i, z) < pass \/ (Class(i, z) = pass /\ z <= y))
      <4>1. z \in Nat
        OBVIOUS
      <4>2. (y % 4 = 2 /\ z % 4 = 2 /\ z < y + 4 => z <= y) /\ (z % 8 # 0 => z >= 1)
        BY <4>1, RowOrder
      <4> QED
        BY <1>6, <2>1, <2>3, <3>1, <4>2 DEF Class
    <3> QED
      BY <1>2, <3>1, <3>3, <3>4 DEF RowsDone
  <2> QED
    BY <2>2, <2>3
<1>7. ASSUME i.interlaced, y % 8 # 0, y % 8 # 4, y % 4 # 2
      PROVE Y \in Nat /\ P \in 0..4 /\ RowOk(i, Y, P) /\ RowsDone(i, y, pass, Y, P)
  <2>1. pass = 3
    BY <1>7 DEF Class
  <2>4. /\ y % 2 = 1 /\ (y + 2) % 2 = 1
        /\ (y + 2) % 8 # 0 /\ (y + 2) % 8 # 4 /\ (y + 2) % 4 # 2
    BY <1>7, RowOrder
  <2>5. Y = y + 2 /\ P = IF y + 2 < h THEN 3 ELSE 4
    BY <1>2, <1>7, <2>1, PassTable DEF NextY, NextPass
  <2>6. RowOk(i, Y, P)
    BY <1>2, <1>7, <2>4, <2>5 DEF RowOk, Class
  <2>7. ASSUME NEW z \in 0..h-1
        PROVE  (Class(i, z) < P \/ (Class(i, z) = P /\ z < Y))
                 <=> (Class(i, z) < pass \/ (Class(i, z) = pass /\ z <= y))
    <3>1. z \in Nat
      OBVIOUS
    <3>2. /\ y % 2 = 1 /\ z % 2 = 1 /\ z < y + 2 => z <= y
          /\ z % 8 # 0 /\ z % 8 # 4 /\ z % 4 # 2 => z % 2 = 1
      BY <3>1, RowOrder
    <3>3. Class(i, z) \in 0..3 /\ (Class(i, z) = 3 => z % 8 # 0 /\ z % 8 # 4 /\ z % 4 # 2)
      BY <1>7 DEF Class
    <3> QED
      BY <2>1, <2>4, <2>5, <3>2, <3>3
  <2> QED
    BY <1>2, <2>5, <2>6, <2>7 DEF RowsDone
<1> QED
  BY <1>3, <1>4, <1>5, <1>6, <1>7

(* NextRow of a record: whatever else the record has stays.                *)
LEMMA NextRowOfPlace ==
  ASSUME NEW i, NEW y \in Nat, NEW pass \in 0..3, NEW x
  PROVE  NextRow(i, [y |-> y, pass |-> pass, x |-> x])
           = [y |-> NextY(i, y, pass), pass |-> NextPass(i, y, pass), x |-> x]
<1>1. PICK at : at = [y |-> y, pass |-> pass, x |-> x]
  OBVIOUS
<1>2. at.y = y /\ at.pass = pass /\ at.x = x
  BY <1>1
<1>3. CASE ~i.interlaced
  <2>1. PICK z \in Nat : z = y + 1
    OBVIOUS
  <2>2. NextRow(i, at) = [at EXCEPT !.y = at.y + 1]
    BY <1>3 DEF NextRow
  <2>3. NextY(i, y, pass) = z /\ NextPass(i, y, pass) = pass
    BY <1>3, <2>1 DEF NextY, NextPass
  <2>4. NextRow(i, at) = [at EXCEPT !.y = z]
    BY <1>2, <2>1, <2>2, Zenon
  <2> QED
    BY <1>1, <2>3, <2>4
<1>4. CASE i.interlaced /\ y + Increment[pass] < i.height
  BY <1>1, <1>2, <1>4 DEF NextRow, NextY, NextPass
<1>5. CASE i.interlaced /\ ~(y + Increment[pass] < i.height) /\ pass = 3
  <2>1. PICK z : z = y + Increment[pass]
    OBVIOUS
  <2>2. NextRow(i, at) = [at EXCEPT !.y = z, !.pass = 4]
    BY <1>2, <1>5, <2>1, Zenon DEF NextRow
  <2>3. NextY(i, y, pass) = z /\ NextPass(i, y, pass) = 4
    BY <1>5, <2>1 DEF NextY, NextPass
  <2> QED
    BY <1>1, <2>2, <2>3
<1>6. CASE i.interlaced /\ ~(y + Increment[pass] < i.height) /\ pass # 3
  <2>1. PICK top, p : top = Offset[pass + 1] /\ p = pass + 1
    OBVIOUS
  <2>2. NextRow(i, at) = [at EXCEPT !.y = top, !.pass = p]
    BY <1>2, <1>6, <2>1 DEF NextRow
  <2>3. NextY(i, y, pass) = top /\ NextPass(i, y, pass) = p
    BY <1>6, <2>1 DEF NextY, NextPass
  <2> QED
    BY <1>1, <2>2, <2>3
<1> QED
  BY <1>3, <1>4, <1>5, <1>6

(* The next place is one of the picture or the end, and before it come the *)
(* cells that came before this one, and this one.                          *)
LEMMA PlaceStep ==
  ASSUME NEW i \in Images, NEW p \in PlaceSet(i), p.y < i.height,
         NEW n, n = NextPlace(i, p)
  PROVE  /\ n \in PlaceSet(i)
         /\ \A cell \in (0..i.height-1) \X (0..i.width-1) :
              Before(i, cell, n) <=> Before(i, cell, p) \/ cell = <<p.y, p.x>>
         /\ ~Before(i, <<p.y, p.x>>, p)
<1>1. /\ p = [y |-> p.y, pass |-> p.pass, x |-> p.x] /\ p.y \in Nat /\ p.x \in Nat
      /\ p.x < i.width /\ p.pass = Class(i, p.y) /\ p.pass \in 0..3
  BY PlaceFacts DEF PlaceShape
<1>2. i.width \in Nat \ {0} /\ i.height \in Nat \ {0}
  BY ImageFacts
<1>3. PICK y, x \in Nat : y = p.y /\ x = p.x
  BY <1>1
<1>4. PICK pass \in 0..3 : pass = p.pass /\ pass = Class(i, y)
  BY <1>1, <1>3
<1>5. p = [y |-> y, pass |-> pass, x |-> x] /\ y < i.height /\ x < i.width
  BY <1>1, <1>3, <1>4, Zenon
<1>6. ~Before(i, <<p.y, p.x>>, p)
  <2>1. PICK c : c = <<y, x>>
    OBVIOUS
  <2>3. c[1] = y /\ c[2] = x
    BY <2>1
  <2>2. ~Before(i, c, p)
    BY <1>3, <1>4, <2>3 DEF Before
  <2> QED
    BY <1>3, <2>1, <2>2, Zenon
<1>7. ASSUME NEW cell \in (0..i.height-1) \X (0..i.width-1)
      PROVE  /\ cell[1] \in 0..i.height-1 /\ cell[2] \in Nat /\ cell[2] < i.width
             /\ cell = <<p.y, p.x>> <=> cell[1] = y /\ cell[2] = x
             /\ cell[1] = y => Class(i, cell[1]) = pass
  BY <1>2, <1>3, <1>4
<1>8. CASE x + 1 < i.width
  <2>1. n = [y |-> y, pass |-> pass, x |-> x + 1]
    BY <1>2, <1>3, <1>5, <1>8 DEF NextPlace
  <2>2. n.y = y /\ n.pass = pass /\ n.x = x + 1
    BY <2>1
  <2>3. n \in PlaceSet(i)
    <3>1. PlaceShape(n)
      BY <2>1, <2>2 DEF PlaceShape
    <3> QED
      BY <1>4, <1>5, <1>8, <2>2, <3>1, PlaceMade
  <2>4. ASSUME NEW cell \in (0..i.height-1) \X (0..i.width-1)
        PROVE  Before(i, cell, n) <=> Before(i, cell, p) \/ cell = <<p.y, p.x>>
    <3>1. /\ cell[2] \in Nat
          /\ cell = <<p.y, p.x>> <=> cell[1] = y /\ cell[2] = x
          /\ cell[1] = y => Class(i, cell[1]) = pass
      BY <1>7
    <3>2. cell[2] < x + 1 <=> cell[2] < x \/ cell[2] = x
      BY <3>1
    <3> QED
      BY <1>3, <1>4, <2>2, <3>1, <3>2, Zenon DEF Before
  <2> QED
    BY <1>6, <2>3, <2>4
<1>9. CASE ~(x + 1 < i.width)
  <2>1. [p EXCEPT !.x = 0] = [y |-> y, pass |-> pass, x |-> 0]
    BY <1>5
  <2>2. n = NextRow(i, [p EXCEPT !.x = 0])
    BY <1>2, <1>3, <1>5, <1>9 DEF NextPlace
  <2>3. PICK Y, P : Y = NextY(i, y, pass) /\ P = NextPass(i, y, pass)
    OBVIOUS
  <2>4. n = [y |-> Y, pass |-> P, x |-> 0]
    BY <2>1, <2>2, <2>3, NextRowOfPlace
  <2>5. Y \in Nat /\ P \in 0..4 /\ RowOk(i, Y, P) /\ RowsDone(i, y, pass, Y, P)
    BY <1>4, <1>5, <2>3, RowStep
  <2>6. n.y = Y /\ n.pass = P /\ n.x = 0 /\ PlaceShape(n)
    BY <2>4 DEF PlaceShape
  <2>7. n \in PlaceSet(i)
    <3>1. 0 < i.width /\ 0 \in Nat
      BY <1>2
    <3>2. IF Y < i.height THEN P = Class(i, Y)
          ELSE IF i.interlaced THEN P = 4 \/ (P \in 1..3 /\ Y = Offset[P])
          ELSE P = 0
      BY <2>5 DEF RowOk
    <3> QED
      BY <2>5, <2>6, <3>1, <3>2, PlaceMade
  <2>8. ASSUME NEW cell \in (0..i.height-1) \X (0..i.width-1)
        PROVE  Before(i, cell, n) <=> Before(i, cell, p) \/ cell = <<p.y, p.x>>
    <3>1. /\ cell[1] \in 0..i.height-1 /\ cell[2] \in Nat /\ cell[2] < i.width
          /\ cell = <<p.y, p.x>> <=> cell[1] = y /\ cell[2] = x
          /\ cell[1] = y => Class(i, cell[1]) = pass
      BY <1>7
    <3>2. (Class(i, cell[1]) < P \/ (Class(i, cell[1]) = P /\ cell[1] < Y))
            <=> (Class(i, cell[1]) < pass \/ (Class(i, cell[1]) = pass /\ cell[1] <= y))
      BY <2>5, <3>1 DEF RowsDone
    <3>3. ~(cell[2] < 0) /\ (cell[2] < x \/ cell[2] = x)
      BY <1>2, <1>5, <1>9, <3>1
    <3>4. cell[1] <= y <=> cell[1] < y \/ cell[1] = y
      BY <1>2, <3>1
    <3>5. Before(i, cell, n) <=> Class(i, cell[1]) < P \/ (Class(i, cell[1]) = P /\ cell[1] < Y)
      BY <2>6, <3>3, Zenon DEF Before
    <3>6. Before(i, cell, p) \/ cell = <<p.y, p.x>>
            <=> Class(i, cell[1]) < pass \/ (Class(i, cell[1]) = pass /\ cell[1] <= y)
      BY <1>3, <1>4, <3>1, <3>3, <3>4, Zenon DEF Before
    <3> QED
      BY <3>2, <3>5, <3>6
  <2> QED
    BY <1>6, <2>7, <2>8
<1> QED
  BY <1>8, <1>9

(* The places of a picture, from the first on.                             *)
LEMMA PlaceFunction ==
  ASSUME NEW i \in Images
  PROVE  /\ Place(i) \in [Nat -> PlaceSet(i)]
         /\ Place(i)[0] = Origin
         /\ \A n \in Nat : Place(i)[n + 1] = NextPlace(i, Place(i)[n])
<1>1. Origin \in PlaceSet(i)
  <2>1. /\ PlaceShape(Origin) /\ Origin.y = 0 /\ Origin.pass = 0 /\ Origin.x = 0
    BY DEF Origin, PlaceShape
  <2>2. 0 < i.width /\ 0 < i.height /\ 0 \in Nat /\ 0 \in 0..4
    BY ImageFacts
  <2>3. Class(i, 0) = 0
    BY DEF Class
  <2> QED
    BY <2>1, <2>2, <2>3, PlaceMade
<1>2. \A p \in PlaceSet(i) : NextPlace(i, p) \in PlaceSet(i)
  <2> TAKE p \in PlaceSet(i)
  <2>1. CASE p.y < i.height
    BY <2>1, PlaceStep
  <2>2. CASE ~(p.y < i.height)
    <3>1. p.y \in Nat /\ i.height \in Nat
      BY PlaceFacts, ImageFacts
    <3> QED
      BY <2>2, <3>1 DEF NextPlace
  <2> QED
    BY <2>1, <2>2
<1>3. PICK step : step = [p \in PlaceSet(i) |-> NextPlace(i, p)]
  OBVIOUS
<1>4. step \in [PlaceSet(i) -> PlaceSet(i)]
  BY <1>2, <1>3
<1>5. PICK f \in [Nat -> PlaceSet(i)] : f[0] = Origin /\ \A n \in Nat : f[n + 1] = step[f[n]]
  BY <1>1, <1>4, Iterates
<1>6. \A n \in Nat : f[n + 1] = NextPlace(i, f[n])
  BY <1>3, <1>5
<1>7. \E g \in [Nat -> PlaceSet(i)] :
        g[0] = Origin /\ \A n \in Nat : g[n + 1] = NextPlace(i, g[n])
  BY <1>5, <1>6
<1> QED
  BY <1>7, Zenon DEF Place

(* The column, from the units of a line.                                   *)
LEMMA ColumnNumber ==
  ASSUME NEW i \in Images, NEW q, NEW z, Units(i, q, z),
         NEW t, NEW pos \in Nat, t.bufferPos = pos, NEW s \in Nat, t.bufferShift = s * i.bpp, s < q
  PROVE  Column(i, t) = pos * q + (q - (1 + s))
<1>1. PICK b \in Nat \ {0} : b = i.bpp
  BY ImageFacts
<1>2. q \in Nat \ {0} /\ ByteBits = q * b
  BY <1>1 DEF Units
<1>3. Column(i, t) = (pos * ByteBits + ByteBits - b - s * b) \div b
  BY <1>1, Zenon DEF Column
<1>4. PICK col \in Nat : col = pos * q + (q - (1 + s))
  BY <1>2
<1>5. pos * ByteBits + ByteBits - b - s * b = col * b
  <2>1. pos * ByteBits = (pos * q) * b
    BY <1>2
  <2>2. ByteBits - b - s * b = (q - (1 + s)) * b
    BY <1>2
  <2>3. pos * q \in Nat /\ (q - (1 + s)) \in Nat
    BY <1>2
  <2>4. (pos * q) * b + (q - (1 + s)) * b = (pos * q + (q - (1 + s))) * b
    BY <2>3
  <2>5. PICK pq, f \in Nat : pq = (pos * q) * b /\ f = (q - (1 + s)) * b
    BY <2>3
  <2>6. PICK sb \in Nat : sb = s * b
    OBVIOUS
  <2>7. ByteBits \in Nat
    BY <1>2
  <2>8. pos * ByteBits = pq /\ ByteBits - b - sb = f
    BY <2>1, <2>2, <2>5, <2>6
  <2>9. pq + ByteBits - b - sb = pq + f
    BY <2>7, <2>8
  <2>10. pq + f = col * b
    BY <1>4, <2>4, <2>5
  <2> QED
    BY <2>6, <2>8, <2>9, <2>10
<1>6. (col * b) \div b = col
  <2>1. (col * b + 0) \div b = col
    BY DividedSum
  <2>2. col * b + 0 = col * b
    OBVIOUS
  <2> QED
    BY <2>1, <2>2
<1> QED
  BY <1>3, <1>4, <1>5, <1>6

(* On to the next pixel: it is the next of the line, or the line is over.  *)
LEMMA AdvanceMoves ==
  ASSUME NEW i \in Images, NEW t, CoderType(t), t.bufferPos < LineBytes(i), PlaceInv(i, t),
         NEW u, u = Advance(i, t)
  PROVE  /\ Column(i, t) \in Nat /\ Column(i, t) < i.width
         /\ u.bufferPos < LineBytes(i) => Column(i, u) = Column(i, t) + 1 /\ Column(i, t) + 1 < i.width
         /\ ~(u.bufferPos < LineBytes(i)) => Column(i, t) + 1 = i.width
         /\ u.firstPixelPassed = t.firstPixelPassed
<1>1. PICK q, z : Units(i, q, z)
  BY PixelUnits
<1>2. PICK b, w, last, pos \in Nat :
        b = i.bpp /\ w = i.width /\ last = LineBytes(i) /\ pos = t.bufferPos
  <2>1. i.bpp \in Nat /\ i.width \in Nat
    BY ImageFacts
  <2>2. LineBytes(i) \in Nat /\ t.bufferPos \in Nat
    BY <1>1 DEF Units, CoderType
  <2> QED
    BY <2>1, <2>2
<1>3. /\ q \in Nat \ {0} /\ z \in Nat /\ z < q /\ b # 0
      /\ ByteBits = q * b /\ ByteBits \div b = q
      /\ last * q = w + z /\ Slack(i) = z * b /\ pos < last /\ w # 0
  BY <1>1, <1>2, ImageFacts DEF Units
<1>4. PICK s \in Nat : t.bufferShift = s * b /\ s < q
  BY <1>2, <1>3 DEF PlaceInv
<1>5. pos + 1 = last => s >= z
  <2> SUFFICES ASSUME pos + 1 = last PROVE s >= z
    OBVIOUS
  <2>1. s * b >= z * b
    BY <1>2, <1>3, <1>4 DEF PlaceInv
  <2>2. ~(s < z)
    <3> SUFFICES ASSUME s < z PROVE FALSE
      OBVIOUS
    <3>1. (s + 1) * b <= z * b /\ (s + 1) * b = s * b + b
      BY <1>3
    <3> QED
      BY <1>3, <2>1, <3>1
  <2> QED
    BY <1>3, <2>2
<1>6. PICK col \in Nat : col = pos * q + (q - (1 + s))
  BY <1>3, <1>4
<1>7. Column(i, t) = col
  BY <1>1, <1>2, <1>4, <1>6, ColumnNumber
<1>8. PICK pq \in Nat : pq = pos * q
  BY <1>3
<1>9. pos + 1 = last => pq + q = w + z
  <2>1. (pos + 1) * q = pq + q
    BY <1>3, <1>8
  <2> QED
    BY <1>3, <2>1
<1>10. pos + 1 < last => pq + q + q <= w + z
  <2> SUFFICES ASSUME pos + 1 < last PROVE pq + q + q <= w + z
    OBVIOUS
  <2>1. (pos + 2) * q = pq + q + q
    BY <1>3, <1>8
  <2>2. (pos + 2) * q <= last * q
    BY <1>3
  <2> QED
    BY <1>3, <2>1, <2>2
<1>11. col < w
  BY <1>3, <1>4, <1>5, <1>6, <1>8, <1>9, <1>10
<1>12. t.bufferShift > 0 <=> s > 0
  <2>1. s > 0 => s * b > 0
    BY <1>3
  <2> QED
    BY <1>3, <1>4, <2>1
<1>13. t.bufferShift <= Slack(i) => s <= z
  <2> SUFFICES ASSUME s * b <= z * b, s > z PROVE FALSE
    BY <1>3, <1>4
  <2>1. (z + 1) * b <= s * b /\ (z + 1) * b = z * b + b
    BY <1>3
  <2> QED
    BY <1>3, <2>1
<1>14. s <= z => t.bufferShift <= Slack(i)
  BY <1>3, <1>4
<1>15. CASE s > 0 /\ ~(pos + 1 = last /\ s <= z)
  <2>1. u = [t EXCEPT !.bufferShift = @ - i.bpp]
    BY <1>2, <1>12, <1>13, <1>15 DEF Advance
  <2>2. /\ u.bufferShift = t.bufferShift - b /\ u.bufferPos = pos
        /\ u.firstPixelPassed = t.firstPixelPassed
    BY <1>2, <2>1 DEF CoderType, CoderShape
  <2>3. u.bufferShift = (s - 1) * b /\ s - 1 \in Nat /\ s - 1 < q
    BY <1>3, <1>4, <1>15, <2>2
  <2>4. PICK r \in Nat : r = s - 1
    BY <2>3
  <2>5. Column(i, u) = pos * q + (q - (1 + r))
    BY <1>1, <1>2, <2>2, <2>3, <2>4, ColumnNumber
  <2>6. Column(i, u) = col + 1
    BY <1>3, <1>4, <1>6, <1>8, <2>4, <2>5
  <2>7. col + 1 < w
    BY <1>3, <1>4, <1>5, <1>6, <1>8, <1>9, <1>10, <1>15
  <2> QED
    BY <1>2, <1>3, <1>7, <1>11, <2>2, <2>6, <2>7
<1>16. CASE ~(s > 0 /\ ~(pos + 1 = last /\ s <= z))
  <2>1. u = [t EXCEPT !.bufferPos = @ + 1, !.bufferShift = ByteBits - i.bpp]
    BY <1>2, <1>12, <1>14, <1>16 DEF Advance
  <2>2. /\ u.bufferShift = ByteBits - b /\ u.bufferPos = pos + 1
        /\ u.firstPixelPassed = t.firstPixelPassed
    BY <1>2, <2>1 DEF CoderType, CoderShape
  <2>3. CASE pos + 1 < last
    <3>1. s = 0
      BY <1>16, <2>3
    <3>2. PICK r, p \in Nat : r = q - 1 /\ p = pos + 1
      BY <1>3
    <3>3. u.bufferShift = r * b
      BY <1>3, <2>2, <3>2
    <3>4. Column(i, u) = p * q + (q - (1 + r))
      BY <1>1, <1>2, <1>3, <2>2, <3>2, <3>3, ColumnNumber
    <3>5. p * q = pq + q
      BY <1>3, <1>8, <3>2
    <3>6. Column(i, u) = col + 1
      BY <1>3, <1>6, <1>8, <3>1, <3>2, <3>4, <3>5
    <3>7. col + 1 < w
      BY <1>3, <1>6, <1>8, <1>10, <2>3, <3>1
    <3>8. u.bufferPos < LineBytes(i)
      BY <1>2, <2>2, <2>3
    <3>9. Column(i, t) = col /\ Column(i, u) = col + 1 /\ i.width = w
      BY <1>2, <1>7, <3>6
    <3> QED
      BY <1>11, <2>2, <3>7, <3>8, <3>9
  <2>4. CASE ~(pos + 1 < last)
    <3>1. pos + 1 = last
      BY <1>3, <2>4
    <3>2. s = z
      BY <1>3, <1>5, <1>16, <3>1
    <3>3. col + 1 = w
      BY <1>3, <1>6, <1>8, <1>9, <3>1, <3>2
    <3> QED
      BY <1>2, <1>3, <1>7, <1>11, <2>2, <2>4, <3>3
  <2> QED
    BY <2>3, <2>4
<1> QED
  BY <1>15, <1>16

(* A new line begins at column 0.                                          *)
LEMMA FillMoves ==
  ASSUME NEW i \in Images, NEW t, CoderType(t), NEW u, u = FillBuffer(i, t)
  PROVE  /\ Column(i, u) = 0 /\ u.bufferPos < LineBytes(i)
         /\ u.firstPixelPassed = t.firstPixelPassed
<1>1. PICK q, z : Units(i, q, z)
  BY PixelUnits
<1>2. PICK b \in Nat \ {0} : b = i.bpp
  BY ImageFacts
<1>3. q \in Nat \ {0} /\ ByteBits = q * b /\ LineBytes(i) \in Nat \ {0}
  BY <1>1, <1>2 DEF Units
<1>4. /\ u.bufferShift = ByteBits - b /\ u.bufferPos = 0
      /\ u.firstPixelPassed = t.firstPixelPassed
  BY <1>2 DEF CoderType, CoderShape, FillBuffer
<1>5. PICK r, p \in Nat : r = q - 1 /\ p = 0
  BY <1>3
<1>6. u.bufferShift = r * b
  BY <1>3, <1>4, <1>5
<1>7. Column(i, u) = p * q + (q - (1 + r))
  BY <1>1, <1>2, <1>3, <1>4, <1>5, <1>6, ColumnNumber
<1>8. p * q = 0
  BY <1>3, <1>5
<1>9. Column(i, u) = 0
  BY <1>3, <1>5, <1>7, <1>8
<1> QED
  BY <1>3, <1>4, <1>9

(* The same of the rows of Save.                                           *)
LEMMA NextRowOfSave ==
  ASSUME NEW i, NEW y \in Nat, NEW pass \in 0..3, NEW b
  PROVE  NextRow(i, [y |-> y, pass |-> pass, buf |-> b])
           = [y |-> NextY(i, y, pass), pass |-> NextPass(i, y, pass), buf |-> b]
<1>1. PICK at : at = [y |-> y, pass |-> pass, buf |-> b]
  OBVIOUS
<1>2. at.y = y /\ at.pass = pass
  BY <1>1
<1>3. CASE ~i.interlaced
  <2>1. PICK z \in Nat : z = y + 1
    OBVIOUS
  <2>2. NextRow(i, at) = [at EXCEPT !.y = at.y + 1]
    BY <1>3 DEF NextRow
  <2>3. NextY(i, y, pass) = z /\ NextPass(i, y, pass) = pass
    BY <1>3, <2>1 DEF NextY, NextPass
  <2>4. NextRow(i, at) = [at EXCEPT !.y = z]
    BY <1>2, <2>1, <2>2, Zenon
  <2> QED
    BY <1>1, <2>3, <2>4
<1>4. CASE i.interlaced /\ y + Increment[pass] < i.height
  BY <1>1, <1>2, <1>4 DEF NextRow, NextY, NextPass
<1>5. CASE i.interlaced /\ ~(y + Increment[pass] < i.height) /\ pass = 3
  <2>1. PICK z : z = y + Increment[pass]
    OBVIOUS
  <2>2. NextRow(i, at) = [at EXCEPT !.y = z, !.pass = 4]
    BY <1>2, <1>5, <2>1, Zenon DEF NextRow
  <2>3. NextY(i, y, pass) = z /\ NextPass(i, y, pass) = 4
    BY <1>5, <2>1 DEF NextY, NextPass
  <2> QED
    BY <1>1, <2>2, <2>3
<1>6. CASE i.interlaced /\ ~(y + Increment[pass] < i.height) /\ pass # 3
  <2>1. PICK top, p : top = Offset[pass + 1] /\ p = pass + 1
    OBVIOUS
  <2>2. NextRow(i, at) = [at EXCEPT !.y = top, !.pass = p]
    BY <1>2, <1>6, <2>1 DEF NextRow
  <2>3. NextY(i, y, pass) = top /\ NextPass(i, y, pass) = p
    BY <1>6, <2>1 DEF NextY, NextPass
  <2> QED
    BY <1>1, <2>2, <2>3
<1> QED
  BY <1>3, <1>4, <1>5, <1>6

(* And of those of Load.                                                   *)
LEMMA NextRowOfLoad ==
  ASSUME NEW i, NEW y \in Nat, NEW pass \in 0..3, NEW n, NEW a, NEW b, NEW x
  PROVE  NextRow(i, [next |-> n, at |-> a, buf |-> b, x |-> x, y |-> y, pass |-> pass])
           = [next |-> n, at |-> a, buf |-> b, x |-> x, y |-> NextY(i, y, pass), pass |-> NextPass(i, y, pass)]
<1>1. PICK at : at = [next |-> n, at |-> a, buf |-> b, x |-> x, y |-> y, pass |-> pass]
  OBVIOUS
<1>2. at.y = y /\ at.pass = pass
  BY <1>1
<1>3. CASE ~i.interlaced
  <2>1. PICK z \in Nat : z = y + 1
    OBVIOUS
  <2>2. NextRow(i, at) = [at EXCEPT !.y = at.y + 1]
    BY <1>3 DEF NextRow
  <2>3. NextY(i, y, pass) = z /\ NextPass(i, y, pass) = pass
    BY <1>3, <2>1 DEF NextY, NextPass
  <2>4. NextRow(i, at) = [at EXCEPT !.y = z]
    BY <1>2, <2>1, <2>2, Zenon
  <2> QED
    BY <1>1, <2>3, <2>4
<1>4. CASE i.interlaced /\ y + Increment[pass] < i.height
  BY <1>1, <1>2, <1>4 DEF NextRow, NextY, NextPass
<1>5. CASE i.interlaced /\ ~(y + Increment[pass] < i.height) /\ pass = 3
  <2>1. PICK z : z = y + Increment[pass]
    OBVIOUS
  <2>2. NextRow(i, at) = [at EXCEPT !.y = z, !.pass = 4]
    BY <1>2, <1>5, <2>1, Zenon DEF NextRow
  <2>3. NextY(i, y, pass) = z /\ NextPass(i, y, pass) = 4
    BY <1>5, <2>1 DEF NextY, NextPass
  <2> QED
    BY <1>1, <2>2, <2>3
<1>6. CASE i.interlaced /\ ~(y + Increment[pass] < i.height) /\ pass # 3
  <2>1. PICK top, p : top = Offset[pass + 1] /\ p = pass + 1
    OBVIOUS
  <2>2. NextRow(i, at) = [at EXCEPT !.y = top, !.pass = p]
    BY <1>2, <1>6, <2>1 DEF NextRow
  <2>3. NextY(i, y, pass) = top /\ NextPass(i, y, pass) = p
    BY <1>6, <2>1 DEF NextY, NextPass
  <2> QED
    BY <1>1, <2>2, <2>3
<1> QED
  BY <1>3, <1>4, <1>5, <1>6

(* Where the coder is: at the pixel it takes next, or, at the end of a     *)
(* line, at the one it will take next; and where it stands in the order.   *)
CoderPlace(i, t, at) ==
  IF at.y >= i.height THEN [y |-> at.y, pass |-> at.pass, x |-> 0]
  ELSE IF t.bufferPos < LineBytes(i) THEN [y |-> at.y, pass |-> at.pass, x |-> Column(i, t)]
  ELSE [y |-> NextY(i, at.y, at.pass), pass |-> NextPass(i, at.y, at.pass), x |-> 0]
Scanned(i, n, t, at) ==
  /\ n \in Nat
  /\ Place(i)[n] = CoderPlace(i, t, at)
  /\ \A m \in 0..n-1 : Place(i)[m].y < i.height

(* A pixel: it is the next in order, and so is the place after it.         *)
LEMMA ScanPixel ==
  ASSUME NEW i \in Images, NEW t, CoderType(t), PlaceInv(i, t), t.bufferPos < LineBytes(i),
         NEW at, RowInv(i, at, t), NEW n, Scanned(i, n, t, at),
         NEW r, CoderType(r), r.bufferPos = t.bufferPos, r.bufferShift = t.bufferShift,
         NEW u, u = Advance(i, r), NEW to, to.y = at.y, to.pass = at.pass
  PROVE  /\ Scanned(i, n + 1, u, to)
         /\ Pixel(i)[n] = i.pixel[<<at.y, Column(i, t)>>]
<1>1. at.y \in Nat /\ at.y < i.height /\ at.pass \in 0..3 /\ i.height \in Nat
  BY ImageFacts DEF RowInv
<1>2. n \in Nat /\ Place(i)[n] = CoderPlace(i, t, at)
      /\ \A m \in 0..n-1 : Place(i)[m].y < i.height
  BY DEF Scanned
<1>3. PICK y, pass, x : y = at.y /\ pass = at.pass /\ x = Column(i, t)
  OBVIOUS
<1>4. CoderPlace(i, t, at) = [y |-> y, pass |-> pass, x |-> x]
  BY <1>1, <1>3 DEF CoderPlace
<1>5. PICK p : p = Place(i)[n]
  OBVIOUS
<1>6. p.y = y /\ p.pass = pass /\ p.x = x /\ p = [y |-> y, pass |-> pass, x |-> x]
  BY <1>2, <1>4, <1>5
<1>7. Pixel(i)[n] = i.pixel[<<y, x>>]
  BY <1>2, <1>5, <1>6 DEF Pixel
<1>8. Column(i, r) = x /\ PlaceInv(i, r)
  BY <1>3 DEF Column, PlaceInv
<1>9. /\ x \in Nat /\ x < i.width
      /\ u.bufferPos < LineBytes(i) => Column(i, u) = x + 1 /\ x + 1 < i.width
      /\ ~(u.bufferPos < LineBytes(i)) => x + 1 = i.width
  BY <1>8, AdvanceMoves
<1>10. Place(i)[n + 1] = NextPlace(i, p)
  BY <1>2, <1>5, PlaceFunction
<1>13. n + 1 \in Nat
  BY <1>2
<1>11. CASE u.bufferPos < LineBytes(i)
  <2>1. PICK x1 : x1 = x + 1
    OBVIOUS
  <2>2. NextPlace(i, p) = [p EXCEPT !.x = x1]
    BY <1>1, <1>3, <1>6, <1>9, <1>11, <2>1 DEF NextPlace
  <2>3. NextPlace(i, p) = [y |-> y, pass |-> pass, x |-> x1]
    BY <1>6, <2>2
  <2>4. CoderPlace(i, u, to) = [y |-> y, pass |-> pass, x |-> x1]
    BY <1>1, <1>3, <1>9, <1>11, <2>1 DEF CoderPlace
  <2>5. Place(i)[n + 1] = CoderPlace(i, u, to)
    BY <1>10, <2>3, <2>4
  <2>6. \A m \in 0..(n + 1)-1 : Place(i)[m].y < i.height
    BY <1>1, <1>2, <1>3, <1>5, <1>6
  <2> QED
    BY <1>3, <1>7, <1>13, <2>5, <2>6, Zenon DEF Scanned
<1>12. CASE ~(u.bufferPos < LineBytes(i))
  <2>1. [p EXCEPT !.x = 0] = [y |-> y, pass |-> pass, x |-> 0]
    BY <1>6
  <2>2. ~(p.y >= i.height) /\ ~(p.x + 1 < i.width)
    BY <1>1, <1>3, <1>6, <1>9, <1>12, ImageFacts
  <2>3. NextPlace(i, p) = NextRow(i, [y |-> y, pass |-> pass, x |-> 0])
    BY <2>1, <2>2 DEF NextPlace
  <2>4. NextPlace(i, p) = [y |-> NextY(i, y, pass), pass |-> NextPass(i, y, pass), x |-> 0]
    BY <1>1, <1>3, <2>3, NextRowOfPlace
  <2>5. CoderPlace(i, u, to) = [y |-> NextY(i, y, pass), pass |-> NextPass(i, y, pass), x |-> 0]
    BY <1>1, <1>3, <1>12 DEF CoderPlace
  <2>6. Place(i)[n + 1] = CoderPlace(i, u, to)
    BY <1>10, <2>4, <2>5
  <2>7. \A m \in 0..(n + 1)-1 : Place(i)[m].y < i.height
    BY <1>1, <1>2, <1>3, <1>5, <1>6
  <2> QED
    BY <1>3, <1>7, <1>13, <2>6, <2>7, Zenon DEF Scanned
<1> QED
  BY <1>11, <1>12

(* The end of a line leaves the coder where it is in the order.            *)
LEMMA ScanLine ==
  ASSUME NEW i \in Images, NEW t, CoderType(t), NEW at, RowInv(i, at, t), at.y < i.height,
         ~(t.bufferPos < LineBytes(i)), NEW n, Scanned(i, n, t, at),
         NEW to, to = NextRow(i, at),
         NEW u, u = IF to.y < i.height THEN FillBuffer(i, t) ELSE t
  PROVE  Scanned(i, n, u, to)
<1>1. /\ at = [y |-> at.y, pass |-> at.pass, buf |-> at.buf] /\ at.y \in Nat
      /\ at.pass \in 0..3 /\ i.height \in Nat
  BY ImageFacts DEF RowInv
<1>2. PICK y, pass : y = NextY(i, at.y, at.pass) /\ pass = NextPass(i, at.y, at.pass)
  OBVIOUS
<1>3. NextRow(i, [y |-> at.y, pass |-> at.pass, buf |-> at.buf])
        = [y |-> y, pass |-> pass, buf |-> at.buf]
  BY <1>1, <1>2, NextRowOfSave
<1>4. to = [y |-> y, pass |-> pass, buf |-> at.buf]
  BY <1>1, <1>3
<1>5. to.y = y /\ to.pass = pass
  BY <1>4
<1>6. CoderPlace(i, t, at) = [y |-> y, pass |-> pass, x |-> 0]
  BY <1>1, <1>2 DEF CoderPlace
<1>7. y \in Nat
  <2>1. to.y \in Nat
    BY NextRowFacts
  <2> QED
    BY <1>5, <2>1
<1>8. CoderPlace(i, u, to) = [y |-> y, pass |-> pass, x |-> 0]
  <2>1. CASE y < i.height
    <3>1. u.bufferPos < LineBytes(i) /\ Column(i, u) = 0
      BY <1>5, <2>1, FillMoves
    <3> QED
      BY <1>1, <1>5, <1>7, <2>1, <3>1 DEF CoderPlace
  <2>2. CASE ~(y < i.height)
    BY <1>1, <1>5, <1>7, <2>2 DEF CoderPlace
  <2> QED
    BY <2>1, <2>2
<1> QED
  BY <1>6, <1>8, Zenon DEF Scanned

(* Save begins at the first pixel.                                         *)
LEMMA ScanStart ==
  ASSUME NEW i \in Images, NEW at, at.y = 0, at.pass = 0, NEW t, CoderType(t)
  PROVE  Scanned(i, 0, FillBuffer(i, t), at)
<1>1. PICK u : u = FillBuffer(i, t)
  OBVIOUS
<1>2. u.bufferPos < LineBytes(i) /\ Column(i, u) = 0
  BY <1>1, FillMoves
<1>3. i.height \in Nat \ {0}
  BY ImageFacts
<1>4. CoderPlace(i, u, at) = [y |-> 0, pass |-> 0, x |-> 0]
  BY <1>2, <1>3 DEF CoderPlace
<1>5. Place(i)[0] = [y |-> 0, pass |-> 0, x |-> 0]
  BY PlaceFunction DEF Origin
<1>6. \A m \in 0..0-1 : Place(i)[m].y < i.height
  OBVIOUS
<1> QED
  BY <1>1, <1>4, <1>5, <1>6 DEF Scanned

-----------------------------------------------------------------------------
(* What the coder has written, as one number and as a list of codes.       *)

(* What the coder has written, as one number and as a list of codes: code  *)
(* k has the size[k] bits of value above off[k]; it stands for the pixels  *)
(* at[k] to at[k+1]-1; and from[k] is the first code after the clear code  *)
(* before it.                                                              *)
TraceType(w) ==
  /\ w.value \in Nat /\ w.n \in Nat
  /\ w.code \in [Nat -> Nat] /\ w.size \in [Nat -> Nat] /\ w.off \in [Nat -> Nat]
  /\ w.at \in [Nat -> Nat] /\ w.from \in [Nat -> Nat]

(* The size of codes when top is the highest code there can be.            *)
SizeFor(i, top, size) ==
  /\ size \in MinCodeSize(i) + 1 .. CodeBits
  /\ top < Pow2[size]
  /\ size > MinCodeSize(i) + 1 => Pow2[size - 1] <= top

(* The string that code q and the pixel after it make, and its own code in *)
(* the table that code k is written with.                                  *)
Number(i, w, k, q) == EndCode(i) + 1 + (q - w.from[k])
SameText(i, a, b, len) == \A d \in 0..len-1 : Pixel(i)[a + d] = Pixel(i)[b + d]
Spells(i, w, k, code, a, len) ==
  \/ code < ClearCode(i) /\ len = 1 /\ Pixel(i)[a] = code
  \/ \E q \in w.from[k]..k-1 :
       /\ code = Number(i, w, k, q) /\ len = (w.at[q + 1] - w.at[q]) + 1
       /\ SameText(i, a, w.at[q], len)
Table(i, w, k) ==
  /\ w.from[k] \in 0..k
  /\ \A q \in w.from[k]..k-1 : w.from[q] = w.from[k] /\ w.code[q] # ClearCode(i)

(* What code k is, apart from its bits.                                    *)
Meant(i, w, k) ==
  IF w.code[k] = ClearCode(i)
  THEN w.at[k + 1] = w.at[k] /\ (k = 0 \/ Number(i, w, k, k) = MaxCode)
  ELSE /\ Number(i, w, k, k) < MaxCode
       /\ w.at[k + 1] - w.at[k] \in 1..(k - w.from[k]) + 1
       /\ Spells(i, w, k, w.code[k], w.at[k], w.at[k + 1] - w.at[k])
CodeBitsOk(w, k) ==
  /\ Bits(w.value, w.off[k], w.size[k]) = w.code[k]
  /\ w.code[k] < Pow2[w.size[k]]
  /\ w.off[k + 1] = w.off[k] + w.size[k]
  /\ w.off[k + 1] <= w.off[w.n]
CodeOk(i, w, k) ==
  /\ CodeBitsOk(w, k)
  /\ Table(i, w, k)
  /\ w.from[k + 1] = IF w.code[k] = ClearCode(i) THEN k + 1 ELSE w.from[k]
  /\ SizeFor(i, EndCode(i) + (k - w.from[k]), w.size[k])
  /\ Meant(i, w, k)

(* One code more.                                                          *)
Other(f, n, x) == [f EXCEPT ![n] = x]
SameBut(f, g, n) == \A k \in Nat : k # n => g[k] = f[k]
Longer(i, w, c, s, len) ==
  [value |-> w.value + c * Pow2[w.off[w.n]],
   n |-> w.n + 1,
   code |-> Other(w.code, w.n, c),
   size |-> Other(w.size, w.n, s),
   off |-> Other(w.off, w.n + 1, w.off[w.n] + s),
   at |-> Other(w.at, w.n + 1, w.at[w.n] + len),
   from |-> Other(w.from, w.n + 1, IF c = ClearCode(i) THEN w.n + 1 ELSE w.from[w.n])]
OneMore(i, w, u, c, s, len) ==
  /\ u.value = w.value + c * Pow2[w.off[w.n]] /\ u.n = w.n + 1
  /\ u.code[w.n] = c /\ u.size[w.n] = s /\ u.off[w.n + 1] = w.off[w.n] + s
  /\ u.at[w.n + 1] = w.at[w.n] + len
  /\ u.from[w.n + 1] = IF c = ClearCode(i) THEN w.n + 1 ELSE w.from[w.n]
  /\ \A k \in 0..w.n-1 : u.code[k] = w.code[k] /\ u.size[k] = w.size[k]
  /\ \A k \in 0..w.n : u.off[k] = w.off[k] /\ u.at[k] = w.at[k] /\ u.from[k] = w.from[k]

(* A list of numbers with another number at one place.                     *)
LEMMA OneOther ==
  ASSUME NEW f \in [Nat -> Nat], NEW n \in Nat, NEW x \in Nat
  PROVE  /\ Other(f, n, x) \in [Nat -> Nat] /\ Other(f, n, x)[n] = x
         /\ SameBut(f, Other(f, n, x), n)
BY DEF Other, SameBut

(* One code more, member by member.                                        *)
LEMMA LongerFacts ==
  ASSUME NEW i \in Images, NEW w, TraceType(w),
         NEW c \in Nat, NEW s \in Nat, NEW len \in Nat, NEW u, u = Longer(i, w, c, s, len)
  PROVE  TraceType(u) /\ OneMore(i, w, u, c, s, len)
<1> HIDE DEF Pow2
<1>1. /\ w.value \in Nat /\ w.n \in Nat
      /\ w.code \in [Nat -> Nat] /\ w.size \in [Nat -> Nat] /\ w.off \in [Nat -> Nat]
      /\ w.at \in [Nat -> Nat] /\ w.from \in [Nat -> Nat]
  BY DEF TraceType
<1>2. PICK n, m \in Nat : n = w.n /\ m = n + 1
  BY <1>1
<1>3. PICK v, o, a, f \in Nat :
        /\ v = w.value + c * Pow2[w.off[n]] /\ o = w.off[n] + s /\ a = w.at[n] + len
        /\ f = IF c = ClearCode(i) THEN m ELSE w.from[n]
  <2>1. w.off[n] \in Nat /\ w.at[n] \in Nat /\ w.from[n] \in Nat
    BY <1>1, <1>2
  <2>2. Pow2[w.off[n]] \in Nat
    BY <2>1, PowerEquations
  <2>4. PICK p, y \in Nat : p = Pow2[w.off[n]] /\ y = w.value
    BY <1>1, <2>2
  <2>5. y + c * p \in Nat
    OBVIOUS
  <2>3. w.value + c * Pow2[w.off[n]] \in Nat
    BY <2>4, <2>5, Zenon
  <2> QED
    BY <2>1, <2>3, SMTT(30)
<1>17. PICK gc, gs, go, ga, gf :
         /\ gc = Other(w.code, n, c) /\ gs = Other(w.size, n, s)
         /\ go = Other(w.off, m, o) /\ ga = Other(w.at, m, a)
         /\ gf = Other(w.from, m, f)
  OBVIOUS
<1>4. u = [value |-> v, n |-> m, code |-> gc, size |-> gs, off |-> go, at |-> ga, from |-> gf]
  BY <1>2, <1>3, <1>17, Zenon DEF Longer
<1>5. /\ u.value = v /\ u.n = m /\ u.code = gc /\ u.size = gs /\ u.off = go
      /\ u.at = ga /\ u.from = gf
  BY <1>4
<1>10. gc \in [Nat -> Nat] /\ gc[n] = c /\ \A k \in Nat : k # n => gc[k] = w.code[k]
  <2>1. w.code \in [Nat -> Nat] /\ n \in Nat /\ c \in Nat
    BY <1>1, <1>2, <1>3, Zenon
  <2>2. /\ Other(w.code, n, c) \in [Nat -> Nat] /\ Other(w.code, n, c)[n] = c
        /\ SameBut(w.code, Other(w.code, n, c), n)
    BY <2>1, OneOther, Zenon
  <2> QED
    BY <1>17, <2>2, Zenon DEF SameBut
<1>11. gs \in [Nat -> Nat] /\ gs[n] = s /\ \A k \in Nat : k # n => gs[k] = w.size[k]
  <2>1. w.size \in [Nat -> Nat] /\ n \in Nat /\ s \in Nat
    BY <1>1, <1>2, <1>3, Zenon
  <2>2. /\ Other(w.size, n, s) \in [Nat -> Nat] /\ Other(w.size, n, s)[n] = s
        /\ SameBut(w.size, Other(w.size, n, s), n)
    BY <2>1, OneOther, Zenon
  <2> QED
    BY <1>17, <2>2, Zenon DEF SameBut
<1>12. go \in [Nat -> Nat] /\ go[m] = o /\ \A k \in Nat : k # m => go[k] = w.off[k]
  <2>1. w.off \in [Nat -> Nat] /\ m \in Nat /\ o \in Nat
    BY <1>1, <1>2, <1>3, Zenon
  <2>2. /\ Other(w.off, m, o) \in [Nat -> Nat] /\ Other(w.off, m, o)[m] = o
        /\ SameBut(w.off, Other(w.off, m, o), m)
    BY <2>1, OneOther, Zenon
  <2> QED
    BY <1>17, <2>2, Zenon DEF SameBut
<1>13. ga \in [Nat -> Nat] /\ ga[m] = a /\ \A k \in Nat : k # m => ga[k] = w.at[k]
  <2>1. w.at \in [Nat -> Nat] /\ m \in Nat /\ a \in Nat
    BY <1>1, <1>2, <1>3, Zenon
  <2>2. /\ Other(w.at, m, a) \in [Nat -> Nat] /\ Other(w.at, m, a)[m] = a
        /\ SameBut(w.at, Other(w.at, m, a), m)
    BY <2>1, OneOther, Zenon
  <2> QED
    BY <1>17, <2>2, Zenon DEF SameBut
<1>14. gf \in [Nat -> Nat] /\ gf[m] = f /\ \A k \in Nat : k # m => gf[k] = w.from[k]
  <2>1. w.from \in [Nat -> Nat] /\ m \in Nat /\ f \in Nat
    BY <1>1, <1>2, <1>3, Zenon
  <2>2. /\ Other(w.from, m, f) \in [Nat -> Nat] /\ Other(w.from, m, f)[m] = f
        /\ SameBut(w.from, Other(w.from, m, f), m)
    BY <2>1, OneOther, Zenon
  <2> QED
    BY <1>17, <2>2, Zenon DEF SameBut
<1>6. TraceType(u)
  BY <1>5, <1>10, <1>11, <1>12, <1>13, <1>14, Zenon DEF TraceType
<1>8. \A k \in 0..n-1 : u.code[k] = w.code[k] /\ u.size[k] = w.size[k]
  BY <1>5, <1>10, <1>11
<1>9. \A k \in 0..n : u.off[k] = w.off[k] /\ u.at[k] = w.at[k] /\ u.from[k] = w.from[k]
  BY <1>2, <1>5, <1>12, <1>13, <1>14
<1> QED
  BY <1>2, <1>3, <1>5, <1>6, <1>8, <1>9, <1>10, <1>11, <1>12, <1>13, <1>14, Zenon DEF OneMore

(* What was said of the codes before holds of the longer list.             *)
LEMMA LongerKeeps ==
  ASSUME NEW i \in Images, NEW w, TraceType(w), NEW u, TraceType(u),
         NEW c \in Nat, NEW s \in Nat, NEW len \in Nat, OneMore(i, w, u, c, s, len),
         NEW k \in 0..w.n-1, CodeOk(i, w, k)
  PROVE  CodeOk(i, u, k)
<1> HIDE DEF Pow2
<1>1. /\ w.n \in Nat /\ w.value \in Nat /\ w.off \in [Nat -> Nat] /\ w.size \in [Nat -> Nat]
      /\ w.from \in [Nat -> Nat]
  BY DEF TraceType
<1>2. k \in Nat /\ k \in 0..w.n /\ k + 1 \in 0..w.n /\ w.n \in 0..w.n
  BY <1>1
<1>3. /\ u.code[k] = w.code[k] /\ u.size[k] = w.size[k]
      /\ u.off[k] = w.off[k] /\ u.at[k] = w.at[k] /\ u.from[k] = w.from[k]
      /\ u.off[k + 1] = w.off[k + 1] /\ u.at[k + 1] = w.at[k + 1] /\ u.from[k + 1] = w.from[k + 1]
      /\ u.off[w.n] = w.off[w.n]
  BY <1>2, Zenon DEF OneMore
<1>4. /\ CodeBitsOk(w, k) /\ Table(i, w, k) /\ Meant(i, w, k)
      /\ w.from[k + 1] = IF w.code[k] = ClearCode(i) THEN k + 1 ELSE w.from[k]
      /\ SizeFor(i, EndCode(i) + (k - w.from[k]), w.size[k])
  BY DEF CodeOk
<1>5. \A q \in w.from[k]..k-1 :
        /\ q \in 0..w.n /\ q + 1 \in 0..w.n /\ q \in 0..w.n-1
        /\ u.from[q] = w.from[q] /\ u.code[q] = w.code[q]
        /\ u.at[q] = w.at[q] /\ u.at[q + 1] = w.at[q + 1]
  <2> TAKE q \in w.from[k]..k-1
  <2>1. w.from[k] \in Nat
    BY <1>1, <1>2
  <2>2. q \in 0..w.n /\ q + 1 \in 0..w.n /\ q \in 0..w.n-1
    BY <1>1, <1>2, <2>1
  <2> QED
    BY <2>2, Zenon DEF OneMore
<1>6. CodeBitsOk(u, k)
  <2>1. PICK o, z, m \in Nat : o = w.off[k] /\ z = w.size[k] /\ m = w.off[w.n]
    BY <1>1, <1>2
  <2>2. o + z <= m /\ w.off[k + 1] = o + z
    BY <1>4, <2>1 DEF CodeBitsOk
  <2>3. Bits(w.value + c * Pow2[m], o, z) = Bits(w.value, o, z)
    <3>1. PICK v \in Nat : v = w.value
      BY <1>1
    <3>2. Bits(v + c * Pow2[m], o, z) = Bits(v, o, z)
      BY <2>2, BitsBelow
    <3> QED
      BY <3>1, <3>2
  <2>4. Bits(u.value, o, z) = w.code[k]
    BY <1>4, <2>1, <2>3, Zenon DEF CodeBitsOk, OneMore
  <2>5. u.off[u.n] = m + s /\ u.n = w.n + 1
    BY <2>1 DEF OneMore
  <2>6. w.off[k + 1] <= m + s
    BY <2>2
  <2>7. u.off[k + 1] <= u.off[u.n]
    BY <1>3, <2>5, <2>6
  <2> QED
    BY <1>3, <1>4, <2>1, <2>4, <2>7, Zenon DEF CodeBitsOk
<1>7. Table(i, u, k)
  <2>1. u.from[k] \in 0..k
    BY <1>3, <1>4 DEF Table
  <2>2. \A q \in w.from[k]..k-1 : u.from[q] = w.from[k] /\ u.code[q] # ClearCode(i)
    BY <1>4, <1>5, Zenon DEF Table
  <2> QED
    BY <1>3, <2>1, <2>2, Zenon DEF Table
<1>8. Meant(i, u, k)
  <2>1. \A q : Number(i, u, k, q) = Number(i, w, k, q)
    BY <1>3 DEF Number
  <2>2. ASSUME NEW code, NEW a, NEW l, Spells(i, w, k, code, a, l) PROVE Spells(i, u, k, code, a, l)
    <3>1. CASE code < ClearCode(i) /\ l = 1 /\ Pixel(i)[a] = code
      BY <3>1, Zenon DEF Spells
    <3>2. CASE \E q \in w.from[k]..k-1 :
                 /\ code = Number(i, w, k, q) /\ l = (w.at[q + 1] - w.at[q]) + 1
                 /\ SameText(i, a, w.at[q], l)
      <4>1. PICK q \in w.from[k]..k-1 :
                 /\ code = Number(i, w, k, q) /\ l = (w.at[q + 1] - w.at[q]) + 1
                 /\ SameText(i, a, w.at[q], l)
        BY <3>2
      <4>2. /\ code = Number(i, u, k, q) /\ l = (u.at[q + 1] - u.at[q]) + 1
            /\ SameText(i, a, u.at[q], l) /\ q \in u.from[k]..k-1
        BY <1>3, <1>5, <2>1, <4>1, Zenon
      <4> QED
        BY <4>2, Zenon DEF Spells
    <3> QED
      BY <2>2, <3>1, <3>2, Zenon DEF Spells
  <2>3. CASE w.code[k] = ClearCode(i)
    BY <1>3, <1>4, <2>1, <2>3 DEF Meant
  <2>4. CASE w.code[k] # ClearCode(i)
    <3>1. /\ Number(i, w, k, k) < MaxCode
          /\ w.at[k + 1] - w.at[k] \in 1..(k - w.from[k]) + 1
          /\ Spells(i, w, k, w.code[k], w.at[k], w.at[k + 1] - w.at[k])
      BY <1>4, <2>4, Zenon DEF Meant
    <3>2. /\ Number(i, u, k, k) < MaxCode
          /\ u.at[k + 1] - u.at[k] \in 1..(k - u.from[k]) + 1
          /\ Spells(i, u, k, u.code[k], u.at[k], u.at[k + 1] - u.at[k])
      BY <1>3, <2>1, <2>2, <3>1, Zenon
    <3> QED
      BY <1>3, <2>4, <3>2, Zenon DEF Meant
  <2> QED
    BY <2>3, <2>4
<1>9. /\ u.from[k + 1] = IF u.code[k] = ClearCode(i) THEN k + 1 ELSE u.from[k]
      /\ SizeFor(i, EndCode(i) + (k - u.from[k]), u.size[k])
  BY <1>3, <1>4, Zenon
<1> QED
  BY <1>6, <1>7, <1>8, <1>9, Zenon DEF CodeOk

(* A list of codes that is what it should be, and what may follow it.      *)
CodesOk(i, w) ==
  /\ TraceType(w)
  /\ w.off[0] = 0 /\ w.at[0] = 0 /\ w.from[0] = 0
  /\ w.value < Pow2[w.off[w.n]]
  /\ \A k \in 0..w.n-1 : CodeOk(i, w, k)
MayFollow(i, w, c, s, len) ==
  /\ c < Pow2[s]
  /\ Table(i, w, w.n)
  /\ SizeFor(i, EndCode(i) + (w.n - w.from[w.n]), s)
  /\ IF c = ClearCode(i) THEN len = 0 /\ (w.n = 0 \/ Number(i, w, w.n, w.n) = MaxCode)
     ELSE /\ Number(i, w, w.n, w.n) < MaxCode
          /\ len \in 1..(w.n - w.from[w.n]) + 1
          /\ Spells(i, w, w.n, c, w.at[w.n], len)

(* Table, Number and Spells look only at what a longer list keeps.         *)
LEMMA SameTable ==
  ASSUME NEW i \in Images, NEW w, TraceType(w), NEW u, TraceType(u),
         NEW c \in Nat, NEW s \in Nat, NEW len \in Nat, OneMore(i, w, u, c, s, len),
         Table(i, w, w.n)
  PROVE  /\ Table(i, u, w.n)
         /\ \A q : Number(i, u, w.n, q) = Number(i, w, w.n, q)
         /\ \A code, a, l : Spells(i, w, w.n, code, a, l) => Spells(i, u, w.n, code, a, l)
<1>1. PICK n \in Nat : n = w.n
  BY DEF TraceType
<1>2. n \in 0..n
  BY <1>1
<1>3. u.from[n] = w.from[n] /\ w.from[n] \in 0..n
  BY <1>1, <1>2, Zenon DEF OneMore, Table
<1>4. \A q \in w.from[n]..n-1 :
        /\ u.from[q] = w.from[q] /\ u.code[q] = w.code[q]
        /\ u.at[q] = w.at[q] /\ u.at[q + 1] = w.at[q + 1]
  <2> TAKE q \in w.from[n]..n-1
  <2>1. PICK b \in Nat : b = w.from[n]
    BY <1>3
  <2>2. q \in 0..n /\ q + 1 \in 0..n /\ q \in 0..n-1
    BY <2>1
  <2> QED
    BY <1>1, <2>2, Zenon DEF OneMore
<1>5. \A q : Number(i, u, n, q) = Number(i, w, n, q)
  BY <1>3, Zenon DEF Number
<1>6. Table(i, u, n)
  BY <1>1, <1>3, <1>4, Zenon DEF Table
<1>7. ASSUME NEW code, NEW a, NEW l, Spells(i, w, n, code, a, l) PROVE Spells(i, u, n, code, a, l)
  <2>1. CASE code < ClearCode(i) /\ l = 1 /\ Pixel(i)[a] = code
    BY <2>1, Zenon DEF Spells
  <2>2. CASE \E q \in w.from[n]..n-1 :
               /\ code = Number(i, w, n, q) /\ l = (w.at[q + 1] - w.at[q]) + 1
               /\ SameText(i, a, w.at[q], l)
    <3>1. PICK q \in w.from[n]..n-1 :
               /\ code = Number(i, w, n, q) /\ l = (w.at[q + 1] - w.at[q]) + 1
               /\ SameText(i, a, w.at[q], l)
      BY <2>2
    <3>2. /\ code = Number(i, u, n, q) /\ l = (u.at[q + 1] - u.at[q]) + 1
          /\ SameText(i, a, u.at[q], l) /\ q \in u.from[n]..n-1
      BY <1>3, <1>4, <1>5, <3>1, Zenon
    <3> QED
      BY <3>2, Zenon DEF Spells
  <2> QED
    BY <1>7, <2>1, <2>2, Zenon DEF Spells
<1> QED
  BY <1>1, <1>5, <1>6, <1>7, Zenon

(* The list with a code that may follow is what it should be.              *)
LEMMA FollowerOk ==
  ASSUME NEW i \in Images, NEW w, CodesOk(i, w), NEW u, TraceType(u),
         NEW c \in Nat, NEW s \in Nat, NEW len \in Nat, MayFollow(i, w, c, s, len),
         OneMore(i, w, u, c, s, len)
  PROVE  CodeOk(i, u, w.n) /\ u.value < Pow2[u.off[u.n]]
<1> HIDE DEF Pow2
<1>1. PICK n, v, m \in Nat : n = w.n /\ v = w.value /\ m = w.off[n]
  BY DEF CodesOk, TraceType
<1>2. TraceType(w) /\ Table(i, w, n) /\ v < Pow2[m] /\ c < Pow2[s]
  BY <1>1, Zenon DEF CodesOk, MayFollow
<1>3. n \in 0..n
  BY <1>1
<1>4. /\ u.value = v + c * Pow2[m] /\ u.n = n + 1
      /\ u.code[n] = c /\ u.size[n] = s /\ u.off[n + 1] = m + s
      /\ u.at[n + 1] = w.at[n] + len
      /\ u.from[n + 1] = IF c = ClearCode(i) THEN n + 1 ELSE w.from[n]
      /\ u.off[n] = m /\ u.at[n] = w.at[n] /\ u.from[n] = w.from[n]
  BY <1>1, <1>3, Zenon DEF OneMore
<1>5. Bits(v + c * Pow2[m], m, s) = c /\ v + c * Pow2[m] < Pow2[m + s]
  <2>1. v \in Nat /\ m \in Nat /\ s \in Nat /\ c \in Nat /\ v < Pow2[m] /\ c < Pow2[s]
    BY <1>1, <1>2
  <2>2. Bits(v + c * Pow2[m], m, s) = c
    BY <2>1, BitsPut
  <2>3. v + c * Pow2[m] < Pow2[m + s]
    BY <2>1, BitsPut
  <2> QED
    BY <2>2, <2>3, Zenon
<1>6. CodeBitsOk(u, n)
  <2>1. u.off[n + 1] <= u.off[u.n]
    BY <1>1, <1>4
  <2> QED
    BY <1>2, <1>4, <1>5, <2>1, Zenon DEF CodeBitsOk
<1>7. /\ Table(i, u, n) /\ \A q : Number(i, u, n, q) = Number(i, w, n, q)
      /\ \A code, a, l : Spells(i, w, n, code, a, l) => Spells(i, u, n, code, a, l)
  BY <1>1, <1>2, SameTable, Zenon
<1>8. Meant(i, u, n)
  <2>1. PICK a \in Nat : a = w.at[n]
    BY <1>1 DEF CodesOk, TraceType
  <2>2. u.at[n + 1] - u.at[n] = len /\ (len = 0 => u.at[n + 1] = u.at[n])
    BY <1>4, <2>1
  <2>3. CASE c = ClearCode(i)
    <3>1. len = 0 /\ (n = 0 \/ Number(i, w, n, n) = MaxCode)
      BY <1>1, <2>3, Zenon DEF MayFollow
    <3> QED
      BY <1>4, <1>7, <2>2, <2>3, <3>1, Zenon DEF Meant
  <2>4. CASE c # ClearCode(i)
    <3>1. /\ Number(i, w, n, n) < MaxCode
          /\ len \in 1..(n - w.from[n]) + 1
          /\ Spells(i, w, n, c, w.at[n], len)
      BY <1>1, <2>4, Zenon DEF MayFollow
    <3> QED
      BY <1>4, <1>7, <2>2, <2>4, <3>1, Zenon DEF Meant
  <2> QED
    BY <2>3, <2>4
<1>9. SizeFor(i, EndCode(i) + (n - u.from[n]), u.size[n])
  BY <1>1, <1>4, Zenon DEF MayFollow
<1>10. u.from[n + 1] = IF u.code[n] = ClearCode(i) THEN n + 1 ELSE u.from[n]
  BY <1>4, Zenon
<1>11. CodeOk(i, u, n)
  BY <1>6, <1>7, <1>8, <1>9, <1>10, Zenon DEF CodeOk
<1>12. u.value < Pow2[u.off[u.n]]
  BY <1>4, <1>5, Zenon
<1> QED
  BY <1>1, <1>11, <1>12, Zenon

(* Another code that may follow can be added to the list.                  *)
LEMMA AddCode ==
  ASSUME NEW i \in Images, NEW w, CodesOk(i, w),
         NEW c \in Nat, NEW s \in Nat, NEW len \in Nat, MayFollow(i, w, c, s, len)
  PROVE  \E u : OneMore(i, w, u, c, s, len) /\ CodesOk(i, u)
<1>1. PICK u : u = Longer(i, w, c, s, len)
  OBVIOUS
<1>2. TraceType(w)
  BY Zenon DEF CodesOk
<1>3. TraceType(u) /\ OneMore(i, w, u, c, s, len)
  BY <1>1, <1>2, LongerFacts, Zenon
<1>4. CodeOk(i, u, w.n) /\ u.value < Pow2[u.off[u.n]]
  BY <1>3, FollowerOk, Zenon
<1>5. ASSUME NEW k \in 0..u.n-1 PROVE CodeOk(i, u, k)
  <2>1. u.n = w.n + 1 /\ w.n \in Nat
    BY <1>2, <1>3 DEF OneMore, TraceType
  <2>2. CASE k = w.n
    BY <1>4, <2>2, Zenon
  <2>3. CASE k # w.n
    <3>1. k \in 0..w.n-1
      BY <1>5, <2>1, <2>3
    <3>2. CodeOk(i, w, k)
      BY <3>1, Zenon DEF CodesOk
    <3> QED
      BY <1>2, <1>3, <3>1, <3>2, LongerKeeps, Zenon
  <2> QED
    BY <2>2, <2>3
<1>6. u.off[0] = 0 /\ u.at[0] = 0 /\ u.from[0] = 0
  <2>1. 0 \in 0..w.n
    BY <1>2 DEF TraceType
  <2> QED
    BY <1>3, <2>1, Zenon DEF OneMore, CodesOk
<1>7. CodesOk(i, u)
  BY <1>3, <1>4, <1>5, <1>6, Zenon DEF CodesOk
<1> QED
  BY <1>3, <1>7, Zenon

-----------------------------------------------------------------------------
(* The value of the codes and the bytes of the file.                       *)

(* The bits that did not go out yet, when T bytes went out; what a run of  *)
(* bytes holds that begins with byte m.                                    *)
BitsAt(w, T, p, z) ==
  w.off[w.n] = ByteBits * T + z /\ p = w.value \div Pow2[ByteBits * T]
ByteOf(v, m) == Bits(v, ByteBits * m, ByteBits)
Holds(v, m, s) == \A j \in 1..Len(s) : s[j] = ByteOf(v, m + (j - 1))
Written(v, f, buf) ==
  /\ \A b \in 1..Len(f) : Holds(v, (b - 1) * BlockLen, f[b].bytes)
  /\ Holds(v, Len(f) * BlockLen, buf)

(* Bytes, codes and blocks have whole sizes, and a block holds the end of  *)
(* the codes.                                                              *)
LEMMA ByteWidth == ByteBits \in Nat \ {0} /\ CodeBits \in Nat /\ BlockLen \in Nat \ {0} /\ BlockLen > 6
BY WidthAssumption

(* A code added to the list and its bits put above those that wait: the    *)
(* bits that wait are again the highest of the value.                      *)
LEMMA PutBits ==
  ASSUME NEW i, NEW w, CodesOk(i, w), NEW u, NEW c \in Nat, NEW s \in Nat, NEW len,
         OneMore(i, w, u, c, s, len),
         NEW T \in Nat, NEW p, NEW z \in Nat, BitsAt(w, T, p, z)
  PROVE  BitsAt(u, T, p + c * Pow2[z], z + s)
<1> HIDE DEF Pow2
<1>1. PICK v, o, b \in Nat : v = w.value /\ o = w.off[w.n] /\ b = ByteBits * T
  <2>1. w.value \in Nat /\ w.n \in Nat /\ w.off \in [Nat -> Nat]
    BY Zenon DEF CodesOk, TraceType
  <2>2. w.off[w.n] \in Nat
    BY <2>1, Zenon
  <2>3. ByteBits * T \in Nat
    BY ByteWidth
  <2> QED
    BY <2>1, <2>2, <2>3, Zenon
<1>2. o = b + z /\ p = v \div Pow2[b]
  BY <1>1, Zenon DEF BitsAt
<1>3. /\ u.value = v + c * Pow2[o] /\ u.n = w.n + 1 /\ u.off[w.n + 1] = o + s
  BY <1>1, Zenon DEF OneMore
<1>4. (v + c * Pow2[o]) \div Pow2[b] = (v \div Pow2[b]) + c * Pow2[o - b]
  <2>1. b + 0 <= o /\ 0 \in Nat /\ v \in Nat /\ o \in Nat /\ b \in Nat
    BY <1>1, <1>2
  <2> QED
    BY <2>1, BitsBelow
<1>5. o - b = z /\ o + s = b + (z + s)
  BY <1>1, <1>2
<1>6. u.value \div Pow2[b] = p + c * Pow2[z]
  BY <1>2, <1>3, <1>4, <1>5, Zenon
<1>7. u.off[u.n] = b + (z + s)
  BY <1>3, <1>5, Zenon
<1> QED
  BY <1>1, <1>6, <1>7, Zenon DEF BitsAt

(* Taking k bytes from the bits that wait: they are the next k bytes of    *)
(* the value, and the rest waits.                                          *)
LEMMA BytesOut ==
  ASSUME NEW w, w.value \in Nat, NEW T \in Nat, NEW p, NEW z \in Nat, BitsAt(w, T, p, z),
         NEW k \in Nat, k * ByteBits <= z
  PROVE  /\ BitsAt(w, T + k, p \div Pow2[k * ByteBits], z - k * ByteBits)
         /\ \A t : t.partial = p => Holds(w.value, T, LowBytes(t, k)) /\ Len(LowBytes(t, k)) = k
<1> HIDE DEF Pow2
<1>1. PICK v, b, d \in Nat : v = w.value /\ b = ByteBits * T /\ d = k * ByteBits
  BY ByteWidth
<1>2. ByteBits * (T + k) = b + d /\ b + z = (b + d) + (z - d)
  BY <1>1, ByteWidth
<1>3. w.off[w.n] = b + z /\ p = v \div Pow2[b]
  BY <1>1, Zenon DEF BitsAt
<1>4. BitsAt(w, T + k, p \div Pow2[d], z - d)
  <2>2. v \in Nat /\ b \in Nat /\ d \in Nat
    BY <1>1
  <2>1. v \div Pow2[b + d] = (v \div Pow2[b]) \div Pow2[d]
    BY <2>2, BitsOfBits
  <2> QED
    BY <1>1, <1>2, <1>3, <2>1, Zenon DEF BitsAt
<1>5. ASSUME NEW t, t.partial = p
      PROVE  Holds(w.value, T, LowBytes(t, k)) /\ Len(LowBytes(t, k)) = k
  <2>1. LowBytes(t, k) = [j \in 1..k |-> (p \div Pow2[ByteBits * (j-1)]) % Pow2[ByteBits]]
    BY <1>5, Zenon DEF LowBytes
  <2>2. Len(LowBytes(t, k)) = k
    BY <2>1
  <2>3. ASSUME NEW j \in 1..k PROVE LowBytes(t, k)[j] = ByteOf(w.value, T + (j - 1))
    <3>1. LowBytes(t, k)[j] = (p \div Pow2[ByteBits * (j-1)]) % Pow2[ByteBits]
      BY <2>1, <2>3, Zenon
    <3>2. PICK a \in Nat : a = ByteBits * (j - 1)
      BY ByteWidth
    <3>3. ByteBits * (T + (j - 1)) = b + a
      BY <1>1, <3>2, ByteWidth
    <3>6. v \in Nat /\ b \in Nat /\ a \in Nat /\ ByteBits \in Nat
      BY <1>1, <3>2, ByteWidth
    <3>4. Bits(v \div Pow2[b], a, ByteBits) = Bits(v, b + a, ByteBits)
      BY <3>6, BitsWithin
    <3>5. (p \div Pow2[a]) % Pow2[ByteBits] = Bits(v, b + a, ByteBits)
      BY <1>3, <3>4, Zenon DEF Bits
    <3> QED
      BY <1>1, <3>1, <3>2, <3>3, <3>5, Zenon DEF ByteOf
  <2> QED
    BY <2>2, <2>3, Zenon DEF Holds
<1> QED
  BY <1>1, <1>4, <1>5, Zenon

(* Bits o to o+n-1 of a number, when c is added above bit m.               *)
BitsStay(v, o, n, m, c) == Bits(v + c * Pow2[m], o, n) = Bits(v, o, n)

(* Bits below what is added stay.                                          *)
LEMMA BitsKept ==
  \A v, o, n, m, c \in Nat : o + n <= m => BitsStay(v, o, n, m, c)
<1> HIDE DEF Pow2
<1> QED
  BY BitsBelow DEF BitsStay

(* A code added above leaves the bytes below as they are.                  *)
LEMMA HoldsStill ==
  ASSUME NEW i, NEW w, CodesOk(i, w), NEW u, NEW c \in Nat, NEW s \in Nat, NEW len,
         OneMore(i, w, u, c, s, len), NEW T \in Nat, NEW z \in Nat,
         w.off[w.n] = ByteBits * T + z,
         NEW m \in Nat, NEW q, Len(q) \in Nat, m + Len(q) <= T, Holds(w.value, m, q)
  PROVE  Holds(u.value, m, q)
<1> HIDE DEF Pow2
<1>1. PICK v, o, b \in Nat : v = w.value /\ o = w.off[w.n] /\ b = ByteBits * T
  <2>1. w.value \in Nat /\ w.off[w.n] \in Nat
    BY DEF CodesOk, TraceType
  <2>2. ByteBits * T \in Nat
    BY ByteWidth
  <2> QED
    BY <2>1, <2>2, Zenon
<1>2. u.value = v + c * Pow2[o]
  BY <1>1, Zenon DEF OneMore
<1>3. ASSUME NEW j \in 1..Len(q) PROVE q[j] = ByteOf(u.value, m + (j - 1))
  <2>1. PICK r \in Nat : r = m + (j - 1) /\ r + 1 <= T
    BY <1>3
  <2>2. PICK a \in Nat : a = ByteBits * r
    BY ByteWidth
  <2>3. a + ByteBits <= o
    <3>1. PICK h \in Nat : T = (r + 1) + h
      BY <2>1
    <3>2. ByteBits * T = a + ByteBits + ByteBits * h /\ ByteBits * h \in Nat
      BY <2>1, <2>2, <3>1, ByteWidth
    <3>3. PICK g \in Nat : g = ByteBits * h
      BY <3>2
    <3>4. b = a + ByteBits + g /\ o = b + z
      BY <1>1, <3>2, <3>3, Zenon
    <3> QED
      BY <1>1, <2>2, <3>3, <3>4, ByteWidth
  <2>6. v \in Nat /\ a \in Nat /\ o \in Nat /\ ByteBits \in Nat /\ a + ByteBits <= o /\ c \in Nat
    BY <1>1, <2>2, <2>3, ByteWidth
  <2>4. Bits(v + c * Pow2[o], a, ByteBits) = Bits(v, a, ByteBits)
    <3>1. PICK e \in Nat : e = ByteBits
      BY <2>6
    <3>2. a + e <= o
      BY <2>6, <3>1, Zenon
    <3>3. v \in Nat /\ a \in Nat /\ e \in Nat /\ o \in Nat /\ c \in Nat
      OBVIOUS
    <3>4. BitsStay(v, a, e, o, c)
      BY <3>2, <3>3, BitsKept, Zenon
    <3> QED
      BY <3>1, <3>4, Zenon DEF BitsStay
  <2>5. q[j] = Bits(v, a, ByteBits)
    BY <1>1, <1>3, <2>1, <2>2, Zenon DEF Holds, ByteOf
  <2> QED
    BY <1>2, <2>1, <2>2, <2>4, <2>5, Zenon DEF ByteOf
<1> QED
  BY <1>3, Zenon DEF Holds

(* A sequence of bytes is in the value if and only if its parts are.       *)
LEMMA HoldsParts ==
  ASSUME NEW v, NEW m \in Nat, NEW q \in Seq(Bytes), NEW r \in Seq(Bytes)
  PROVE  Holds(v, m, q \o r) <=> Holds(v, m, q) /\ Holds(v, m + Len(q), r)
<1>1. /\ Len(q) \in Nat /\ Len(r) \in Nat /\ Len(q \o r) = Len(q) + Len(r)
      /\ \A j \in 1..Len(q) : (q \o r)[j] = q[j]
      /\ \A j \in 1..Len(r) : (q \o r)[Len(q) + j] = r[j]
  OBVIOUS
<1>2. PICK a, b \in Nat : a = Len(q) /\ b = Len(r)
  BY <1>1
<1>3. ASSUME Holds(v, m, q \o r) PROVE Holds(v, m, q) /\ Holds(v, m + a, r)
  <2>1. \A j \in 1..a : q[j] = ByteOf(v, m + (j - 1))
    BY <1>1, <1>2, <1>3 DEF Holds
  <2>2. \A j \in 1..b : r[j] = ByteOf(v, (m + a) + (j - 1))
    <3> TAKE j \in 1..b
    <3>1. a + j \in 1..Len(q \o r) /\ m + ((a + j) - 1) = (m + a) + (j - 1)
      BY <1>1, <1>2
    <3> QED
      BY <1>1, <1>2, <1>3, <3>1, Zenon DEF Holds
  <2> QED
    BY <1>2, <2>1, <2>2, Zenon DEF Holds
<1>4. ASSUME Holds(v, m, q), Holds(v, m + a, r) PROVE Holds(v, m, q \o r)
  <2> SUFFICES ASSUME NEW j \in 1..Len(q \o r) PROVE (q \o r)[j] = ByteOf(v, m + (j - 1))
    BY Zenon DEF Holds
  <2>1. CASE j <= a
    <3>1. j \in 1..a
      BY <2>1
    <3> QED
      BY <1>1, <1>2, <1>4, <3>1, Zenon DEF Holds
  <2>2. CASE ~(j <= a)
    <3>1. PICK h \in 1..b : j = a + h
      <4>1. j - a \in 1..b /\ j = a + (j - a)
        BY <1>1, <1>2, <2>2
      <4> QED
        BY <4>1
    <3>2. (m + a) + (h - 1) = m + (j - 1)
      BY <3>1, <1>2
    <3> QED
      BY <1>1, <1>2, <1>4, <3>1, <3>2, Zenon DEF Holds
  <2> QED
    BY <2>1, <2>2
<1> QED
  BY <1>2, <1>3, <1>4, Zenon

-----------------------------------------------------------------------------
(* The table of the coder, and the list of codes.                          *)

(* The table of the coder after the codes of w, and the string it has read. *)
Entered(i, w, n, p, c) ==
  \E q \in w.from[n]..n-1 :
    c = Number(i, w, n, q) /\ w.code[q] = p[1] /\ Pixel(i)[w.at[q + 1]] = p[2]
TableAt(i, w, next, size, map) ==
  /\ next = Number(i, w, w.n, w.n)
  /\ Table(i, w, w.n)
  /\ SizeFor(i, EndCode(i) + (w.n - w.from[w.n]), size)
  /\ \A p \in DOMAIN map : Entered(i, w, w.n, p, map[p])
Reading(i, w, P, t) ==
  /\ t.firstPixelPassed =>
       w.at[w.n] < P /\ Spells(i, w, w.n, t.prefix, w.at[w.n], P - w.at[w.n])
  /\ ~t.firstPixelPassed => P = 0 /\ w.at[w.n] = 0

(* What a code is that stands for a string.                                *)
LEMMA SpellsCode ==
  ASSUME NEW i \in Images, NEW w, CodesOk(i, w), NEW k \in 0..w.n, Table(i, w, k),
         NEW code \in Nat, NEW a \in Nat, NEW len, Spells(i, w, k, code, a, len)
  PROVE  /\ len \in 1..(k - w.from[k]) + 1
         /\ code # ClearCode(i) /\ code # EndCode(i)
         /\ code <= EndCode(i) + (k - w.from[k])
<1> HIDE DEF Pow2
<1>1. /\ w.n \in Nat /\ w.at \in [Nat -> Nat] /\ w.from \in [Nat -> Nat]
      /\ ClearCode(i) \in Nat /\ EndCode(i) = ClearCode(i) + 1
  BY ImageFacts DEF CodesOk, TraceType
<1>2. PICK b, c, e \in Nat : b = w.from[k] /\ c = ClearCode(i) /\ e = EndCode(i) /\ b <= k /\ e = c + 1
  BY <1>1 DEF Table
<1>3. k \in Nat
  BY <1>1
<1>4. CASE code < ClearCode(i) /\ len = 1 /\ Pixel(i)[a] = code
  BY <1>2, <1>3, <1>4, ImageFacts
<1>5. CASE \E q \in w.from[k]..k-1 :
             /\ code = Number(i, w, k, q) /\ len = (w.at[q + 1] - w.at[q]) + 1
             /\ SameText(i, a, w.at[q], len)
  <2>1. PICK q \in b..k-1 :
             code = Number(i, w, k, q) /\ len = (w.at[q + 1] - w.at[q]) + 1
    BY <1>2, <1>5, Zenon
  <2>2. q \in Nat /\ q \in 0..w.n-1 /\ b <= q /\ q <= k - 1
    BY <1>1, <1>2, <1>3
  <2>3. CodeOk(i, w, q)
    BY <2>2, Zenon DEF CodesOk
  <2>4. w.from[q] = b /\ w.code[q] # ClearCode(i)
    BY <1>2, <2>1, Zenon DEF Table
  <2>5. w.at[q + 1] - w.at[q] \in 1..(q - b) + 1
    BY <2>3, <2>4, Zenon DEF CodeOk, Meant
  <2>6. code = e + 1 + (q - b)
    BY <1>2, <2>1, Zenon DEF Number
  <2>7. len \in 1..(k - b) + 1
    BY <2>1, <2>2, <2>5, <1>2, <1>3
  <2>8. code # c /\ code # e /\ code <= e + (k - b)
    BY <2>6, <2>2, <1>2, <1>3
  <2> QED
    BY <1>2, <2>7, <2>8, Zenon
<1> QED
  BY <1>4, <1>5, Zenon DEF Spells

(* A code stands for one string.                                           *)
LEMMA SameCode ==
  ASSUME NEW i \in Images, NEW w, TraceType(w), NEW k \in Nat, NEW n \in Nat, w.from[k] = w.from[n],
         NEW code \in Nat, NEW a \in Nat, NEW b \in Nat, NEW l, NEW len,
         Spells(i, w, k, code, a, l), Spells(i, w, n, code, b, len)
  PROVE  l = len /\ SameText(i, b, a, len)
<1> HIDE DEF Pow2
<1>1. PICK f, c, e \in Nat : f = w.from[k] /\ f = w.from[n] /\ c = ClearCode(i) /\ e = EndCode(i) /\ e = c + 1
  BY ImageFacts DEF TraceType
<1>2. CASE code < c /\ l = 1 /\ Pixel(i)[a] = code
  <2>1. CASE code < c /\ len = 1 /\ Pixel(i)[b] = code
    <3>1. \A d \in 0..1-1 : b + d = b /\ a + d = a
      OBVIOUS
    <3>2. SameText(i, b, a, 1)
      BY <1>2, <2>1, <3>1, Zenon DEF SameText
    <3> QED
      BY <1>2, <2>1, <3>2, Zenon
  <2>2. CASE \E q \in f..n-1 : code = Number(i, w, n, q)
    <3>1. PICK q \in f..n-1 : code = Number(i, w, n, q)
      BY <2>2
    <3>2. code = e + 1 + (q - f)
      BY <1>1, <3>1, Zenon DEF Number
    <3> QED
      BY <1>1, <1>2, <3>1, <3>2
  <2> QED
    BY <1>1, <2>1, <2>2, Zenon DEF Spells
<1>3. CASE \E q \in f..k-1 :
             /\ code = Number(i, w, k, q) /\ l = (w.at[q + 1] - w.at[q]) + 1
             /\ SameText(i, a, w.at[q], l)
  <2>1. PICK q \in f..k-1 :
             /\ code = Number(i, w, k, q) /\ l = (w.at[q + 1] - w.at[q]) + 1
             /\ SameText(i, a, w.at[q], l)
    BY <1>3
  <2>2. code = e + 1 + (q - f)
    BY <1>1, <2>1, Zenon DEF Number
  <2>3. CASE code < c
    BY <1>1, <2>1, <2>2, <2>3
  <2>4. CASE \E r \in f..n-1 :
             /\ code = Number(i, w, n, r) /\ len = (w.at[r + 1] - w.at[r]) + 1
             /\ SameText(i, b, w.at[r], len)
    <3>1. PICK r \in f..n-1 :
             /\ code = Number(i, w, n, r) /\ len = (w.at[r + 1] - w.at[r]) + 1
             /\ SameText(i, b, w.at[r], len)
      BY <2>4
    <3>2. code = e + 1 + (r - f)
      BY <1>1, <3>1, Zenon DEF Number
    <3>3. r = q
      BY <1>1, <2>1, <2>2, <3>1, <3>2
    <3>4. l = len
      BY <2>1, <3>1, <3>3, Zenon
    <3>5. SameText(i, a, w.at[q], len) /\ SameText(i, b, w.at[q], len)
      BY <2>1, <3>1, <3>3, <3>4, Zenon
    <3>6. SameText(i, b, a, len)
      BY <3>5, Zenon DEF SameText
    <3> QED
      BY <3>4, <3>6
  <2> QED
    BY <1>1, <2>3, <2>4, Zenon DEF Spells
<1> QED
  BY <1>1, <1>2, <1>3, Zenon DEF Spells

(* A pixel that continues a string of the table.                           *)
LEMMA ReadOn ==
  ASSUME NEW i \in Images, NEW w, CodesOk(i, w),
         NEW next, NEW size, NEW map, TableAt(i, w, next, size, map),
         NEW t, t.prefix \in Nat, NEW P \in Nat, Reading(i, w, P, t), t.firstPixelPassed,
         NEW Q \in Nat, Q = P + 1,
         NEW p \in DOMAIN map, p = <<t.prefix, Pixel(i)[P]>>
  PROVE  Spells(i, w, w.n, map[p], w.at[w.n], Q - w.at[w.n])
<1> HIDE DEF Pow2
<1>1. TraceType(w) /\ Table(i, w, w.n) /\ Entered(i, w, w.n, p, map[p])
  BY Zenon DEF CodesOk, TableAt
<1>2. PICK n, f, a \in Nat : n = w.n /\ f = w.from[n] /\ a = w.at[n]
  BY <1>1 DEF TraceType
<1>3. a < P /\ Spells(i, w, n, t.prefix, a, P - a)
  BY <1>2, Zenon DEF Reading
<1>4. PICK q \in f..n-1 :
        map[p] = Number(i, w, n, q) /\ w.code[q] = p[1] /\ Pixel(i)[w.at[q + 1]] = p[2]
  BY <1>1, <1>2, Zenon DEF Entered
<1>5. p[1] = t.prefix /\ p[2] = Pixel(i)[P]
  OBVIOUS
<1>6. q \in Nat /\ q \in 0..n-1 /\ q + 1 \in Nat
  BY <1>2
<1>7. PICK b, h \in Nat : b = w.at[q] /\ h = w.at[q + 1]
  BY <1>1, <1>6 DEF TraceType
<1>8. CodeOk(i, w, q) /\ w.from[q] = f /\ w.code[q] # ClearCode(i)
  BY <1>1, <1>2, <1>4, <1>6, Zenon DEF CodesOk, Table
<1>9. Spells(i, w, q, t.prefix, b, h - b) /\ h - b \in 1..(q - f) + 1
  BY <1>4, <1>5, <1>7, <1>8, Zenon DEF CodeOk, Meant
<1>10. h - b = P - a /\ SameText(i, a, b, P - a)
  <2>1. w.from[q] = w.from[n]
    BY <1>2, <1>8, Zenon
  <2> QED
    <3>1. /\ TraceType(w) /\ q \in Nat /\ n \in Nat /\ w.from[q] = w.from[n]
          /\ t.prefix \in Nat /\ b \in Nat /\ a \in Nat
          /\ Spells(i, w, q, t.prefix, b, h - b) /\ Spells(i, w, n, t.prefix, a, P - a)
      BY <1>1, <1>2, <1>3, <1>6, <1>7, <1>9, <2>1, Zenon
    <3> QED
      BY <3>1, SameCode
<1>11. Pixel(i)[h] = Pixel(i)[P]
  BY <1>4, <1>5, <1>7, Zenon
<1>12. SameText(i, a, b, Q - a)
  <2> SUFFICES ASSUME NEW d \in 0..(Q - a) - 1 PROVE Pixel(i)[a + d] = Pixel(i)[b + d]
    BY Zenon DEF SameText
  <2>1. CASE d = P - a
    <3>1. a + d = P /\ b + d = h
      BY <1>2, <1>3, <1>7, <1>10, <2>1
    <3> QED
      BY <1>11, <3>1, Zenon
  <2>2. CASE d # P - a
    <3>1. d \in 0..(P - a) - 1
      BY <1>2, <1>3, <2>2
    <3> QED
      BY <1>10, <3>1, Zenon DEF SameText
  <2> QED
    BY <2>1, <2>2
<1>13. Q - a = (h - b) + 1
  BY <1>2, <1>7, <1>10
<1> QED
  BY <1>2, <1>4, <1>7, <1>12, <1>13, Zenon DEF Spells

(* The code of the string read may follow.                                 *)
LEMMA EmitFollows ==
  ASSUME NEW i \in Images, NEW w, CodesOk(i, w),
         NEW next, NEW size, NEW map, TableAt(i, w, next, size, map), next < MaxCode,
         NEW t, t.prefix \in Nat, NEW P \in Nat, Reading(i, w, P, t), t.firstPixelPassed
  PROVE  MayFollow(i, w, t.prefix, size, P - w.at[w.n])
<1> HIDE DEF Pow2
<1>1. PICK n, f, a \in Nat : n = w.n /\ f = w.from[n] /\ a = w.at[n]
  BY DEF CodesOk, TraceType
<1>2. /\ Table(i, w, n) /\ Number(i, w, n, n) < MaxCode
      /\ SizeFor(i, EndCode(i) + (n - f), size)
      /\ Spells(i, w, n, t.prefix, a, P - a)
  BY <1>1, Zenon DEF TableAt, Reading
<1>3. n \in 0..n
  BY <1>1
<1>4. /\ P - a \in 1..(n - f) + 1 /\ t.prefix # ClearCode(i)
      /\ t.prefix <= EndCode(i) + (n - f)
  BY <1>1, <1>2, <1>3, SpellsCode, Zenon
<1>5. PICK z, e, c \in Nat : z = size /\ e = EndCode(i) /\ c = t.prefix
  BY <1>2, ImageFacts DEF SizeFor
<1>6. Pow2[z] \in Nat
  BY <1>5, PowerEquations
<1>7. e + (n - f) < Pow2[z] /\ c <= e + (n - f)
  BY <1>2, <1>4, <1>5, Zenon DEF SizeFor
<1>8. c < Pow2[z]
  BY <1>1, <1>5, <1>6, <1>7
<1> QED
  BY <1>1, <1>2, <1>4, <1>5, <1>8, Zenon DEF MayFollow

(* The table when the pair is entered, under the next code.                *)
WithPair(new, map, pair, next) ==
  new = [p \in DOMAIN map \union {pair} |-> IF p = pair THEN next ELSE map[p]]

(* Giving the next number to a pair: the table is that of the list which   *)
(* is one code longer, and the size grows when the number had just fitted. *)
LEMMA LearnsPair ==
  ASSUME NEW i \in Images, NEW w, CodesOk(i, w), NEW u, CodesOk(i, u),
         NEW next \in Nat, NEW size, NEW map, TableAt(i, w, next, size, map), next < MaxCode,
         NEW c \in Nat, c # ClearCode(i), NEW len \in Nat, OneMore(i, w, u, c, size, len),
         NEW pair, pair[1] = c, Pixel(i)[u.at[u.n]] = pair[2],
         NEW new, WithPair(new, map, pair, next)
  PROVE  TableAt(i, u, next + 1, IF next = Pow2[size] THEN size + 1 ELSE size, new)
<1> HIDE DEF Pow2
<1>1. PICK n, f, e, m, s \in Nat :
        n = w.n /\ f = w.from[n] /\ e = EndCode(i) /\ m = MinCodeSize(i) /\ s = size /\ f <= n
  <2>1. w.n \in Nat /\ w.from[w.n] \in Nat /\ w.from[w.n] <= w.n /\ size \in Nat
    BY ImageFacts DEF CodesOk, TraceType, TableAt, Table, SizeFor
  <2>2. EndCode(i) \in Nat /\ MinCodeSize(i) \in Nat
    BY ImageFacts
  <2> QED
    BY <2>1, <2>2
<1>2. /\ next = Number(i, w, n, n) /\ Table(i, w, n) /\ SizeFor(i, e + (n - f), s)
      /\ \A p \in DOMAIN map : Entered(i, w, n, p, map[p])
      /\ TraceType(w) /\ TraceType(u)
  BY <1>1, Zenon DEF TableAt, CodesOk
<1>3. n \in 0..n /\ n + 1 \in Nat
  BY <1>1
<1>4. /\ u.n = n + 1 /\ u.code[n] = c /\ u.from[n + 1] = f /\ u.from[n] = f
  BY <1>1, <1>3, Zenon DEF OneMore
<1>5. /\ Table(i, u, n) /\ \A q : Number(i, u, n, q) = Number(i, w, n, q)
  BY <1>1, <1>2, SameTable, Zenon
<1>6. \A q : Number(i, u, n + 1, q) = Number(i, w, n, q)
  BY <1>1, <1>4, Zenon DEF Number
<1>7. Table(i, u, n + 1)
  <2>1. u.from[n + 1] \in 0..n + 1
    BY <1>1, <1>4
  <2>2. ASSUME NEW q \in f..(n + 1) - 1 PROVE u.from[q] = f /\ u.code[q] # ClearCode(i)
    <3>1. CASE q = n
      BY <1>4, <3>1, Zenon
    <3>2. CASE q # n
      <4>1. q \in f..n-1
        BY <1>1, <3>2
      <4> QED
        BY <1>4, <1>5, <4>1, Zenon DEF Table
    <3> QED
      BY <3>1, <3>2
  <2> QED
    BY <1>4, <2>1, <2>2, Zenon DEF Table
<1>8. next = e + 1 + (n - f)
  BY <1>1, <1>2, Zenon DEF Number
<1>9. next + 1 = Number(i, u, n + 1, n + 1)
  <2>1. Number(i, u, n + 1, n + 1) = e + 1 + ((n + 1) - f)
    BY <1>1, <1>4, Zenon DEF Number
  <2> QED
    BY <1>1, <1>8, <2>1
<1>10. SizeFor(i, e + ((n + 1) - f), IF next = Pow2[s] THEN s + 1 ELSE s)
  <2>1. e + ((n + 1) - f) = next /\ e + (n - f) = next - 1
    BY <1>1, <1>8
  <2>2. /\ s \in m + 1 .. CodeBits /\ next - 1 < Pow2[s]
        /\ s > m + 1 => Pow2[s - 1] <= next - 1
    BY <1>1, <1>2, <2>1, Zenon DEF SizeFor
  <2>3. Pow2[s] \in Nat \ {0} /\ Pow2[s + 1] = 2 * Pow2[s] /\ CodeBits \in Nat
    BY PowerEquations, ImageFacts
  <2>4. CASE next = Pow2[s]
    <3>1. Pow2[s] < Pow2[CodeBits]
      BY <2>4 DEF MaxCode
    <3>2. s < CodeBits
      BY <2>3, <3>1, PowerGrows
    <3>3. s + 1 \in m + 1 .. CodeBits /\ (s + 1) - 1 = s
      BY <1>1, <2>2, <2>3, <3>2
    <3>4. next < Pow2[s + 1] /\ Pow2[s] <= next /\ next \in Nat
      BY <2>3, <2>4, <1>8
    <3>5. SizeFor(i, next, s + 1)
      BY <1>1, <3>3, <3>4, Zenon DEF SizeFor
    <3> QED
      BY <2>1, <2>4, <3>5, Zenon
  <2>5. CASE next # Pow2[s]
    <3>1. next < Pow2[s]
      BY <2>2, <2>3, <2>5
    <3>2. s > m + 1 => Pow2[s - 1] <= next
      <4>1. CASE s > m + 1
        <5>1. s - 1 \in Nat
          BY <1>1, <4>1
        <5>2. Pow2[s - 1] \in Nat
          BY <5>1, PowerEquations
        <5> QED
          BY <2>2, <4>1, <5>2
      <4> QED
        BY <4>1
    <3>3. SizeFor(i, next, s)
      BY <1>1, <2>2, <3>1, <3>2, Zenon DEF SizeFor
    <3> QED
      BY <2>1, <2>5, <3>3, Zenon
  <2> QED
    BY <2>4, <2>5
<1>11. ASSUME NEW p \in DOMAIN new PROVE Entered(i, u, n + 1, p, new[p])
  <2>1. CASE p = pair
    <3>1. new[p] = next /\ p[1] = c
      BY <1>11, <2>1 DEF WithPair
    <3>2. n \in u.from[n + 1]..(n + 1) - 1
      BY <1>1, <1>4
    <3>3. next = Number(i, u, n + 1, n) /\ Pixel(i)[u.at[n + 1]] = p[2]
      BY <1>2, <1>4, <1>6, <2>1, Zenon
    <3> QED
      BY <1>4, <3>1, <3>2, <3>3, Zenon DEF Entered
  <2>2. CASE p # pair
    <3>1. p \in DOMAIN map /\ new[p] = map[p]
      BY <1>11, <2>2 DEF WithPair
    <3>2. PICK q \in f..n-1 :
            map[p] = Number(i, w, n, q) /\ w.code[q] = p[1] /\ Pixel(i)[w.at[q + 1]] = p[2]
      BY <1>1, <1>2, <3>1, Zenon DEF Entered
    <3>3. q \in f..(n + 1) - 1 /\ q \in 0..n-1 /\ q + 1 \in 0..n
      BY <1>1
    <3>4. u.code[q] = w.code[q] /\ u.at[q + 1] = w.at[q + 1]
      BY <1>1, <3>3, Zenon DEF OneMore
    <3> QED
      BY <1>4, <1>6, <3>1, <3>2, <3>3, <3>4, Zenon DEF Entered
  <2> QED
    BY <2>1, <2>2
<1> QED
  BY <1>1, <1>4, <1>7, <1>9, <1>10, <1>11, Zenon DEF TableAt

(* When all codes are used the clear code may follow, and the table is     *)
(* empty after it.                                                         *)
LEMMA ClearFollows ==
  ASSUME NEW i \in Images, NEW w, CodesOk(i, w),
         NEW size \in Nat, NEW map, TableAt(i, w, MaxCode, size, map) \/ (w.n = 0 /\ size = MinCodeSize(i) + 1)
  PROVE  MayFollow(i, w, ClearCode(i), size, 0)
<1> HIDE DEF Pow2
<1>1. PICK n, f, e, c, m \in Nat :
        n = w.n /\ f = w.from[n] /\ e = EndCode(i) /\ c = ClearCode(i) /\ e = c + 1 /\ m = MinCodeSize(i)
  <2>1. w.n \in Nat /\ w.from[w.n] \in Nat
    BY DEF CodesOk, TraceType
  <2>2. EndCode(i) \in Nat /\ ClearCode(i) \in Nat /\ EndCode(i) = ClearCode(i) + 1 /\ MinCodeSize(i) \in Nat
    BY ImageFacts
  <2> QED
    BY <2>1, <2>2
<1>2. CodeBits \in Nat /\ m < CodeBits /\ Pow2[m + 1] = 2 * c /\ c >= 4
  <2>1. m <= ByteBits /\ ByteBits < CodeBits /\ ByteBits \in Nat /\ CodeBits \in Nat
    BY <1>1, ImageFacts, Zenon
  <2>2. Pow2[m + 1] = 2 * c /\ c >= 4
    BY <1>1, ImageFacts, Zenon
  <2> QED
    BY <1>1, <2>1, <2>2
<1>3. CASE n = 0 /\ size = m + 1
  <2>1. f = 0
    BY <1>1, <1>3, Zenon DEF CodesOk
  <2>2. Table(i, w, n)
    BY <1>1, <1>3, <2>1 DEF Table
  <2>3. e + (n - f) = c + 1 /\ c + 1 < Pow2[m + 1] /\ c < Pow2[m + 1] /\ m + 1 \in m + 1 .. CodeBits /\ ~(m + 1 > m + 1)
    BY <1>1, <1>2, <1>3, <2>1
  <2>4. SizeFor(i, e + (n - f), m + 1)
    BY <1>1, <2>3, Zenon DEF SizeFor
  <2> QED
    BY <1>1, <1>3, <2>2, <2>3, <2>4, Zenon DEF MayFollow
<1>4. CASE TableAt(i, w, MaxCode, size, map)
  <2>1. MaxCode = Number(i, w, n, n) /\ Table(i, w, n) /\ SizeFor(i, e + (n - f), size)
    BY <1>1, <1>4, Zenon DEF TableAt
  <2>2. size \in m + 1 .. CodeBits
    BY <1>1, <2>1, Zenon DEF SizeFor
  <2>3. Pow2[m + 1] <= Pow2[size] /\ Pow2[size] \in Nat
    <3>1. m + 1 \in Nat /\ m + 1 <= size
      BY <1>1, <2>2
    <3> QED
      BY <3>1, PowerGrows, PowerEquations
  <2>4. c < Pow2[size]
    BY <1>1, <1>2, <2>3
  <2> QED
    BY <1>1, <2>1, <2>4, Zenon DEF MayFollow
<1> QED
  BY <1>1, <1>3, <1>4, Zenon

(* After a clear code the table is empty, as that of the list is.          *)
LEMMA ClearedTable ==
  ASSUME NEW i \in Images, NEW w, TraceType(w), NEW u, TraceType(u),
         NEW size, OneMore(i, w, u, ClearCode(i), size, 0)
  PROVE  TableAt(i, u, EndCode(i) + 1, MinCodeSize(i) + 1, << >>)
<1> HIDE DEF Pow2
<1>1. PICK n, e, c, m \in Nat :
        n = w.n /\ e = EndCode(i) /\ c = ClearCode(i) /\ e = c + 1 /\ m = MinCodeSize(i)
  <2>1. w.n \in Nat
    BY DEF TraceType
  <2>2. EndCode(i) \in Nat /\ ClearCode(i) \in Nat /\ EndCode(i) = ClearCode(i) + 1 /\ MinCodeSize(i) \in Nat
    BY ImageFacts
  <2> QED
    BY <2>1, <2>2
<1>2. u.n = n + 1 /\ u.from[n + 1] = n + 1
  BY <1>1, Zenon DEF OneMore
<1>3. Number(i, u, n + 1, n + 1) = e + 1
  <2>1. Number(i, u, n + 1, n + 1) = e + 1 + ((n + 1) - (n + 1))
    BY <1>1, <1>2, Zenon DEF Number
  <2> QED
    BY <2>1, <1>1
<1>4. Table(i, u, n + 1)
  BY <1>1, <1>2 DEF Table
<1>5. SizeFor(i, e + ((n + 1) - (n + 1)), m + 1)
  <2>1. m <= ByteBits /\ ByteBits < CodeBits /\ ByteBits \in Nat /\ CodeBits \in Nat
    BY <1>1, ImageFacts, Zenon
  <2>2. Pow2[m + 1] = 2 * c /\ c >= 4
    BY <1>1, ImageFacts, Zenon
  <2>3. e + ((n + 1) - (n + 1)) < Pow2[m + 1] /\ m + 1 \in m + 1 .. CodeBits /\ ~(m + 1 > m + 1)
    BY <1>1, <2>1, <2>2
  <2> QED
    BY <1>1, <2>3, Zenon DEF SizeFor
<1>6. DOMAIN << >> = {}
  OBVIOUS
<1> QED
  BY <1>1, <1>2, <1>3, <1>4, <1>5, <1>6, Zenon DEF TableAt

(* The list y after the coder has learnt a pair: the codes, the table, the *)
(* bits left and all bytes that u held.                                    *)
LearntTrace(i, u, y, P, T, t) ==
  /\ CodesOk(i, y) /\ y.at[y.n] = P
  /\ TableAt(i, y, t.nextCode, t.codeSize, t.strmap)
  /\ BitsAt(y, T, t.partial, t.partialSize)
  /\ \A m \in Nat : \A q : Len(q) \in Nat /\ m + Len(q) <= T /\ Holds(u.value, m, q)
                             => Holds(y.value, m, q)

(* Learn, as a whole: an ordinary code was put out, and with its pair      *)
(* learnt there is a list again that the table belongs to - with a clear   *)
(* code more if the table was full.                                        *)
LEMMA LearnTrace ==
  ASSUME NEW i \in Images, NEW w, CodesOk(i, w),
         NEW t, CoderType(t), TableInv(i, t), TableAt(i, w, t.nextCode, t.codeSize, t.strmap),
         NEW P \in Nat, w.at[w.n] < P, t.prefix # ClearCode(i),
         NEW u, CodesOk(i, u), OneMore(i, w, u, t.prefix, t.codeSize, P - w.at[w.n]),
         NEW d, CoderShape(d), d.codeSize = t.codeSize, d.nextCode = t.nextCode, d.strmap = t.strmap,
         d.partialSize \in Nat, NEW T \in Nat, BitsAt(u, T, d.partial, d.partialSize),
         NEW pair, pair[1] = t.prefix, pair[2] = Pixel(i)[P],
         NEW l, l = Learn(i, d, pair)
  PROVE  \E y : LearntTrace(i, u, y, P, T, l)
<1> HIDE DEF Pow2
<1> DEFINE e == Enter(d, pair, d.nextCode = Pow2[d.codeSize])
<1>1. /\ CoderShape(e) /\ Elsewhere(d, e)
      /\ e.partial = d.partial /\ e.partialSize = d.partialSize /\ e.prefix = d.prefix
      /\ e.nextCode = d.nextCode + 1
      /\ e.codeSize = IF d.nextCode = Pow2[d.codeSize] THEN d.codeSize + 1 ELSE d.codeSize
      /\ e.strmap = [p \in DOMAIN d.strmap \union {pair} |->
                       IF p = pair THEN d.nextCode ELSE d.strmap[p]]
  BY EnterFacts
<1>2. l = ClearWhenOut(i, e)
  BY Zenon DEF Learn
<1> HIDE DEF e
<1>3. /\ t.nextCode \in Nat /\ t.codeSize \in Nat /\ t.prefix \in Nat /\ t.nextCode < MaxCode
      /\ MaxCode \in Nat
  BY ImageFacts DEF CoderType, TableInv
<1>4. PICK a, o \in Nat : a = w.at[w.n] /\ o = w.off[w.n]
  BY DEF CodesOk, TraceType
<1>5. P - a \in Nat /\ a + (P - a) = P
  BY <1>4
<1>6. u.n = w.n + 1 /\ u.at[u.n] = P
  BY <1>4, <1>5, Zenon DEF OneMore
<1>7. TableAt(i, u, e.nextCode, e.codeSize, e.strmap)
  <2>1. Pixel(i)[u.at[u.n]] = pair[2]
    BY <1>6, Zenon
  <2>2. WithPair(e.strmap, t.strmap, pair, t.nextCode)
    BY <1>1, Zenon DEF WithPair
  <2>3. TableAt(i, u, t.nextCode + 1, IF t.nextCode = Pow2[t.codeSize] THEN t.codeSize + 1 ELSE t.codeSize,
                e.strmap)
    <3>1. OneMore(i, w, u, t.prefix, t.codeSize, P - a)
      BY <1>4, Zenon
    <3> QED
      BY <1>3, <1>5, <2>1, <2>2, <3>1, LearnsPair, Zenon
  <2> QED
    BY <1>1, <2>3, Zenon
<1>8. BitsAt(u, T, e.partial, e.partialSize)
  BY <1>1, Zenon
<1>9. CASE e.nextCode # MaxCode
  <2>1. l = e
    BY <1>2, <1>9, Zenon DEF ClearWhenOut
  <2>2. LearntTrace(i, u, u, P, T, e)
    BY <1>6, <1>7, <1>8, Zenon DEF LearntTrace
  <2> QED
    BY <2>1, <2>2, Zenon
<1>10. CASE e.nextCode = MaxCode
  <2> DEFINE clear == ClearCode(i)
             s == e.codeSize
  <2>1. clear \in Nat /\ s \in Nat /\ 0 \in Nat
    BY <1>1, <1>3, ImageFacts
  <2>2. MayFollow(i, u, clear, s, 0)
    <3>1. TableAt(i, u, MaxCode, s, e.strmap)
      BY <1>7, <1>10, Zenon
    <3> QED
      BY <2>1, <3>1, ClearFollows, Zenon
  <2>3. PICK y : OneMore(i, u, y, clear, s, 0) /\ CodesOk(i, y)
    BY <2>1, <2>2, AddCode, Zenon
  <2>4. PICK c : c = PutCode(e, clear)
    OBVIOUS
  <2>5. /\ CoderShape(c) /\ c.partial = e.partial + clear * Pow2[e.partialSize]
        /\ c.partialSize = e.partialSize + s
    BY <1>1, <2>4, PutFacts
  <2>6. l = ClearedCompressor(i, c)
    BY <1>2, <1>10, <2>4, Zenon DEF ClearWhenOut
  <2>7. /\ l.partial = c.partial /\ l.partialSize = c.partialSize
        /\ l.nextCode = EndCode(i) + 1 /\ l.codeSize = MinCodeSize(i) + 1 /\ l.strmap = << >>
    BY <2>5, <2>6, ClearFacts
  <2> HIDE DEF clear, s
  <2>8. PICK z \in Nat : z = e.partialSize
    BY <1>1
  <2>9. BitsAt(y, T, l.partial, l.partialSize)
    <3>1. BitsAt(u, T, e.partial, z)
      BY <1>8, <2>8, Zenon
    <3>2. BitsAt(y, T, e.partial + clear * Pow2[z], z + s)
      BY <2>1, <2>3, <3>1, PutBits, Zenon
    <3> QED
      BY <2>5, <2>7, <2>8, <3>2, Zenon
  <2>10. TableAt(i, y, l.nextCode, l.codeSize, l.strmap)
    <3>1. TraceType(u) /\ TraceType(y)
      BY <2>3, Zenon DEF CodesOk
    <3> QED
      BY <2>3, <2>7, <3>1, ClearedTable, Zenon DEF clear
  <2>11. y.at[y.n] = P
    <3>1. y.at[y.n] = P + 0
      BY <1>6, <2>3, Zenon DEF OneMore
    <3> QED
      BY <3>1
  <2>12. ASSUME NEW m \in Nat, NEW q, Len(q) \in Nat, m + Len(q) <= T, Holds(u.value, m, q)
         PROVE  Holds(y.value, m, q)
    <3>1. u.off[u.n] = ByteBits * T + z
      BY <1>8, <2>8, Zenon DEF BitsAt
    <3> QED
      BY <2>1, <2>3, <2>12, <3>1, HoldsStill, Zenon
  <2>13. LearntTrace(i, u, y, P, T, l)
    BY <2>3, <2>9, <2>10, <2>11, <2>12, Zenon DEF LearntTrace
  <2> QED
    BY <2>13
<1> QED
  BY <1>9, <1>10

-----------------------------------------------------------------------------
(* The coder, its list of codes and the file, from step to step.           *)

(* The coder t, the place at and the blocks f are those of some list of    *)
(* codes and of the first P pixels.                                        *)
CoderTrace(i, w, P, t, at, f) ==
  /\ CodesOk(i, w)
  /\ Scanned(i, P, t, at)
  /\ TableAt(i, w, t.nextCode, t.codeSize, t.strmap)
  /\ Reading(i, w, P, t)
  /\ BitsAt(w, Len(f) * BlockLen + Len(at.buf), t.partial, t.partialSize)
  /\ Written(w.value, f, at.buf)
HasTrace(i, t, at, f) == \E w, P : P \in Nat /\ CoderTrace(i, w, P, t, at, f)

(* The list of no codes.                                                   *)
LEMMA NoCodes ==
  ASSUME NEW i \in Images
  PROVE  \E w : CodesOk(i, w) /\ w.n = 0 /\ BitsAt(w, 0, 0, 0) /\ w.at[0] = 0
<1> HIDE DEF Pow2
<1>1. PICK z : z = [k \in Nat |-> 0]
  OBVIOUS
<1>2. PICK w : w = [value |-> 0, n |-> 0, code |-> z, size |-> z, off |-> z, at |-> z, from |-> z]
  OBVIOUS
<1>3. /\ w.value = 0 /\ w.n = 0 /\ w.code = z /\ w.size = z /\ w.off = z /\ w.at = z /\ w.from = z
  BY <1>2
<1>4. z \in [Nat -> Nat] /\ z[0] = 0
  BY <1>1
<1>5. TraceType(w)
  BY <1>3, <1>4 DEF TraceType
<1>6. Pow2[0] = 1 /\ 0 < 1 /\ 0 \div 1 = 0
  BY PowerEquations
<1>7. CodesOk(i, w)
  <2>1. 0..w.n-1 = {}
    BY <1>3
  <2>2. w.value < Pow2[w.off[w.n]]
    BY <1>3, <1>4, <1>6, Zenon
  <2> QED
    BY <1>3, <1>4, <1>5, <2>1, <2>2, Zenon DEF CodesOk
<1>8. BitsAt(w, 0, 0, 0)
  <2>1. ByteBits * 0 = 0 /\ 0 + 0 = 0
    BY ByteWidth
  <2> QED
    BY <1>3, <1>4, <1>6, <2>1, Zenon DEF BitsAt
<1> QED
  BY <1>3, <1>4, <1>7, <1>8, Zenon

(* What CompressStart leaves in the compressor: the clear code waits in    *)
(* its bits.                                                               *)
LEMMA StartFields ==
  ASSUME NEW i \in Images, NEW t, t = StartedCompressor(i)
  PROVE  /\ t.partial = ClearCode(i) /\ t.partialSize = MinCodeSize(i) + 1
         /\ t.codeSize = MinCodeSize(i) + 1 /\ t.nextCode = EndCode(i) + 1
         /\ t.strmap = << >> /\ t.firstPixelPassed = FALSE
         /\ \E s : CoderType(s) /\ t = FillBuffer(i, s)
<1> HIDE DEF Pow2
<1> DEFINE m == MinCodeSize(i)
           clear == ClearCode(i)
<1>1. m \in Nat /\ clear \in Nat /\ EndCode(i) = clear + 1
  BY ImageFacts
<1>2. PICK none, size, first, no :
         none = << >> /\ size = m + 1 /\ first = EndCode(i) + 1 /\ no = FALSE
  OBVIOUS
<1>3. PICK s : s = [partial |-> clear, partialSize |-> size,
                    codeSize |-> size, nextCode |-> first,
                    prefix |-> 0, strmap |-> none, firstPixelPassed |-> no,
                    bufferPos |-> 0, bufferShift |-> 0]
  OBVIOUS
<1>4. t = FillBuffer(i, s)
  BY <1>2, <1>3, Zenon DEF StartedCompressor
<1>5. /\ s.partial = clear /\ s.partialSize = m + 1 /\ s.codeSize = m + 1
      /\ s.nextCode = EndCode(i) + 1 /\ s.prefix = 0 /\ s.strmap = << >>
      /\ s.firstPixelPassed = FALSE /\ s.bufferPos = 0 /\ s.bufferShift = 0
  BY <1>2, <1>3
<1> HIDE DEF m, clear
<1>6. CoderShape(s)
  BY <1>3, ObjectShape, Zenon
<1>7. CoderType(s)
  <2>1. /\ s.partial \in Nat /\ s.partialSize \in Nat /\ s.codeSize \in Nat
        /\ s.nextCode \in Nat /\ s.prefix \in Nat
        /\ s.bufferPos \in Nat /\ s.bufferShift \in Nat
    BY <1>1, <1>5
  <2>2. s.firstPixelPassed \in BOOLEAN
    BY <1>5
  <2> QED
    BY <1>6, <2>1, <2>2, Zenon DEF CoderType
<1>8. /\ t.partial = s.partial /\ t.partialSize = s.partialSize /\ t.codeSize = s.codeSize
      /\ t.nextCode = s.nextCode /\ t.prefix = s.prefix /\ t.strmap = s.strmap
  BY <1>4, <1>7, FillKeeps
<1>9. t.firstPixelPassed = s.firstPixelPassed
  BY <1>4, <1>7, FillMoves
<1> QED
  BY <1>4, <1>5, <1>7, <1>8, <1>9, Zenon DEF m, clear

(* When a save begins the list is one clear code.                          *)
LEMMA InitTrace == Init => HasTrace(image, enc, save, file)
<1> SUFFICES ASSUME Init PROVE HasTrace(image, enc, save, file)
  OBVIOUS
<1> HIDE DEF Pow2
<1>1. /\ image \in Images /\ enc = StartedCompressor(image)
      /\ save = [y |-> 0, pass |-> 0, buf |-> << >>] /\ file = << >>
  BY DEF Init, SaveInit
<1>2. PICK i \in Images : i = image
  BY <1>1
<1>3. /\ enc.partial = ClearCode(i) /\ enc.partialSize = MinCodeSize(i) + 1
      /\ enc.codeSize = MinCodeSize(i) + 1 /\ enc.nextCode = EndCode(i) + 1
      /\ enc.strmap = << >> /\ enc.firstPixelPassed = FALSE
      /\ \E s : CoderType(s) /\ enc = FillBuffer(i, s)
  BY <1>1, <1>2, StartFields, Zenon
<1>4. PICK w : CodesOk(i, w) /\ w.n = 0 /\ BitsAt(w, 0, 0, 0) /\ w.at[0] = 0
  BY NoCodes
<1> DEFINE clear == ClearCode(i)
           s == MinCodeSize(i) + 1
<1>5. clear \in Nat /\ s \in Nat /\ 0 \in Nat
  BY ImageFacts
<1>6. MayFollow(i, w, clear, s, 0)
  BY <1>4, <1>5, ClearFollows, Zenon
<1>7. PICK u : OneMore(i, w, u, clear, s, 0) /\ CodesOk(i, u)
  BY <1>4, <1>5, <1>6, AddCode, Zenon
<1>8. TableAt(i, u, enc.nextCode, enc.codeSize, enc.strmap)
  <2>1. TraceType(w) /\ TraceType(u)
    BY <1>4, <1>7, Zenon DEF CodesOk
  <2> QED
    BY <1>3, <1>7, <2>1, ClearedTable, Zenon
<1> HIDE DEF clear, s
<1>9. u.at[u.n] = 0
  <2>1. u.at[u.n] = 0 + 0
    BY <1>4, <1>7, Zenon DEF OneMore
  <2> QED
    BY <2>1
<1>10. BitsAt(u, 0, enc.partial, enc.partialSize)
  <2>1. BitsAt(u, 0, 0 + clear * Pow2[0], 0 + s)
    BY <1>4, <1>5, <1>7, PutBits, Zenon
  <2>2. Pow2[0] = 1
    BY PowerEquations
  <2>3. 0 + clear * 1 = clear /\ 0 + s = s
    BY <1>5
  <2> QED
    BY <1>3, <2>1, <2>2, <2>3, Zenon DEF clear, s
<1>11. Scanned(i, 0, enc, save)
  <2>1. save.y = 0 /\ save.pass = 0
    BY <1>1
  <2> QED
    BY <1>3, <2>1, ScanStart, Zenon
<1>12. Reading(i, u, 0, enc)
  BY <1>3, <1>9, Zenon DEF Reading
<1>13. Len(file) = 0 /\ Len(save.buf) = 0 /\ Len(file) * BlockLen + Len(save.buf) = 0
  BY <1>1, ByteWidth
<1>14. Written(u.value, file, save.buf)
  BY <1>13 DEF Written, Holds
<1>15. CoderTrace(i, u, 0, enc, save, file)
  BY <1>7, <1>8, <1>10, <1>11, <1>12, <1>13, <1>14, Zenon DEF CoderTrace
<1> QED
  BY <1>2, <1>5, <1>15, Zenon DEF HasTrace

(* One more pixel is read, into a prefix x that spells what was read.      *)
LEMMA PixelTrace ==
  ASSUME CoderInv, InLine,
         NEW w, NEW P \in Nat, CoderTrace(image, w, P, enc, save, file),
         NEW Q \in Nat, Q = P + 1, w.at[w.n] < Q,
         NEW x \in Nat, Spells(image, w, w.n, x, w.at[w.n], Q - w.at[w.n]),
         NEW r, Repixeled(enc, r, x), r.firstPixelPassed
  PROVE  HasTrace(image, Advance(image, r), save, file)
<1> HIDE DEF Pow2
<1>1. /\ image \in Images /\ CoderType(enc)
      /\ PlaceInv(image, enc) /\ enc.bufferPos < LineBytes(image)
      /\ RowInv(image, save, enc)
  BY OneMorePixel
<1>2. CoderType(r) /\ r.bufferPos = enc.bufferPos /\ r.bufferShift = enc.bufferShift
  BY <1>1, Zenon DEF Repixeled, CoderType
<1>3. PICK u : u = Advance(image, r)
  OBVIOUS
<1>4. PlaceInv(image, r) /\ r.bufferPos < LineBytes(image)
  BY <1>1, <1>2, Zenon DEF PlaceInv
<1>5. /\ u.partial = r.partial /\ u.partialSize = r.partialSize /\ u.codeSize = r.codeSize
      /\ u.nextCode = r.nextCode /\ u.prefix = r.prefix /\ u.strmap = r.strmap
      /\ u.firstPixelPassed = r.firstPixelPassed
  <2>1. image \in Images /\ CoderType(r) /\ PlaceInv(image, r) /\ r.bufferPos < LineBytes(image)
    BY <1>1, <1>2, <1>4
  <2>2. /\ u.partial = r.partial /\ u.partialSize = r.partialSize /\ u.codeSize = r.codeSize
        /\ u.nextCode = r.nextCode /\ u.prefix = r.prefix /\ u.strmap = r.strmap
    BY <1>3, <2>1, AdvanceKeeps
  <2>3. u.firstPixelPassed = r.firstPixelPassed
    BY <1>3, <2>1, AdvanceMoves
  <2> QED
    BY <2>2, <2>3, Zenon
<1>6. Scanned(image, Q, u, save)
  <2>1. Scanned(image, P, enc, save)
    BY Zenon DEF CoderTrace
  <2>2. Scanned(image, P + 1, u, save)
    BY <1>1, <1>2, <1>3, <2>1, ScanPixel, Zenon
  <2> QED
    BY <2>2
<1>7. TableAt(image, w, u.nextCode, u.codeSize, u.strmap)
  BY <1>5, Zenon DEF CoderTrace, Repixeled
<1>8. Reading(image, w, Q, u)
  <2>1. u.firstPixelPassed = TRUE /\ u.prefix = x
    BY <1>5 DEF Repixeled
  <2>2. u.firstPixelPassed /\ Spells(image, w, w.n, u.prefix, w.at[w.n], Q - w.at[w.n])
    BY <2>1
  <2> QED
    BY <2>2, Zenon DEF Reading
<1>9. BitsAt(w, Len(file) * BlockLen + Len(save.buf), u.partial, u.partialSize)
  BY <1>5, Zenon DEF CoderTrace, Repixeled
<1>10. CoderTrace(image, w, Q, u, save, file)
  BY <1>6, <1>7, <1>8, <1>9, Zenon DEF CoderTrace
<1> QED
  BY <1>3, <1>10, Zenon DEF HasTrace

(* The pixel under the coder is the next one.                              *)
LEMMA NextPixelIs ==
  ASSUME CoderInv, InLine, NEW w, NEW P \in Nat, CoderTrace(image, w, P, enc, save, file)
  PROVE  /\ Pixel(image)[P] = CurrentPixel
         /\ CurrentPixel \in Nat /\ CurrentPixel < ClearCode(image)
<1>1. /\ image \in Images /\ CoderType(enc)
      /\ PlaceInv(image, enc) /\ enc.bufferPos < LineBytes(image)
      /\ RowInv(image, save, enc)
      /\ CurrentPixel \in Nat /\ CurrentPixel < ClearCode(image)
  BY OneMorePixel
<1>2. Scanned(image, P, enc, save)
  BY Zenon DEF CoderTrace
<1>3. CurrentPixel = image.pixel[<<save.y, Column(image, enc)>>]
  BY Zenon DEF CurrentPixel, Column
<1>4. PICK u : u = Advance(image, enc)
  OBVIOUS
<1>5. Pixel(image)[P] = image.pixel[<<save.y, Column(image, enc)>>]
  <2>1. /\ enc.bufferPos = enc.bufferPos /\ enc.bufferShift = enc.bufferShift
        /\ save.y = save.y /\ save.pass = save.pass
    OBVIOUS
  <2> QED
    BY <1>1, <1>2, <1>4, <2>1, ScanPixel
<1> QED
  BY <1>1, <1>3, <1>5, Zenon

(* The first pixel begins the string.                                      *)
LEMMA FirstPixelTrace ==
  ASSUME CoderInv, FirstPixel, HasTrace(image, enc, save, file)
  PROVE  HasTrace(image', enc', save', file')
<1>1. /\ InLine /\ ~enc.firstPixelPassed
      /\ enc' = Advance(image, [enc EXCEPT !.firstPixelPassed = TRUE, !.prefix = CurrentPixel])
      /\ UNCHANGED <<image, save, file>>
  BY DEF FirstPixel, fileVars
<1>2. PICK w, P : P \in Nat /\ CoderTrace(image, w, P, enc, save, file)
  BY Zenon DEF HasTrace
<1>3. PICK x : x = CurrentPixel
  OBVIOUS
<1>4. Pixel(image)[P] = x /\ x \in Nat /\ x < ClearCode(image)
  BY <1>1, <1>2, <1>3, NextPixelIs, Zenon
<1>5. PICK r : r = [enc EXCEPT !.firstPixelPassed = TRUE, !.prefix = x]
  OBVIOUS
<1>6. Repixeled(enc, r, x) /\ r.firstPixelPassed
  <2>1. CoderShape(enc)
    BY DEF CoderInv, CoderOk, CoderType
  <2>2. CoderShape(r)
    BY <1>5, <2>1 DEF CoderShape
  <2>3. /\ r.firstPixelPassed = TRUE /\ r.prefix = x
        /\ r.partial = enc.partial /\ r.partialSize = enc.partialSize
        /\ r.codeSize = enc.codeSize /\ r.nextCode = enc.nextCode /\ r.strmap = enc.strmap
        /\ r.bufferPos = enc.bufferPos /\ r.bufferShift = enc.bufferShift
    BY <1>5, <2>1 DEF CoderShape
  <2> QED
    BY <2>2, <2>3 DEF Repixeled
<1>7. P = 0 /\ w.at[w.n] = 0
  BY <1>1, <1>2, Zenon DEF CoderTrace, Reading
<1>11. PICK Q \in Nat : Q = P + 1
  BY <1>2
<1>8. Spells(image, w, w.n, x, w.at[w.n], Q - w.at[w.n]) /\ w.at[w.n] < Q
  <2>1. Q - w.at[w.n] = 1 /\ w.at[w.n] = P /\ w.at[w.n] < Q
    BY <1>7, <1>11
  <2> QED
    BY <1>4, <2>1, Zenon DEF Spells
<1>9. HasTrace(image, Advance(image, r), save, file)
  BY <1>1, <1>2, <1>4, <1>6, <1>8, <1>11, PixelTrace, Zenon
<1>10. enc' = Advance(image, r)
  BY <1>1, <1>3, <1>5, Zenon
<1> QED
  BY <1>1, <1>9, <1>10

(* A pixel that makes a known pair makes the string longer, and no code    *)
(* leaves.                                                                 *)
LEMMA ExtendPrefixTrace ==
  ASSUME CoderInv, ExtendPrefix, HasTrace(image, enc, save, file)
  PROVE  HasTrace(image', enc', save', file')
<1> DEFINE pair == <<enc.prefix, CurrentPixel>>
<1>1. /\ InLine /\ pair \in DOMAIN enc.strmap /\ enc.firstPixelPassed
      /\ enc' = Advance(image, [enc EXCEPT !.prefix = enc.strmap[pair]])
      /\ UNCHANGED <<image, save, file>>
  <2>1. CoderShape(enc)
    BY DEF CoderInv, CoderOk, CoderType
  <2>2. [enc EXCEPT !.prefix = enc.strmap[<<@, CurrentPixel>>]]
          = [enc EXCEPT !.prefix = enc.strmap[pair]]
    BY <2>1 DEF CoderShape
  <2> QED
    BY <2>2 DEF ExtendPrefix, fileVars
<1>2. PICK w, P : P \in Nat /\ CoderTrace(image, w, P, enc, save, file)
  BY Zenon DEF HasTrace
<1>3. PICK x : x = enc.strmap[pair]
  OBVIOUS
<1>4. Pixel(image)[P] = CurrentPixel
  BY <1>1, <1>2, NextPixelIs, Zenon
<1>5. /\ image \in Images /\ enc.prefix \in Nat /\ x \in Nat
  <2>1. image \in Images /\ CoderType(enc) /\ TableInv(image, enc)
    BY DEF CoderInv, CoderOk
  <2>2. x \in EndCode(image) + 1 .. enc.nextCode - 1
    BY <1>1, <1>3, <2>1 DEF TableInv
  <2>3. EndCode(image) \in Nat /\ enc.nextCode \in Nat /\ enc.prefix \in Nat
    BY <2>1, ImageFacts DEF CoderType
  <2> QED
    BY <2>1, <2>2, <2>3
<1>12. PICK Q \in Nat : Q = P + 1
  BY <1>2
<1>6. Spells(image, w, w.n, x, w.at[w.n], Q - w.at[w.n])
  <2>1. /\ CodesOk(image, w) /\ TableAt(image, w, enc.nextCode, enc.codeSize, enc.strmap)
        /\ Reading(image, w, P, enc)
    BY <1>2, Zenon DEF CoderTrace
  <2>2. pair = <<enc.prefix, Pixel(image)[P]>>
    BY <1>4
  <2> HIDE DEF pair
  <2> QED
    BY <1>1, <1>2, <1>3, <1>5, <1>12, <2>1, <2>2, ReadOn, Zenon
<1>7. w.at[w.n] < Q
  <2>1. w.at[w.n] < P /\ w.at[w.n] \in Nat
    BY <1>1, <1>2 DEF CoderTrace, Reading, CodesOk, TraceType
  <2> QED
    BY <1>2, <1>12, <2>1
<1> HIDE DEF pair
<1>8. PICK r : r = [enc EXCEPT !.prefix = x]
  OBVIOUS
<1>9. Repixeled(enc, r, x) /\ r.firstPixelPassed
  <2>1. CoderShape(enc) /\ enc.firstPixelPassed \in BOOLEAN
    BY DEF CoderInv, CoderOk, CoderType
  <2>2. CoderShape(r)
    BY <1>8, <2>1 DEF CoderShape
  <2>3. /\ r.firstPixelPassed = enc.firstPixelPassed /\ r.prefix = x
        /\ r.partial = enc.partial /\ r.partialSize = enc.partialSize
        /\ r.codeSize = enc.codeSize /\ r.nextCode = enc.nextCode /\ r.strmap = enc.strmap
        /\ r.bufferPos = enc.bufferPos /\ r.bufferShift = enc.bufferShift
    BY <1>8, <2>1 DEF CoderShape
  <2> QED
    BY <1>1, <2>1, <2>2, <2>3, Zenon DEF Repixeled
<1>10. HasTrace(image, Advance(image, r), save, file)
  BY <1>1, <1>2, <1>5, <1>6, <1>7, <1>9, <1>12, PixelTrace, Zenon
<1>11. enc' = Advance(image, r)
  BY <1>1, <1>3, <1>8, Zenon
<1> QED
  BY <1>1, <1>10, <1>11

(* Between two lines nothing is lost: the next line goes on with the       *)
(* string and with the bits of the line before.                            *)
LEMMA FinishLineTrace ==
  ASSUME CoderInv, FinishLine, HasTrace(image, enc, save, file)
  PROVE  HasTrace(image', enc', save', file')
<1> HIDE DEF Pow2
<1>1. /\ save.y < image.height /\ ~InLine
      /\ save' = NextRow(image, save)
      /\ enc' = IF save'.y < image.height THEN FillBuffer(image, enc) ELSE enc
      /\ UNCHANGED <<image, file>>
  BY DEF FinishLine, fileVars
<1>2. image \in Images /\ CoderType(enc) /\ RowInv(image, save, enc)
  BY DEF CoderInv, CoderOk
<1>3. PICK w, P : P \in Nat /\ CoderTrace(image, w, P, enc, save, file)
  BY Zenon DEF HasTrace
<1>4. PICK to, u : to = save' /\ u = enc'
  OBVIOUS
<1>5. to = NextRow(image, save) /\ u = IF to.y < image.height THEN FillBuffer(image, enc) ELSE enc
  BY <1>1, <1>4, Zenon
<1>6. Scanned(image, P, u, to)
  <2>1. Scanned(image, P, enc, save) /\ ~(enc.bufferPos < LineBytes(image))
    BY <1>1, <1>3, Zenon DEF CoderTrace, InLine
  <2> QED
    BY <1>1, <1>2, <1>5, <2>1, ScanLine, Zenon
<1>7. to.buf = save.buf
  BY <1>1, <1>2, <1>5, NextRowFacts, Zenon
<1>8. /\ u.partial = enc.partial /\ u.partialSize = enc.partialSize /\ u.codeSize = enc.codeSize
      /\ u.nextCode = enc.nextCode /\ u.prefix = enc.prefix /\ u.strmap = enc.strmap
      /\ u.firstPixelPassed = enc.firstPixelPassed
  <2>1. CASE to.y < image.height
    <3>1. u = FillBuffer(image, enc)
      BY <1>5, <2>1, Zenon
    <3> QED
      BY <1>2, <3>1, FillKeeps, FillMoves
  <2>2. CASE ~(to.y < image.height)
    BY <1>5, <2>2, Zenon
  <2> QED
    BY <2>1, <2>2
<1>9. CoderTrace(image, w, P, u, to, file)
  BY <1>3, <1>6, <1>7, <1>8, Zenon DEF CoderTrace, Reading
<1> QED
  BY <1>1, <1>3, <1>4, <1>9, Zenon DEF HasTrace

-----------------------------------------------------------------------------
(* Putting out a code.                                                     *)

(* What T bytes hold of one number they hold of another.                   *)
Keeps(T, v, z) ==
  \A m \in Nat : \A q : Len(q) \in Nat /\ m + Len(q) <= T /\ Holds(v, m, q) => Holds(z, m, q)

(* Where the blocks begin.                                                 *)
LEMMA BlockPlaces ==
  ASSUME NEW n \in Nat
  PROVE  /\ n * BlockLen \in Nat
         /\ \A b \in 1..n : (b - 1) * BlockLen \in Nat /\ (b - 1) * BlockLen + BlockLen <= n * BlockLen
         /\ (n + 1) * BlockLen = n * BlockLen + BlockLen
<1>1. PICK l \in Nat : l = BlockLen
  BY ByteWidth
<1>2. n * l \in Nat /\ (n + 1) * l = n * l + l
  BY <1>1
<1>3. ASSUME NEW b \in 1..n PROVE (b - 1) * l \in Nat /\ (b - 1) * l + l <= n * l
  <2>1. PICK a, h \in Nat : a = b - 1 /\ n = a + 1 + h
    <3>1. b - 1 \in Nat /\ n - b \in Nat /\ n = (b - 1) + 1 + (n - b)
      OBVIOUS
    <3> QED
      BY <3>1
  <2>2. n * l = a * l + l + h * l /\ a * l \in Nat /\ h * l \in Nat
    BY <2>1
  <2>3. PICK x, y, z \in Nat : x = a * l /\ y = h * l /\ z = n * l
    BY <1>2, <2>2
  <2> QED
    BY <2>1, <2>2, <2>3
<1> QED
  BY <1>1, <1>2, <1>3, Zenon

(* Blocks written stay those of a value that only grew above them.         *)
LEMMA WrittenKept ==
  ASSUME NEW T \in Nat, NEW v, NEW z, Keeps(T, v, z), NEW f, Len(f) \in Nat,
         \A b \in 1..Len(f) : Len(f[b].bytes) = BlockLen,
         NEW buf, Len(buf) \in Nat, Len(f) * BlockLen + Len(buf) <= T, Written(v, f, buf)
  PROVE  Written(z, f, buf)
<1>1. PICK n, l \in Nat : n = Len(f) /\ l = Len(buf)
  OBVIOUS
<1>2. n * BlockLen \in Nat /\ n * BlockLen + l <= T /\ BlockLen \in Nat
  BY <1>1, BlockPlaces, ByteWidth, Zenon
<1>3. Holds(z, n * BlockLen, buf)
  BY <1>1, <1>2, Zenon DEF Keeps, Written
<1>4. ASSUME NEW b \in 1..n PROVE Holds(z, (b - 1) * BlockLen, f[b].bytes)
  <2>1. (b - 1) * BlockLen \in Nat /\ (b - 1) * BlockLen + BlockLen <= n * BlockLen
    BY BlockPlaces, Zenon
  <2>2. PICK x, y \in Nat : x = (b - 1) * BlockLen /\ y = n * BlockLen
    BY <1>2, <2>1
  <2>3. x + BlockLen <= T
    BY <1>1, <1>2, <2>1, <2>2
  <2>4. Holds(v, x, f[b].bytes) /\ Len(f[b].bytes) = BlockLen
    BY <1>1, <1>4, <2>2, Zenon DEF Written
  <2> QED
    BY <1>2, <2>2, <2>3, <2>4, Zenon DEF Keeps
<1> QED
  BY <1>1, <1>3, <1>4, Zenon DEF Written

(* A full block is written.                                                *)
LEMMA WrittenBlock ==
  ASSUME NEW v, NEW f \in Seq(Blocks), NEW bytes \in Seq(Bytes), Len(bytes) = BlockLen,
         Written(v, f, bytes), NEW g, g = f \o <<Block(bytes)>>
  PROVE  Written(v, g, << >>) /\ Len(g) = Len(f) + 1
<1>0. Block(bytes) \in Blocks /\ Block(bytes).bytes = bytes
  <2>1. Len(bytes) <= BlockLen
    BY ByteWidth
  <2> QED
    BY <2>1, BlockFacts
<1>1. PICK c \in Blocks : c = Block(bytes)
  BY <1>0
<1>2. /\ Len(g) = Len(f) + 1 /\ Len(f) \in Nat /\ g[Len(f) + 1] = c
      /\ \A b \in 1..Len(f) : g[b] = f[b]
  BY <1>1
<1>3. ASSUME NEW b \in 1..Len(g) PROVE Holds(v, (b - 1) * BlockLen, g[b].bytes)
  <2>1. CASE b = Len(f) + 1
    <3>1. b - 1 = Len(f)
      BY <1>2, <2>1
    <3> QED
      BY <1>0, <1>1, <1>2, <2>1, <3>1, Zenon DEF Written
  <2>2. CASE b # Len(f) + 1
    <3>1. b \in 1..Len(f)
      BY <1>2, <2>2
    <3> QED
      BY <1>2, <3>1, Zenon DEF Written
  <2> QED
    BY <2>1, <2>2
<1>4. Holds(v, Len(g) * BlockLen, << >>)
  BY DEF Holds
<1> QED
  BY <1>2, <1>3, <1>4, Zenon DEF Written

(* One code goes out: the bits and the bytes of a list with that code.     *)
Sent(i, w, u, P, t, buf, f, put, n, d) ==
  /\ CodesOk(i, u) /\ OneMore(i, w, u, t.prefix, t.codeSize, P - w.at[w.n])
  /\ BitsAt(u, Len(f) * BlockLen + Len(buf) + n, d.partial, d.partialSize)
  /\ Written(u.value, f, buf \o LowBytes(put, n))

(* Putting a code out: the list is one code longer, and its bytes go to    *)
(* the block.                                                              *)
LEMMA SendCode ==
  ASSUME NEW i \in Images, NEW w, NEW P \in Nat, NEW t, NEW at, NEW f, CoderTrace(i, w, P, t, at, f),
         CoderType(t), TableInv(i, t), at.buf \in Seq(Bytes), Len(f) \in Nat,
         \A b \in 1..Len(f) : Len(f[b].bytes) = BlockLen, t.firstPixelPassed,
         NEW put, put = PutCode(t, t.prefix), NEW n \in Nat, n * ByteBits <= t.partialSize + t.codeSize,
         LowBytes(put, n) \in Seq(Bytes), NEW d, d = DropBits(put, n * ByteBits)
  PROVE  \E u : Sent(i, w, u, P, t, at.buf, f, put, n, d) /\ w.at[w.n] < P /\ t.prefix # ClearCode(i)
<1> HIDE DEF Pow2
<1>1. /\ CodesOk(i, w) /\ TableAt(i, w, t.nextCode, t.codeSize, t.strmap) /\ Reading(i, w, P, t)
      /\ BitsAt(w, Len(f) * BlockLen + Len(at.buf), t.partial, t.partialSize)
      /\ Written(w.value, f, at.buf)
  BY Zenon DEF CoderTrace
<1>2. PICK l, T, z \in Nat : l = Len(at.buf) /\ T = Len(f) * BlockLen + l /\ z = t.partialSize
  <2>1. Len(at.buf) \in Nat /\ t.partialSize \in Nat
    BY DEF CoderType
  <2>2. Len(f) * BlockLen + Len(at.buf) \in Nat
    <3>1. Len(f) * BlockLen \in Nat
      BY BlockPlaces
    <3> QED
      BY <2>1, <3>1
  <2> QED
    BY <2>1, <2>2
<1>3. /\ t.prefix \in Nat /\ t.codeSize \in Nat /\ t.nextCode < MaxCode
      /\ CoderShape(t)
  <2>1. MaxCode \in Nat
    BY ImageFacts
  <2>2. t.nextCode < MaxCode
    BY <2>1 DEF CoderType, TableInv
  <2> QED
    BY <2>2 DEF CoderType
<1>4. w.at[w.n] < P /\ w.at[w.n] \in Nat /\ t.prefix # ClearCode(i) /\ P - w.at[w.n] \in Nat
  <2>1. w.at[w.n] < P /\ Spells(i, w, w.n, t.prefix, w.at[w.n], P - w.at[w.n])
    BY <1>1, Zenon DEF Reading
  <2>2. w.at[w.n] \in Nat /\ w.n \in 0..w.n /\ Table(i, w, w.n)
    <3>1. TraceType(w) /\ Table(i, w, w.n)
      BY <1>1, Zenon DEF CodesOk, TableAt
    <3>2. w.n \in Nat /\ w.at \in [Nat -> Nat]
      BY <3>1, Zenon DEF TraceType
    <3>4. PICK k \in Nat : k = w.n
      BY <3>2
    <3>5. k \in 0..k
      OBVIOUS
    <3>3. w.at[w.n] \in Nat /\ w.n \in 0..w.n
      BY <3>2, <3>4, <3>5, Zenon
    <3> QED
      BY <3>1, <3>3, Zenon
  <2>3. t.prefix # ClearCode(i)
    BY <1>1, <1>3, <2>1, <2>2, SpellsCode, Zenon
  <2> QED
    BY <2>1, <2>2, <2>3
<1>5. MayFollow(i, w, t.prefix, t.codeSize, P - w.at[w.n])
  BY <1>1, <1>3, EmitFollows, Zenon
<1>6. PICK u : OneMore(i, w, u, t.prefix, t.codeSize, P - w.at[w.n]) /\ CodesOk(i, u)
  BY <1>1, <1>3, <1>4, <1>5, AddCode, Zenon
<1>7. /\ put.partial = t.partial + t.prefix * Pow2[t.partialSize]
      /\ put.partialSize = t.partialSize + t.codeSize /\ CoderShape(put)
  BY <1>3, PutFacts
<1>8. BitsAt(u, T, put.partial, put.partialSize)
  <2>1. BitsAt(w, T, t.partial, z)
    BY <1>1, <1>2, Zenon
  <2>2. BitsAt(u, T, t.partial + t.prefix * Pow2[z], z + t.codeSize)
    BY <1>1, <1>3, <1>6, <2>1, PutBits, Zenon
  <2> QED
    BY <1>2, <1>7, <2>2, Zenon
<1>9. u.value \in Nat
  BY <1>6 DEF CodesOk, TraceType
<1>10. /\ BitsAt(u, T + n, put.partial \div Pow2[n * ByteBits], put.partialSize - n * ByteBits)
       /\ Holds(u.value, T, LowBytes(put, n))
  <2>1. put.partialSize \in Nat /\ n * ByteBits <= put.partialSize
    BY <1>2, <1>3, <1>7
  <2> QED
    BY <1>8, <1>9, <2>1, BytesOut, Zenon
<1>11. d.partial = put.partial \div Pow2[n * ByteBits] /\ d.partialSize = put.partialSize - n * ByteBits
  BY <1>7, DropFacts
<1>12. Written(u.value, f, at.buf)
  <2>1. w.off[w.n] = ByteBits * T + z
    BY <1>1, <1>2, Zenon DEF BitsAt
  <2>2. Keeps(T, w.value, u.value)
    <3>1. PICK len : len = P - w.at[w.n]
      OBVIOUS
    <3>2. OneMore(i, w, u, t.prefix, t.codeSize, len)
      BY <1>6, <3>1, Zenon
    <3>3. ASSUME NEW m \in Nat, NEW q, Len(q) \in Nat, m + Len(q) <= T, Holds(w.value, m, q)
          PROVE  Holds(u.value, m, q)
      BY <1>1, <1>2, <1>3, <2>1, <3>2, <3>3, HoldsStill, Zenon
    <3> QED
      BY <3>3, Zenon DEF Keeps
  <2>3. Len(at.buf) \in Nat /\ Len(f) * BlockLen + Len(at.buf) <= T
    BY <1>2
  <2> QED
    BY <1>1, <1>2, <2>2, <2>3, WrittenKept, Zenon
<1>13. Written(u.value, f, at.buf \o LowBytes(put, n))
  <2>1. PICK m \in Nat : m = Len(f) * BlockLen
    BY BlockPlaces
  <2>2. Holds(u.value, m, at.buf) /\ Holds(u.value, m + Len(at.buf), LowBytes(put, n))
    BY <1>2, <1>10, <1>12, <2>1, Zenon DEF Written
  <2>3. Holds(u.value, m, at.buf \o LowBytes(put, n))
    BY <2>2, HoldsParts, Zenon
  <2> QED
    BY <1>12, <2>1, <2>3, Zenon DEF Written
<1>14. Sent(i, w, u, P, t, at.buf, f, put, n, d)
  BY <1>2, <1>6, <1>10, <1>11, <1>13, Zenon DEF Sent
<1> QED
  BY <1>4, <1>14, Zenon

(* While nothing failed, a save writes full blocks.                        *)
LEMMA WholeBlocks ==
  ASSUME CoderInv, phase = "saving", ~full
  PROVE  /\ file \in Seq(Blocks) /\ Len(file) \in Nat
         /\ \A b \in 1..Len(file) : Len(file[b].bytes) = BlockLen
<1>1. FileOk(file, "saving", FALSE)
  BY DEF CoderInv
<1>2. file \in Seq(Blocks) /\ \A b \in 1..Len(file) : FullBlock(file[b])
  BY <1>1 DEF FileOk, Blocks
<1> QED
  BY <1>2, LenProperties DEF FullBlock

(* Putting the code of the string out, with the blocks written on the way  *)
(* and the pair learnt, keeps the file the bytes of a list of codes.       *)
LEMMA EmitCodeTrace ==
  ASSUME CoderInv, EmitCode, ~full, ~full', HasTrace(image, enc, save, file)
  PROVE  HasTrace(image', enc', save', file')
<1> HIDE DEF Pow2
<1>1. PICK put : put = PutCode(enc, enc.prefix)
  OBVIOUS
<1>2. PICK n : n = FullBytes(put, BlockLen - Len(save.buf))
  OBVIOUS
<1>3. PICK bytes : bytes = save.buf \o LowBytes(put, n)
  OBVIOUS
<1>4. PICK d : d = DropBits(put, n * ByteBits)
  OBVIOUS
<1>5. PICK pair : pair = <<enc.prefix, CurrentPixel>>
  OBVIOUS
<1>6. PICK learnt : learnt = Learn(image, d, pair)
  OBVIOUS
<1>7. PICK rest : rest = IF Len(bytes) = BlockLen THEN << >> ELSE bytes
  OBVIOUS
<1>8. /\ phase = "saving" /\ InLine /\ enc.firstPixelPassed
      /\ enc' = Advance(image, [learnt EXCEPT !.prefix = CurrentPixel])
      /\ IF Len(bytes) = BlockLen
         THEN save' = [save EXCEPT !.buf = << >>] /\ Store(<<Block(bytes)>>)
         ELSE save' = [save EXCEPT !.buf = bytes] /\ UNCHANGED fileVars
      /\ phase' = phase /\ image' = image
  BY <1>1, <1>2, <1>3, <1>4, <1>5, <1>6, Zenon DEF EmitCode
<1>9. PICK left : left = (enc.partialSize + enc.codeSize) - n * ByteBits
  OBVIOUS
<1>10. /\ image \in Images /\ CoderType(enc) /\ TableInv(image, enc)
       /\ PlaceInv(image, enc) /\ enc.bufferPos < LineBytes(image)
       /\ save.buf \in Seq(Bytes) /\ Len(save.buf) < BlockLen
       /\ BitsInv(image, enc, save.buf)
       /\ RowInv(image, save, enc)
  BY <1>8, OneMorePixel
<1>11. Taken(enc, save.buf, n, left, d, bytes, rest)
  <2>1. LET p == PutCode(enc, enc.prefix)
            k == FullBytes(p, BlockLen - Len(save.buf))
            b == save.buf \o LowBytes(p, k)
        IN  Taken(enc, save.buf, k, (enc.partialSize + enc.codeSize) - k * ByteBits,
                  DropBits(p, k * ByteBits), b,
                  IF Len(b) = BlockLen THEN << >> ELSE b)
    BY <1>10, EmitTakes, Zenon
  <2> QED
    BY <1>1, <1>2, <1>3, <1>4, <1>7, <1>9, <2>1, Zenon
<1>12. PICK L \in Nat : L = Len(save.buf) /\ L < BlockLen
  BY <1>10
<1>13. /\ n \in Nat /\ left \in Nat /\ left + n * ByteBits = enc.partialSize + enc.codeSize
       /\ CoderShape(d) /\ d.partialSize = left
       /\ d.codeSize = enc.codeSize /\ d.nextCode = enc.nextCode /\ d.strmap = enc.strmap
       /\ bytes \in Seq(Bytes) /\ Len(bytes) = L + n
  <2>1. n \in 0..(BlockLen - L)
    BY <1>11, <1>12, Zenon DEF Taken
  <2>2. n \in Nat
    BY <2>1, ByteWidth
  <2> QED
    BY <1>11, <1>12, <2>2, Zenon DEF Taken
<1>14. LowBytes(put, n) \in Seq(Bytes) /\ n * ByteBits <= enc.partialSize + enc.codeSize
  <2>0. CoderShape(enc)
    BY <1>10 DEF CoderType
  <2>1. put.partial = enc.partial + enc.prefix * Pow2[enc.partialSize]
    BY <1>1, <2>0, PutFacts
  <2>2. enc.prefix * Pow2[enc.partialSize] \in Nat /\ enc.partial \in Nat
    <3>1. enc.prefix \in Nat /\ enc.partialSize \in Nat /\ enc.partial \in Nat
      BY <1>10 DEF CoderType
    <3>2. Pow2[enc.partialSize] \in Nat
      BY <3>1, PowerEquations
    <3> QED
      BY <3>1, <3>2
  <2>3. put.partial \in Nat
    BY <2>1, <2>2
  <2>4. PICK h \in Nat : h = n * ByteBits
    BY <1>13, ByteWidth
  <2>5. n * ByteBits <= enc.partialSize + enc.codeSize
    BY <1>13, <2>4
  <2> QED
    BY <1>13, <2>3, <2>5, LowBytesFacts
<1>15. CoderType(learnt) /\ Elsewhere(enc, learnt)
  BY <1>6, <1>10, <1>11, EmitKeeps
<1>16. /\ file \in Seq(Blocks) /\ Len(file) \in Nat
       /\ \A b \in 1..Len(file) : Len(file[b].bytes) = BlockLen
  BY <1>8, WholeBlocks
<1>17. PICK w, P : P \in Nat /\ CoderTrace(image, w, P, enc, save, file)
  BY Zenon DEF HasTrace
<1>18. PICK u : /\ Sent(image, w, u, P, enc, save.buf, file, put, n, d)
                /\ w.at[w.n] < P /\ enc.prefix # ClearCode(image)
  BY <1>1, <1>4, <1>8, <1>10, <1>13, <1>14, <1>16, <1>17, SendCode, Zenon
<1>19. /\ CodesOk(image, u) /\ OneMore(image, w, u, enc.prefix, enc.codeSize, P - w.at[w.n])
       /\ BitsAt(u, Len(file) * BlockLen + L + n, d.partial, d.partialSize)
       /\ Written(u.value, file, bytes)
  BY <1>3, <1>12, <1>18, Zenon DEF Sent
<1>20. PICK m, T \in Nat : m = Len(file) * BlockLen /\ T = m + L + n /\ T = m + Len(bytes)
  <2>1. Len(file) * BlockLen \in Nat
    BY <1>16, BlockPlaces
  <2>2. PICK m \in Nat : m = Len(file) * BlockLen
    BY <2>1
  <2>4. PICK k \in Nat : k = Len(bytes) /\ k = L + n
    BY <1>12, <1>13
  <2>5. n \in Nat
    BY <1>13
  <2>6. m + L + n \in Nat /\ m + L + n = m + k
    BY <1>12, <2>2, <2>4, <2>5
  <2>3. m + L + n \in Nat /\ m + L + n = m + Len(bytes)
    BY <2>4, <2>6
  <2> QED
    BY <2>2, <2>3
<1>21. Pixel(image)[P] = CurrentPixel /\ CurrentPixel \in Nat /\ CurrentPixel < ClearCode(image)
  BY <1>8, <1>17, NextPixelIs, Zenon
<1>22. pair[1] = enc.prefix /\ pair[2] = Pixel(image)[P]
  BY <1>5, <1>21
<1>23. PICK y : LearntTrace(image, u, y, P, T, learnt)
  <2>1. CodesOk(image, w) /\ TableAt(image, w, enc.nextCode, enc.codeSize, enc.strmap)
    BY <1>17, Zenon DEF CoderTrace
  <2>2. d.partialSize \in Nat /\ BitsAt(u, T, d.partial, d.partialSize)
    BY <1>13, <1>19, <1>20, Zenon
  <2> QED
    BY <1>6, <1>10, <1>13, <1>17, <1>18, <1>19, <1>20, <1>22, <2>1, <2>2, LearnTrace, Zenon
<1>24. /\ CodesOk(image, y) /\ y.at[y.n] = P
       /\ TableAt(image, y, learnt.nextCode, learnt.codeSize, learnt.strmap)
       /\ BitsAt(y, T, learnt.partial, learnt.partialSize)
       /\ Keeps(T, u.value, y.value)
  BY <1>23, Zenon DEF LearntTrace, Keeps
<1>25. Written(y.value, file, bytes)
  <2>1. Len(bytes) \in Nat /\ Len(file) * BlockLen + Len(bytes) <= T
    BY <1>12, <1>13, <1>20
  <2> QED
    BY <1>16, <1>19, <1>20, <1>24, <2>1, WrittenKept, Zenon
<1>26. PICK x : x = CurrentPixel
  OBVIOUS
<1>27. PICK r : r = [learnt EXCEPT !.prefix = x]
  OBVIOUS
<1>28. Repixeled(learnt, r, x) /\ r.firstPixelPassed = enc.firstPixelPassed
  <2>1. CoderShape(learnt) /\ learnt.firstPixelPassed \in BOOLEAN
    BY <1>15 DEF CoderType
  <2>2. CoderShape(r)
    BY <1>27, <2>1 DEF CoderShape
  <2>3. /\ r.firstPixelPassed = learnt.firstPixelPassed /\ r.prefix = x
        /\ r.partial = learnt.partial /\ r.partialSize = learnt.partialSize
        /\ r.codeSize = learnt.codeSize /\ r.nextCode = learnt.nextCode
        /\ r.strmap = learnt.strmap
        /\ r.bufferPos = learnt.bufferPos /\ r.bufferShift = learnt.bufferShift
    BY <1>27, <2>1 DEF CoderShape
  <2>4. r.firstPixelPassed = enc.firstPixelPassed
    BY <1>15, <2>3, Zenon DEF Elsewhere
  <2> QED
    BY <2>1, <2>2, <2>3, <2>4, Zenon DEF Repixeled
<1>29. CoderType(r) /\ r.bufferPos = enc.bufferPos /\ r.bufferShift = enc.bufferShift
  BY <1>15, <1>21, <1>26, <1>28, Zenon DEF Repixeled, CoderType, Elsewhere
<1>30. PICK e : e = Advance(image, r)
  OBVIOUS
<1>31. enc' = e
  BY <1>8, <1>26, <1>27, <1>30, Zenon
<1>32. /\ e.partial = r.partial /\ e.partialSize = r.partialSize /\ e.codeSize = r.codeSize
       /\ e.nextCode = r.nextCode /\ e.prefix = r.prefix /\ e.strmap = r.strmap
       /\ e.firstPixelPassed = r.firstPixelPassed
  <2>1. PlaceInv(image, r) /\ r.bufferPos < LineBytes(image)
    BY <1>10, <1>29, Zenon DEF PlaceInv
  <2>2. /\ e.partial = r.partial /\ e.partialSize = r.partialSize /\ e.codeSize = r.codeSize
        /\ e.nextCode = r.nextCode /\ e.prefix = r.prefix /\ e.strmap = r.strmap
    BY <1>10, <1>29, <1>30, <2>1, AdvanceKeeps
  <2>3. e.firstPixelPassed = r.firstPixelPassed
    BY <1>10, <1>29, <1>30, <2>1, AdvanceMoves
  <2> QED
    BY <2>2, <2>3, Zenon
<1>33. PICK to : to = [save EXCEPT !.buf = rest]
  OBVIOUS
<1>34. to.y = save.y /\ to.pass = save.pass /\ to.buf = rest
  <2>1. save = [y |-> save.y, pass |-> save.pass, buf |-> save.buf]
    BY <1>10 DEF RowInv
  <2> QED
    BY <1>33, <2>1
<1>35. save' = to
  BY <1>7, <1>8, <1>33
<1>36. PICK Q \in Nat : Q = P + 1
  BY <1>17
<1>37. Scanned(image, Q, e, to)
  <2>1. Scanned(image, P, enc, save)
    BY <1>17, Zenon DEF CoderTrace
  <2>2. Scanned(image, P + 1, e, to)
    BY <1>10, <1>29, <1>30, <1>34, <2>1, ScanPixel, Zenon
  <2> QED
    BY <1>36, <2>2
<1>38. Reading(image, y, Q, e)
  <2>1. e.firstPixelPassed
    BY <1>8, <1>28, <1>32
  <2>2. y.at[y.n] < Q /\ Q - y.at[y.n] = 1
    BY <1>17, <1>24, <1>36
  <2>3. e.prefix = x
    BY <1>28, <1>32, Zenon DEF Repixeled
  <2>4. Spells(image, y, y.n, e.prefix, y.at[y.n], Q - y.at[y.n])
    BY <1>21, <1>24, <1>26, <2>2, <2>3, Zenon DEF Spells
  <2> QED
    BY <2>1, <2>2, <2>4, Zenon DEF Reading
<1>39. /\ TableAt(image, y, e.nextCode, e.codeSize, e.strmap)
       /\ BitsAt(y, T, e.partial, e.partialSize)
  BY <1>24, <1>28, <1>32, Zenon DEF Repixeled
<1>40. Written(y.value, file', rest) /\ T = Len(file') * BlockLen + Len(rest)
  <2>1. CASE Len(bytes) = BlockLen
    <3>1. rest = << >> /\ Len(rest) = 0
      BY <1>7, <2>1
    <3>2. file' = file \o <<Block(bytes)>>
      BY <1>8, <2>1 DEF Store
    <3>3. Written(y.value, file', << >>) /\ Len(file') = Len(file) + 1
      BY <1>13, <1>16, <1>25, <2>1, <3>2, WrittenBlock, Zenon
    <3>4. Len(file') * BlockLen = m + BlockLen
      BY <1>16, <1>20, <3>3, BlockPlaces, Zenon
    <3>5. Len(file') * BlockLen + 0 = m + BlockLen
      BY <1>20, <3>4, ByteWidth
    <3>6. T = m + BlockLen
      BY <1>20, <2>1, Zenon
    <3> QED
      BY <3>1, <3>3, <3>5, <3>6, Zenon
  <2>2. CASE Len(bytes) # BlockLen
    <3>1. rest = bytes /\ file' = file
      BY <1>7, <1>8, <2>2 DEF fileVars
    <3> QED
      BY <1>20, <1>25, <3>1, Zenon
  <2> QED
    BY <2>1, <2>2
<1>41. CoderTrace(image, y, Q, e, to, file')
  BY <1>24, <1>34, <1>37, <1>38, <1>39, <1>40, Zenon DEF CoderTrace
<1> QED
  BY <1>8, <1>31, <1>35, <1>36, <1>41, Zenon DEF HasTrace

-----------------------------------------------------------------------------
(* The end of a save.                                                      *)

(* The sub-blocks of a complete file hold the first T bytes of a number.   *)
Filled(v, T, f) ==
  /\ f \in Seq(Blocks) /\ Len(f) \in Nat /\ Len(f) >= 2 /\ f[Len(f)] = End
  /\ \A b \in 1..Len(f)-1 : f[b] # End /\ Holds(v, (b - 1) * BlockLen, f[b].bytes)
  /\ \A b \in 1..Len(f)-2 : Len(f[b].bytes) = BlockLen
  /\ T = (Len(f) - 2) * BlockLen + Len(f[Len(f) - 1].bytes)

(* A last block and the terminator: the file holds all bytes.              *)
LEMMA LastOne ==
  ASSUME NEW v, NEW f \in Seq(Blocks), \A b \in 1..Len(f) : Len(f[b].bytes) = BlockLen,
         NEW bytes \in Seq(Bytes), Len(bytes) \in 1..BlockLen, Written(v, f, bytes),
         NEW g, g = f \o <<Block(bytes), End>>,
         NEW T \in Nat, T = Len(f) * BlockLen + Len(bytes)
  PROVE  Filled(v, T, g)
<1>0. /\ Block(bytes) \in Blocks /\ Block(bytes).bytes = bytes /\ Block(bytes).len = Len(bytes)
      /\ End \in Blocks /\ End.len = 0 /\ End.bytes = << >>
  <2>1. Len(bytes) <= BlockLen
    BY ByteWidth
  <2> QED
    BY <2>1, BlockFacts DEF End
<1>1. PICK c, e \in Blocks : c = Block(bytes) /\ e = End
  BY <1>0
<1>2. PICK n \in Nat : n = Len(f)
  OBVIOUS
<1>3. /\ g \in Seq(Blocks) /\ Len(g) = n + 2
      /\ \A b \in 1..n : g[b] = f[b]
      /\ g[n + 1] = c /\ g[n + 2] = e
  <2>1. g = f \o <<c, e>>
    BY <1>1
  <2> QED
    BY <1>2, <2>1
<1>4. /\ Len(g) \in Nat /\ Len(g) >= 2 /\ Len(g) - 1 = n + 1 /\ Len(g) - 2 = n
  BY <1>3
<1>5. ASSUME NEW b \in 1..n + 1 PROVE g[b] # End /\ Holds(v, (b - 1) * BlockLen, g[b].bytes)
  <2>1. CASE b = n + 1
    <3>1. b - 1 = Len(f)
      BY <1>2, <2>1
    <3>2. g[b] = Block(bytes)
      BY <1>1, <1>3, <2>1
    <3>4. Block(bytes).len # End.len
      BY <1>0
    <3>3. g[b] # End
      BY <3>2, <3>4, Zenon
    <3> QED
      BY <1>0, <3>1, <3>2, <3>3, Zenon DEF Written
  <2>2. CASE b # n + 1
    <3>1. b \in 1..n
      BY <2>2
    <3>2. g[b] = f[b] /\ Len(f[b].bytes) = BlockLen
      BY <1>2, <1>3, <3>1
    <3>4. Len(f[b].bytes) # Len(End.bytes)
      BY <1>0, <3>2, ByteWidth
    <3>3. g[b] # End
      BY <3>2, <3>4, Zenon
    <3> QED
      BY <1>2, <3>1, <3>2, <3>3, Zenon DEF Written
  <2> QED
    BY <2>1, <2>2
<1>6. \A b \in 1..n : Len(g[b].bytes) = BlockLen
  BY <1>2, <1>3
<1>7. g[Len(g) - 1].bytes = bytes /\ g[Len(g)] = End
  BY <1>0, <1>1, <1>3, <1>4
<1>8. T = (Len(g) - 2) * BlockLen + Len(g[Len(g) - 1].bytes)
  BY <1>2, <1>4, <1>7, Zenon
<1> QED
  BY <1>3, <1>4, <1>5, <1>6, <1>7, <1>8, Zenon DEF Filled

(* Blocks put together in either order.                                    *)
LEMMA BlocksJoin ==
  \A f, a, b \in Seq(Blocks) : f \o (a \o b) = (f \o a) \o b
<1> HIDE DEF Blocks
<1> QED
  BY ConcatAssociative, SMTT(30)

(* The bytes at the end of the codes make one block or two: the file holds *)
(* them all.                                                               *)
LEMMA LastOneOrTwo ==
  ASSUME NEW v, NEW f \in Seq(Blocks), \A b \in 1..Len(f) : Len(f[b].bytes) = BlockLen,
         NEW bytes \in Seq(Bytes), Len(bytes) \in 1..2 * BlockLen, Written(v, f, bytes),
         NEW g, g = f \o Append(LastBlocks(bytes), End),
         NEW T \in Nat, T = Len(f) * BlockLen + Len(bytes)
  PROVE  Filled(v, T, g)
<1>1. PICK l \in Nat : l = BlockLen /\ l > 0
  BY ByteWidth
<1>2. CASE Len(bytes) <= l
  <2>1. PICK c : c = Block(bytes)
    OBVIOUS
  <2>2. LastBlocks(bytes) = <<c>>
    <3>1. Len(bytes) <= BlockLen
      BY <1>1, <1>2
    <3> QED
      BY <2>1, <3>1, Zenon DEF LastBlocks
  <2>3. Append(LastBlocks(bytes), End) = <<c, End>>
    <3>0. Block(bytes) \in Blocks /\ End \in Blocks
      <4>1. Len(bytes) <= BlockLen
        BY <1>1, <1>2
      <4> QED
        BY <4>1, BlockFacts
    <3>1. PICK d, e \in Blocks : d = c /\ e = End
      BY <2>1, <3>0
    <3>2. Append(<<d>>, e) = <<d, e>>
      <4>1. <<d>> \in Seq(Blocks) /\ <<d, e>> \in Seq(Blocks)
        BY <3>1
      <4>2. PICK s : s = Append(<<d>>, e)
        OBVIOUS
      <4>3. /\ s \in Seq(Blocks) /\ Len(s) = 2 /\ s[1] = d /\ s[2] = e
        BY <3>1, <4>1, <4>2
      <4>4. s = <<d, e>>
        BY <3>1, <4>1, <4>3, SeqEqual
      <4> QED
        BY <4>2, <4>4
    <3> QED
      BY <2>2, <3>1, <3>2, Zenon
  <2>4. Len(bytes) \in 1..BlockLen
    BY <1>1, <1>2
  <2> QED
    BY <2>1, <2>2, <2>3, <2>4, LastOne, Zenon
<1>3. CASE ~(Len(bytes) <= l)
  <2>1. PICK first, rest : first = SubSeq(bytes, 1, l) /\ rest = SubSeq(bytes, l + 1, Len(bytes))
    OBVIOUS
  <2>2. /\ first \in Seq(Bytes) /\ rest \in Seq(Bytes) /\ Len(first) = l /\ Len(rest) \in 1..l
        /\ l + Len(rest) = Len(bytes)
    BY <1>1, <1>3, <2>1
  <2>3. bytes = first \o rest
    <3>1. 1 \in 1..Len(bytes)+1 /\ l \in 1-1..Len(bytes) /\ Len(bytes) \in l..Len(bytes)
      BY <1>1, <1>3
    <3>2. first \o rest = SubSeq(bytes, 1, Len(bytes))
      BY <2>1, <3>1, ConcatAdjacentSubSeq, Zenon
    <3> QED
      BY <3>2, SubSeqFull, Zenon
  <2>4. PICK n \in Nat : n = Len(f)
    OBVIOUS
  <2>5. n * BlockLen \in Nat /\ (n + 1) * BlockLen = n * BlockLen + BlockLen
    BY BlockPlaces
  <2>6. Holds(v, n * BlockLen, first) /\ Holds(v, n * BlockLen + l, rest)
    BY <2>2, <2>3, <2>4, <2>5, HoldsParts, Zenon DEF Written
  <2>7. Written(v, f, first)
    BY <2>4, <2>6, Zenon DEF Written
  <2>8. PICK c : c = Block(first)
    OBVIOUS
  <2>9. PICK h : h = f \o <<c>>
    OBVIOUS
  <2>10. Written(v, h, << >>) /\ Len(h) = n + 1
    BY <1>1, <2>2, <2>4, <2>7, <2>8, <2>9, WrittenBlock, ZenonT(30)
  <2>11. Written(v, h, rest)
    <3>1. Len(h) * BlockLen = n * BlockLen + l
      BY <1>1, <2>5, <2>10, Zenon
    <3> QED
      BY <2>6, <2>10, <3>1, Zenon DEF Written
  <2>12. c \in Blocks /\ c.bytes = first
    <3>1. Len(first) <= BlockLen
      BY <1>1, <2>2
    <3> QED
      BY <2>2, <2>8, <3>1, BlockFacts
  <2>13. h \in Seq(Blocks) /\ \A b \in 1..Len(h) : Len(h[b].bytes) = BlockLen
    <3>1. h \in Seq(Blocks) /\ h[n + 1] = c /\ \A b \in 1..n : h[b] = f[b]
      <4>1. PICK x \in Blocks : x = c
        BY <2>12
      <4>2. h = f \o <<x>>
        BY <2>9, <4>1
      <4> QED
        BY <2>4, <4>1, <4>2
    <3>2. ASSUME NEW b \in 1..n + 1 PROVE Len(h[b].bytes) = BlockLen
      <4>1. CASE b = n + 1
        BY <1>1, <2>2, <2>12, <3>1, <4>1, Zenon
      <4>2. CASE b # n + 1
        <5>1. b \in 1..n
          BY <4>2
        <5> QED
          BY <2>4, <3>1, <5>1, Zenon
      <4> QED
        BY <4>1, <4>2
    <3> QED
      BY <2>10, <3>1, <3>2
  <2>14. PICK e, x : e = End /\ x = Block(rest)
    OBVIOUS
  <2>15. g = h \o <<x, e>>
    <3>1. LastBlocks(bytes) = <<c, x>>
      <4>1. ~(Len(bytes) <= BlockLen)
        BY <1>1, <1>3
      <4> QED
        BY <1>1, <2>1, <2>8, <2>14, <4>1, Zenon DEF LastBlocks
    <3>2. g = f \o Append(<<c, x>>, e)
      BY <2>14, <3>1, Zenon
    <3>3. x \in Blocks /\ e \in Blocks
      <4>1. Len(rest) <= BlockLen
        BY <1>1, <2>2
      <4> QED
        BY <2>2, <2>14, <4>1, BlockFacts
    <3>4. PICK p, q, r \in Blocks : p = c /\ q = x /\ r = e
      BY <2>12, <3>3
    <3>5. Append(<<p, q>>, r) = <<p, q, r>>
      <4>1. <<p, q>> \in Seq(Blocks) /\ <<p, q, r>> \in Seq(Blocks)
        BY <3>4
      <4>2. PICK s : s = Append(<<p, q>>, r)
        OBVIOUS
      <4>3. /\ s \in Seq(Blocks) /\ Len(s) = 3 /\ s[1] = p /\ s[2] = q /\ s[3] = r
        BY <3>4, <4>1, <4>2
      <4>4. s = <<p, q, r>>
        BY <3>4, <4>1, <4>3, SeqEqual
      <4> QED
        BY <4>2, <4>4
    <3>6. f \o <<p, q, r>> = (f \o <<p>>) \o <<q, r>>
      <4>1. <<p, q, r>> = <<p>> \o <<q, r>>
        OBVIOUS
      <4>2. <<p>> \in Seq(Blocks) /\ <<q, r>> \in Seq(Blocks)
        OBVIOUS
      <4>3. PICK a, b \in Seq(Blocks) : a = <<p>> /\ b = <<q, r>>
        BY <4>2, Zenon
      <4>4. f \o (a \o b) = (f \o a) \o b
        BY BlocksJoin, Zenon
      <4> QED
        BY <4>1, <4>3, <4>4, Zenon
    <3> QED
      BY <2>9, <3>2, <3>4, <3>5, <3>6, Zenon
  <2>16. T = Len(h) * BlockLen + Len(rest)
    <3>1. PICK a, b, m \in Nat : a = n * BlockLen /\ b = Len(rest) /\ m = Len(bytes)
      BY <2>2, <2>5
    <3>2. T = a + m /\ m = l + b /\ Len(h) * BlockLen = a + l
      <4>1. Len(h) * BlockLen = (n + 1) * BlockLen
        BY <2>10, Zenon
      <4>2. T = a + m
        BY <2>4, <3>1, Zenon
      <4>3. m = l + b
        BY <2>2, <3>1, Zenon
      <4>4. (n + 1) * BlockLen = a + l
        BY <1>1, <2>5, <3>1, Zenon
      <4> QED
        BY <4>1, <4>2, <4>3, <4>4, Zenon
    <3>3. T = (a + l) + b
      BY <1>1, <3>1, <3>2
    <3> QED
      BY <3>1, <3>2, <3>3, Zenon
  <2>17. Len(rest) \in 1..BlockLen
    BY <1>1, <2>2
  <2> QED
    BY <2>2, <2>11, <2>13, <2>14, <2>15, <2>16, <2>17, LastOne, Zenon
<1> QED
  BY <1>2, <1>3

(* All codes of a picture, and the number v of T bytes that they make with *)
(* the end code behind them.                                               *)
Ended(i, w, v, T) ==
  /\ CodesOk(i, w) /\ w.n # 0 /\ w.code[w.n - 1] # ClearCode(i)
  /\ v = w.value + EndCode(i) * Pow2[w.off[w.n]]
  /\ w.off[w.n] + w.size[w.n - 1] <= ByteBits * T
  /\ Place(i)[w.at[w.n]].y >= i.height
  /\ \A m \in 0..w.at[w.n]-1 : Place(i)[m].y < i.height
HasFile(i, f) == \E w, v, T : T \in Nat /\ Ended(i, w, v, T) /\ Filled(v, T, f)

(* Rounded up to whole units.                                              *)
LEMMA RoundedUp ==
  ASSUME NEW a \in Nat, NEW b \in Nat \ {0}
  PROVE  \E k, pad \in Nat : k = CeilDiv(a, b) /\ k * b = a + pad
<1>1. PICK x \in Nat : x = a + b - 1
  OBVIOUS
<1>2. PICK q, r \in Nat : q = x \div b /\ r < b /\ x = q * b + r
  BY Divided
<1>3. PICK p \in Nat : p = q * b
  BY <1>2
<1>4. PICK pad \in Nat : p = a + pad
  <2>1. (b - 1) - r \in Nat /\ p = a + ((b - 1) - r)
    BY <1>1, <1>2, <1>3
  <2> QED
    BY <2>1
<1>5. q = CeilDiv(a, b)
  BY <1>1, <1>2 DEF CeilDiv
<1> QED
  BY <1>2, <1>3, <1>4, <1>5

(* The end code and the bits to the next byte.                             *)
Padded(i, u, v, s, T, K, all) ==
  /\ Holds(v, T, LowBytes(all, K))
  /\ u.off[u.n] + s = ByteBits * (T + K)

(* The end code's bits and the padding of its last byte.                   *)
LEMMA EndCodeBits ==
  ASSUME NEW i \in Images, NEW u, CodesOk(i, u), NEW T \in Nat, NEW p, NEW z \in Nat, BitsAt(u, T, p, z),
         NEW s \in Nat, NEW K \in Nat, z + s = K * ByteBits,
         NEW all, all.partial = p + EndCode(i) * Pow2[z],
         NEW v, v = u.value + EndCode(i) * Pow2[u.off[u.n]]
  PROVE  Padded(i, u, v, s, T, K, all) /\ Keeps(T, u.value, v)
<1> HIDE DEF Pow2
<1>1. EndCode(i) \in Nat
  BY ImageFacts
<1>2. PICK x : x = Longer(i, u, EndCode(i), s, 0)
  OBVIOUS
<1>3. TraceType(u)
  BY Zenon DEF CodesOk
<1>4. PICK o \in Nat : o = 0
  OBVIOUS
<1>5. TraceType(x) /\ OneMore(i, u, x, EndCode(i), s, o)
  <2>1. x = Longer(i, u, EndCode(i), s, o)
    BY <1>2, <1>4, Zenon
  <2> QED
    BY <1>1, <1>3, <1>4, <2>1, LongerFacts, Zenon
<1>6. x.value = v /\ x.value \in Nat /\ x.off[x.n] = u.off[u.n] + s
  BY <1>5 DEF OneMore, TraceType
<1>7. BitsAt(x, T, all.partial, z + s)
  BY <1>1, <1>5, PutBits, Zenon
<1>8. PICK y \in Nat : y = z + s /\ y = K * ByteBits
  OBVIOUS
<1>9. /\ BitsAt(x, T + K, all.partial \div Pow2[K * ByteBits], y - K * ByteBits)
      /\ Holds(x.value, T, LowBytes(all, K))
  <2>1. K * ByteBits <= y /\ BitsAt(x, T, all.partial, y)
    BY <1>7, <1>8
  <2> QED
    BY <1>6, <1>8, <2>1, BytesOut, Zenon
<1>10. x.off[x.n] = ByteBits * (T + K)
  <2>1. x.off[x.n] = ByteBits * (T + K) + (y - K * ByteBits)
    BY <1>9, Zenon DEF BitsAt
  <2>2. PICK e \in Nat : e = ByteBits * (T + K)
    BY ByteWidth
  <2>3. x.off[x.n] = e + (y - y)
    BY <1>8, <2>1, <2>2, Zenon
  <2> QED
    BY <1>8, <2>2, <2>3
<1>11. Keeps(T, u.value, v)
  <2>1. u.off[u.n] = ByteBits * T + z
    BY Zenon DEF BitsAt
  <2>2. ASSUME NEW m \in Nat, NEW q, Len(q) \in Nat, m + Len(q) <= T, Holds(u.value, m, q)
        PROVE  Holds(x.value, m, q)
    BY <1>1, <1>5, <2>1, <2>2, HoldsStill, Zenon
  <2> QED
    BY <1>6, <2>2, Zenon DEF Keeps
<1> QED
  BY <1>6, <1>9, <1>10, <1>11, Zenon DEF Padded

(* Where the rows are all done.                                            *)
LEMMA AtTheEnd ==
  ASSUME NEW i \in Images, NEW w, NEW P \in Nat, NEW t, CoderType(t), NEW at, at.y >= i.height,
         NEW f, CoderTrace(i, w, P, t, at, f)
  PROVE  t.firstPixelPassed /\ Place(i)[P].y >= i.height /\ \A m \in 0..P-1 : Place(i)[m].y < i.height
<1>1. Scanned(i, P, t, at) /\ Reading(i, w, P, t)
  BY Zenon DEF CoderTrace
<1>2. Place(i)[P].y >= i.height
  BY <1>1 DEF Scanned, CoderPlace
<1>3. P # 0
  <2>1. Place(i)[0].y = 0 /\ i.height > 0
    <3>1. Place(i)[0] = Origin /\ i.height \in Nat \ {0}
      BY PlaceFunction, ImageFacts, Zenon
    <3>2. Origin.y = 0
      BY DEF Origin
    <3>3. i.height > 0
      BY <3>1
    <3> QED
      BY <3>1, <3>2, <3>3, Zenon
  <2>2. PICK h \in Nat : h = i.height /\ h > 0
    BY <2>1, ImageFacts
  <2>3. ~(0 >= h)
    BY <2>2
  <2> QED
    BY <1>2, <2>1, <2>2, <2>3, Zenon
<1>4. t.firstPixelPassed
  BY <1>1, <1>3 DEF Reading
<1> QED
  BY <1>1, <1>2, <1>4, Zenon DEF Scanned

(* Sums and products of natural numbers.                                   *)
LEMMA Plain ==
  ASSUME NEW a \in Nat, NEW c \in Nat, NEW q \in Nat
  PROVE  a + c * q \in Nat
<1>1. PICK p \in Nat : p = c * q
  OBVIOUS
<1> QED
  BY <1>1

(* What is written at the end: the last code, the end code, the last bytes. *)
LEMMA LastCodes ==
  ASSUME image \in Images, NEW w, NEW P \in Nat, NEW t, CoderType(t), TableInv(image, t),
         NEW at, at.y >= image.height, at.buf \in Seq(Bytes), BitsInv(image, t, at.buf),
         NEW f \in Seq(Blocks), \A b \in 1..Len(f) : Len(f[b].bytes) = BlockLen,
         CoderTrace(image, w, P, t, at, f),
         NEW bytes, bytes = at.buf \o CompressEnd(t)
  PROVE  \E u, v, T : T \in Nat /\ T = Len(f) * BlockLen + Len(bytes)
                      /\ Ended(image, u, v, T) /\ Written(v, f, bytes)
<1> HIDE DEF Pow2
<1>1. t.firstPixelPassed /\ Place(image)[P].y >= image.height /\ \A m \in 0..P-1 : Place(image)[m].y < image.height
  BY AtTheEnd, Zenon
<1>2. PICK put : put = PutCode(t, t.prefix)
  OBVIOUS
<1>3. PICK o \in Nat : o = 0
  OBVIOUS
<1>4. PICK d : d = DropBits(put, o * ByteBits)
  OBVIOUS
<1>5. /\ t.prefix \in Nat /\ t.partialSize \in Nat /\ t.partial \in Nat /\ t.codeSize \in Nat
      /\ CoderShape(t)
  BY DEF CoderType
<1>6. /\ put.partial = t.partial + t.prefix * Pow2[t.partialSize]
      /\ put.partialSize = t.partialSize + t.codeSize /\ CoderShape(put)
      /\ put.codeSize = t.codeSize
  BY <1>2, <1>5, PutFacts
<1>7. put.partial \in Nat
  <2>1. PICK a, c, q \in Nat : a = t.partial /\ c = t.prefix /\ q = Pow2[t.partialSize]
    BY <1>5, PowerEquations
  <2>2. a + c * q \in Nat
    BY <2>1, Plain, Zenon
  <2> QED
    BY <1>6, <2>1, <2>2, Zenon
<1>8. PICK z, s \in Nat : z = put.partialSize /\ s = t.codeSize /\ z = t.partialSize + s
  BY <1>5, <1>6
<1>9. o * ByteBits = 0 /\ o * ByteBits <= t.partialSize + t.codeSize
  BY <1>3, <1>5, ByteWidth
<1>10. d.partial = put.partial /\ d.partialSize = z
  <2>1. d.partial = put.partial \div Pow2[0] /\ d.partialSize = put.partialSize - 0
    BY <1>4, <1>6, <1>9, DropFacts
  <2>2. PICK a \in Nat : a = put.partial
    BY <1>7
  <2>3. a \div 1 = a /\ z - 0 = z
    BY <1>8, <2>2
  <2>4. Pow2[0] = 1
    BY PowerEquations
  <2> QED
    BY <1>8, <2>1, <2>2, <2>3, <2>4, Zenon
<1>11. LowBytes(put, o) \in Seq(Bytes) /\ Len(LowBytes(put, o)) = o
  BY <1>7, LowBytesFacts
<1>12. PICK u : Sent(image, w, u, P, t, at.buf, f, put, o, d) /\ w.at[w.n] < P /\ t.prefix # ClearCode(image)
  <2>1. Len(f) \in Nat
    OBVIOUS
  <2> QED
    BY <1>1, <1>2, <1>4, <1>9, <1>11, <2>1, SendCode, Zenon
<1>13. PICK l, m, T \in Nat : l = Len(at.buf) /\ m = Len(f) * BlockLen /\ T = m + l
  <2>1. Len(f) * BlockLen \in Nat /\ Len(at.buf) \in Nat
    <3>1. PICK n \in Nat : n = Len(f)
      OBVIOUS
    <3>2. n * BlockLen \in Nat
      BY BlockPlaces
    <3> QED
      BY <3>1, <3>2
  <2>2. PICK l, m \in Nat : l = Len(at.buf) /\ m = Len(f) * BlockLen
    BY <2>1
  <2>3. m + l \in Nat
    BY <2>2
  <2> QED
    BY <2>2, <2>3
<1>14. /\ CodesOk(image, u) /\ OneMore(image, w, u, t.prefix, t.codeSize, P - w.at[w.n])
       /\ BitsAt(u, T, put.partial, z)
       /\ Written(u.value, f, at.buf)
  <2>1. T + o = T
    BY <1>3, <1>13
  <2>2. at.buf \o LowBytes(put, o) = at.buf
    BY <1>3, <1>11
  <2> QED
    BY <1>10, <1>12, <1>13, <2>1, <2>2, Zenon DEF Sent
<1>15. PICK all : all = PutCode(put, EndCode(image))
  OBVIOUS
<1>16. all.partial = put.partial + EndCode(image) * Pow2[z] /\ all.partialSize = z + s
  BY <1>6, <1>8, <1>15, PutFacts
<1>17. PICK K, pad \in Nat : K = CeilDiv(all.partialSize, ByteBits) /\ K * ByteBits = (z + s) + pad
  <2>1. PICK a \in Nat : a = z + s
    BY <1>8
  <2>2. \E k, pad \in Nat : k = CeilDiv(a, ByteBits) /\ k * ByteBits = a + pad
    BY RoundedUp, ByteWidth
  <2> QED
    BY <1>16, <2>1, <2>2, Zenon
<1>18. CompressEnd(t) = LowBytes(all, K)
  BY <1>2, <1>15, <1>17 DEF CompressEnd
<1>19. PICK v : v = u.value + EndCode(image) * Pow2[u.off[u.n]]
  OBVIOUS
<1>20. PICK r \in Nat : r = s + pad /\ z + r = K * ByteBits
  <2>1. s + pad \in Nat /\ z + (s + pad) = (z + s) + pad
    BY <1>8, <1>17
  <2>2. z + (s + pad) = K * ByteBits
    BY <1>17, <2>1, Zenon
  <2> QED
    BY <2>1, <2>2, Zenon
<1>21. Padded(image, u, v, r, T, K, all) /\ Keeps(T, u.value, v)
  <2>1. z \in Nat /\ T \in Nat /\ K \in Nat /\ r \in Nat
    BY <1>8, <1>13, <1>17, <1>20
  <2>2. all.partial = put.partial + EndCode(image) * Pow2[z]
    BY <1>16
  <2>3. CodesOk(image, u) /\ BitsAt(u, T, put.partial, z)
    BY <1>14
  <2>4. z + r = K * ByteBits
    BY <1>20
  <2> QED
    BY <1>19, <2>1, <2>2, <2>3, <2>4, EndCodeBits, Zenon
<1>22. CompressEnd(t) \in Seq(Bytes) /\ Len(CompressEnd(t)) = K
  <2>1. CompressEnd(t) \in Seq(Bytes)
    BY EndBytes, Zenon
  <2>2. all.partial \in Nat
    <3>1. EndCode(image) \in Nat
      BY ImageFacts, SMTT(30)
    <3>2. PICK a, c, q \in Nat : a = put.partial /\ c = EndCode(image) /\ q = Pow2[z]
      BY <1>7, <1>8, <3>1, PowerEquations
    <3>3. a + c * q \in Nat
      BY <3>2, Plain, Zenon
    <3> QED
      BY <1>16, <3>2, <3>3, Zenon
  <2>3. Len(LowBytes(all, K)) = K
    BY <1>17, <2>2, LowBytesFacts
  <2> QED
    BY <1>18, <2>1, <2>3
<1>23. T + K \in Nat /\ T + K = Len(f) * BlockLen + Len(bytes)
  <2>1. Len(bytes) = l + K
    <3>1. Len(bytes) = Len(at.buf) + Len(CompressEnd(t))
      <4>1. PICK q : q = CompressEnd(t)
        OBVIOUS
      <4>2. bytes = at.buf \o q /\ q \in Seq(Bytes)
        BY <1>22, <4>1
      <4> QED
        BY <4>1, <4>2
    <3> QED
      BY <1>13, <1>22, <3>1, Zenon
  <2>2. T + K \in Nat /\ T + K = m + (l + K)
    BY <1>13, <1>17
  <2> QED
    BY <1>13, <2>1, <2>2, Zenon
<1>24. Written(v, f, bytes)
  <2>1. Written(v, f, at.buf)
    <3>1. l \in Nat /\ m + l <= T
      BY <1>13
    <3>2. Len(f) \in Nat /\ Len(at.buf) \in Nat /\ Len(f) * BlockLen + Len(at.buf) <= T
      BY <1>13, <3>1
    <3> QED
      BY <1>13, <1>14, <1>21, <3>2, WrittenKept, Zenon
  <2>2. Holds(v, m, at.buf) /\ Holds(v, m + Len(at.buf), CompressEnd(t))
    BY <1>13, <1>18, <1>21, <2>1, Zenon DEF Padded, Written
  <2>3. Holds(v, m, bytes)
    BY <1>13, <1>22, <2>2, HoldsParts, Zenon
  <2> QED
    BY <1>13, <2>1, <2>3, Zenon DEF Written
<1>25. Ended(image, u, v, T + K)
  <2>1. PICK n \in Nat : n = w.n
    BY DEF CoderTrace, CodesOk, TraceType
  <2>2. u.n = n + 1 /\ u.code[n] = t.prefix /\ u.size[n] = s /\ u.at[u.n] = w.at[n] + (P - w.at[n])
    BY <1>8, <1>14, <2>1, Zenon DEF OneMore
  <2>3. u.n # 0 /\ u.n - 1 = n
    <3>1. u.n = n + 1
      BY <2>2
    <3> QED
      BY <2>1, <3>1
  <2>4. u.at[u.n] = P
    <3>1. w.at[n] \in Nat
      <4>1. TraceType(w)
        BY Zenon DEF CoderTrace, CodesOk
      <4> QED
        BY <2>1, <4>1, Zenon DEF TraceType
    <3>2. PICK a \in Nat : a = w.at[n]
      BY <3>1
    <3>3. a + (P - a) = P
      BY <3>2
    <3> QED
      BY <2>2, <3>2, <3>3, Zenon
  <2>5. u.off[u.n] + s <= ByteBits * (T + K)
    <3>1. PICK a \in Nat : a = u.off[u.n]
      <4>1. TraceType(u)
        BY <1>14, Zenon DEF CodesOk
      <4>2. u.n \in Nat /\ u.off \in [Nat -> Nat]
        BY <4>1, Zenon DEF TraceType
      <4> QED
        BY <4>2
    <3>2. a + r = ByteBits * (T + K)
      BY <1>21, <3>1, Zenon DEF Padded
    <3>3. a + s <= a + r
      <4>1. r = s + pad /\ s \in Nat /\ pad \in Nat
        BY <1>8, <1>17, <1>20
      <4> QED
        BY <3>1, <4>1
    <3> QED
      BY <3>1, <3>2, <3>3, Zenon
  <2> QED
    BY <1>1, <1>12, <1>14, <1>19, <2>2, <2>3, <2>4, <2>5, Zenon DEF Ended
<1> QED
  BY <1>23, <1>24, <1>25, Zenon

(* What a finished save leaves: a file of all codes of the picture and the *)
(* end code behind them, if the medium did not fill up.                    *)
LEMMA FinishSaveTrace ==
  ASSUME CoderInv, FinishSave, ~full, ~full', HasTrace(image, enc, save, file)
  PROVE  HasFile(image', file')
<1> HIDE DEF Pow2
<1>1. PICK bytes : bytes = save.buf \o CompressEnd(enc)
  OBVIOUS
<1>2. /\ phase = "saving" /\ save.y >= image.height /\ image' = image
      /\ Store(Append(LastBlocks(bytes), End))
  BY <1>1 DEF FinishSave
<1>3. file' = file \o Append(LastBlocks(bytes), End)
  BY <1>2 DEF Store
<1>4. /\ image \in Images /\ CoderType(enc) /\ TableInv(image, enc)
      /\ save.buf \in Seq(Bytes) /\ Len(save.buf) < BlockLen
      /\ BitsInv(image, enc, save.buf)
  BY Zenon DEF CoderInv, CoderOk
<1>5. file \in Seq(Blocks) /\ \A b \in 1..Len(file) : Len(file[b].bytes) = BlockLen
  BY <1>2, WholeBlocks
<1>6. PICK w, P : P \in Nat /\ CoderTrace(image, w, P, enc, save, file)
  BY Zenon DEF HasTrace
<1>7. PICK u, v, T : /\ T \in Nat /\ T = Len(file) * BlockLen + Len(bytes)
                     /\ Ended(image, u, v, T) /\ Written(v, file, bytes)
  BY <1>1, <1>2, <1>4, <1>5, <1>6, LastCodes, Zenon
<1>8. bytes \in Seq(Bytes) /\ Len(bytes) \in 1..2 * BlockLen
  <2>1. CompressEnd(enc) \in Seq(Bytes) /\ Len(CompressEnd(enc)) \in 1..8
    BY <1>4, EndBytes, Zenon
  <2>2. PICK l, k \in Nat : l = Len(save.buf) /\ k = Len(CompressEnd(enc)) /\ l < BlockLen /\ k \in 1..8
    <3>1. Len(save.buf) \in Nat
      BY <1>4
    <3>2. Len(CompressEnd(enc)) \in Nat
      BY <2>1
    <3> QED
      BY <1>4, <2>1, <3>1, <3>2, Zenon
  <2>3. bytes \in Seq(Bytes) /\ Len(bytes) = l + k
    <3>1. bytes \in Seq(Bytes) /\ Len(bytes) = Len(save.buf) + Len(CompressEnd(enc))
      BY <1>1, <1>4, <2>1
    <3> QED
      BY <2>2, <3>1, Zenon
  <2>4. l + k \in 1..2 * BlockLen
    <3>1. PICK b \in Nat : b = BlockLen /\ b > 6
      BY ByteWidth
    <3>2. l < b /\ k \in 1..8 /\ b > 6
      BY <2>2, <3>1, Zenon
    <3>3. l + k \in 1..2 * b
      BY <3>2
    <3> QED
      BY <3>1, <3>3, Zenon
  <2> QED
    BY <2>3, <2>4
<1>9. Filled(v, T, file')
  BY <1>3, <1>5, <1>7, <1>8, LastOneOrTwo, Zenon
<1> QED
  BY <1>2, <1>7, <1>9, Zenon DEF HasFile
=============================================================================
