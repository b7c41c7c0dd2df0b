------------------------------- MODULE GifSave -------------------------------
(***************************************************************************)
(* Saving the pixels of one frame of a GIF (FreeImage/PluginGIF.cpp): the  *)
(* compressing half of StringTable, an LZW coder with a bit buffer, and    *)
(* the loop of Save that cuts its bytes into sub-blocks.                   *)
(*                                                                         *)
(* The numbers of the code are parameters: a byte has ByteBits bits (8), a *)
(* code at most CodeBits (12), a sub-block BlockLen bytes (255), the array *)
(* for the last bytes LastLen (4).  enc is the StringTable object, its     *)
(* fields the members without "m_"; strmap has in its domain only the      *)
(* pairs that were entered.  Bits are joined with + where the code says |: *)
(* CoderInRange says why that is the same.                                 *)
(*                                                                         *)
(* A write to the file may fail and then fails for good; Save looks at no  *)
(* result.  Beside some helpers stand mutants of them, used by nothing: a  *)
(* property is tested by putting a mutant in the place of its helper.      *)
(***************************************************************************)
EXTENDS Integers, Sequences

CONSTANTS
  ByteBits,  \* bits of a byte
  CodeBits,  \* bits of the longest code
  BlockLen,  \* bytes of a full sub-block
  LastLen,   \* bytes of the array `last` of Save
  Images,    \* the pictures that are saved
  MayFail    \* whether a write to the file may fail

(* Powers of two: where the code shifts left and masks.                     *)
Pow2[n \in Nat] == IF n = 0 THEN 1 ELSE 2 * Pow2[n - 1]

ASSUME WidthAssumption ==
  /\ ByteBits \in Nat \ {0, 1}
  /\ CodeBits \in Nat /\ ByteBits < CodeBits /\ CodeBits < 2 * ByteBits
  /\ BlockLen \in Nat /\ BlockLen > 6
  /\ LastLen \in Nat /\ ByteBits * LastLen >= 2 * CodeBits + ByteBits - 1
  /\ MayFail \in BOOLEAN
ASSUME ImageAssumption ==
  \A i \in Images :
    /\ i.width \in Nat \ {0} /\ i.height \in Nat \ {0}
    /\ i.bpp \in 1..ByteBits /\ ByteBits % i.bpp = 0
    /\ i.interlaced \in BOOLEAN
    /\ i.pixel \in [(0..i.height-1) \X (0..i.width-1) -> 0..Pow2[i.bpp]-1]

VARIABLES
  phase,  \* "saving", "saved" or "overrun", and what loading makes of it
  image,  \* the picture that is saved
  enc,    \* the StringTable that compresses
  save,   \* Save's own variables: the row, the interlace pass and buf
  file,   \* the sub-blocks in the file
  full    \* whether a write has failed

saveVars == <<enc, save>>
fileVars == <<file, full>>

-----------------------------------------------------------------------------
MaxCode == Pow2[CodeBits]
MinCodeSize(i) == IF i.bpp = 1 THEN 2 ELSE i.bpp
ClearCode(i) == Pow2[MinCodeSize(i)]
EndCode(i) == ClearCode(i) + 1

Smaller(a, b) == IF a < b THEN a ELSE b
CeilDiv(a, b) == (a + b - 1) \div b

(* The bit buffer of a StringTable: codes go in above, bytes leave below.  *)
PutCode(t, code) == [t EXCEPT !.partial = @ + code * Pow2[t.partialSize],
                              !.partialSize = @ + t.codeSize]
FullBytes_AtMostOne(t, room) ==
  IF t.partialSize >= ByteBits /\ room > 0 THEN 1 ELSE 0
FullBytes(t, room) == Smaller(t.partialSize \div ByteBits, room)
DropBits(t, n) == [t EXCEPT !.partial = @ \div Pow2[n], !.partialSize = @ - n]
LowBytes(t, n) ==
  [k \in 1..n |-> (t.partial \div Pow2[ByteBits * (k-1)]) % Pow2[ByteBits]]

(* The rows in the order Save writes and Load fills them; interlacepass is *)
(* advanced by one when a pass ends, whether or not the next has a row.    *)
Offset == [pass \in 0..3 |-> <<0, 4, 2, 1>>[pass + 1]]
Increment == [pass \in 0..3 |-> <<8, 8, 4, 2>>[pass + 1]]
NextRow_PassFirst(i, at) ==
  LET below == at.y + Increment[at.pass]
  IN IF ~i.interlaced THEN [at EXCEPT !.y = @ + 1]
     ELSE IF below <= i.height THEN [at EXCEPT !.y = below]
     ELSE IF at.pass = 3 THEN [at EXCEPT !.y = below, !.pass = 4]
     ELSE [at EXCEPT !.y = Offset[at.pass + 1], !.pass = @ + 1]
NextRow(i, at) ==
  LET below == at.y + Increment[at.pass]
  IN IF ~i.interlaced THEN [at EXCEPT !.y = @ + 1]
     ELSE IF below < i.height THEN [at EXCEPT !.y = below]
     ELSE IF at.pass = 3 THEN [at EXCEPT !.y = below, !.pass = 4]
     ELSE [at EXCEPT !.y = Offset[at.pass + 1], !.pass = @ + 1]

-----------------------------------------------------------------------------
ClearedCompressor(i, t) ==
  [t EXCEPT !.strmap = << >>, !.nextCode = EndCode(i) + 1, !.prefix = 0,
            !.codeSize = MinCodeSize(i) + 1]

FillBuffer(i, t) ==
  [t EXCEPT !.bufferPos = 0, !.bufferShift = ByteBits - i.bpp]
LineBytes(i) == CeilDiv(i.width * i.bpp, ByteBits)
Slack(i) == (ByteBits - ((i.width * i.bpp) % ByteBits)) % ByteBits

(* Initialize, CompressStart and the first FillInputBuffer *)
StartedCompressor(i) ==
  FillBuffer(i, [partial |-> ClearCode(i), partialSize |-> MinCodeSize(i) + 1,
                 codeSize |-> MinCodeSize(i) + 1, nextCode |-> EndCode(i) + 1,
                 prefix |-> 0, strmap |-> << >>, firstPixelPassed |-> FALSE,
                 bufferPos |-> 0, bufferShift |-> 0])

(* the pixel under the byte and the shift the compressor has got to *)
CurrentPixel ==
  image.pixel[<<save.y, (enc.bufferPos * ByteBits + ByteBits - image.bpp
                          - enc.bufferShift) \div image.bpp>>]
InLine == enc.bufferPos < LineBytes(image)

(* to the next pixel of the byte, or to the next byte; in the last byte of *)
(* a line the slack is left out                                            *)
Advance(i, t) ==
  IF t.bufferShift > 0
     /\ ~(t.bufferPos + 1 = LineBytes(i) /\ t.bufferShift <= Slack(i))
  THEN [t EXCEPT !.bufferShift = @ - i.bpp]
  ELSE [t EXCEPT !.bufferPos = @ + 1, !.bufferShift = ByteBits - i.bpp]

(* The pair becomes a string under the next code, and codes grow by a bit  *)
(* when the next code no longer fits; the last code of all clears the      *)
(* table, here and, by the clear code, in whoever reads the file.          *)
Enter(t, pair, grow) ==
  [t EXCEPT !.strmap = [p \in DOMAIN @ \union {pair} |->
                          IF p = pair THEN t.nextCode ELSE @[p]],
            !.codeSize = IF grow THEN @ + 1 ELSE @,
            !.nextCode = @ + 1]
ClearWhenOut(i, t) ==
  IF t.nextCode = MaxCode
  THEN ClearedCompressor(i, PutCode(t, ClearCode(i))) ELSE t
Learn_LateGrowth(i, t, pair) ==
  ClearWhenOut(i, Enter(t, pair, t.nextCode > Pow2[t.codeSize]))
Learn_NeverClears(i, t, pair) == Enter(t, pair, t.nextCode = Pow2[t.codeSize])
Learn(i, t, pair) ==
  ClearWhenOut(i, Enter(t, pair, t.nextCode = Pow2[t.codeSize]))

-----------------------------------------------------------------------------
Block(bytes) == [len |-> Len(bytes), bytes |-> bytes]
End == [len |-> 0, bytes |-> << >>]  \* the block terminator and the trailer

(* What a file keeps of some sub-blocks when the medium fills up: those    *)
(* before, and of the next one nothing or the byte with its length.        *)
Stumps(blocks) ==
  {SubSeq(blocks, 1, n) : n \in 0..Len(blocks)-1} \union
  {Append(SubSeq(blocks, 1, n-1), [blocks[n] EXCEPT !.bytes = << >>]) :
     n \in {k \in 1..Len(blocks) : blocks[k] # End}}

Store(blocks) ==
  \/ full /\ UNCHANGED fileVars
  \/ ~full /\ file' = file \o blocks /\ UNCHANGED full
  \/ /\ ~full /\ MayFail
     /\ \E stump \in Stumps(blocks) : file' = file \o stump
     /\ full' = TRUE

(* The code of the last prefix and the end code, to the last bit.          *)
CompressEnd(t) ==
  LET all == PutCode(PutCode(t, t.prefix), EndCode(image))
  IN LowBytes(all, CeilDiv(all.partialSize, ByteBits))

(* one last full sub-block, and possibly a tiny additional one *)
LastBlocks_AlwaysTwo(bytes) ==
  IF Len(bytes) < BlockLen THEN <<Block(bytes)>>
  ELSE <<Block(SubSeq(bytes, 1, BlockLen)),
         Block(SubSeq(bytes, BlockLen + 1, Len(bytes)))>>
LastBlocks(bytes) ==
  IF Len(bytes) <= BlockLen THEN <<Block(bytes)>>
  ELSE <<Block(SubSeq(bytes, 1, BlockLen)),
         Block(SubSeq(bytes, BlockLen + 1, Len(bytes)))>>

-----------------------------------------------------------------------------
SaveInit ==
  /\ phase = "saving"
  /\ image \in Images
  /\ enc = StartedCompressor(image)
  /\ save = [y |-> 0, pass |-> 0, buf |-> << >>]
  /\ file = << >>
  /\ full = FALSE

(* The first pixel of the image is a prefix without a table lookup. *)
FirstPixel ==
  /\ phase = "saving" /\ InLine
  /\ ~enc.firstPixelPassed
  /\ enc' = Advance(image, [enc EXCEPT !.firstPixelPassed = TRUE,
                                       !.prefix = CurrentPixel])
  /\ UNCHANGED <<phase, image, save, fileVars>>

(* A pixel that continues a string of the table *)
ExtendPrefix ==
  /\ phase = "saving" /\ InLine
  /\ enc.firstPixelPassed
  /\ <<enc.prefix, CurrentPixel>> \in DOMAIN enc.strmap
  /\ enc' = Advance(image,
              [enc EXCEPT !.prefix = enc.strmap[<<@, CurrentPixel>>]])
  /\ UNCHANGED <<phase, image, save, fileVars>>

(* A pixel that does not: the code of the prefix goes out, in as many full *)
(* bytes as buf takes; when buf is full Save writes it and calls again.    *)
EmitCode ==
  /\ phase = "saving" /\ InLine
  /\ enc.firstPixelPassed
  /\ LET pair == <<enc.prefix, CurrentPixel>>
         put == PutCode(enc, enc.prefix)
         n == FullBytes(put, BlockLen - Len(save.buf))
         bytes == save.buf \o LowBytes(put, n)
         learnt == Learn(image, DropBits(put, n * ByteBits), pair)
     IN /\ pair \notin DOMAIN enc.strmap
        /\ enc' = Advance(image, [learnt EXCEPT !.prefix = CurrentPixel])
        /\ IF Len(bytes) = BlockLen
           THEN save' = [save EXCEPT !.buf = << >>] /\ Store(<<Block(bytes)>>)
           ELSE save' = [save EXCEPT !.buf = bytes] /\ UNCHANGED fileVars
  /\ UNCHANGED <<phase, image>>

FinishLine ==
  /\ phase = "saving" /\ save.y < image.height
  /\ ~InLine
  /\ save' = NextRow(image, save)
  /\ enc' = IF save'.y < image.height THEN FillBuffer(image, enc) ELSE enc
  /\ UNCHANGED <<phase, image, fileVars>>

(* CompressEnd, the last sub-blocks, the terminator, and Close's trailer.  *)
(* When the array `last` is too short for the bytes, what they overwrite   *)
(* may be spare, and saving goes on as if it was long enough.              *)
FinishSave ==
  /\ phase = "saving" /\ save.y >= image.height
  /\ Store(Append(LastBlocks(save.buf \o CompressEnd(enc)), End))
  /\ phase' = "saved"
  /\ UNCHANGED <<image, saveVars>>

(* Or it is not spare; from there on nothing is known of the program.      *)
OverrunLast ==
  /\ phase = "saving" /\ save.y >= image.height
  /\ Len(CompressEnd(enc)) > LastLen
  /\ phase' = "overrun"
  /\ UNCHANGED <<image, saveVars, fileVars>>

SaveStep ==
  \/ FirstPixel \/ ExtendPrefix \/ EmitCode \/ FinishLine
  \/ FinishSave \/ OverrunLast
=============================================================================
