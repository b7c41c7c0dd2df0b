------------------------------ MODULE GifCodec ------------------------------
(***************************************************************************)
(* What holds of saving a GIF frame and loading it again.                  *)
(***************************************************************************)
EXTENDS GifLoad, FiniteSets

(* Both are plain loops of one thread: they go on while they can. *)
FairSpec == Spec /\ WF_vars(Next)

-----------------------------------------------------------------------------
Bytes == 0..Pow2[ByteBits]-1

(* The codes, buffers and positions stay in the ranges of their types. *)
TypeOK ==
  /\ phase \in {"saving", "overrun", "saved", "refused", "loading", "loaded"}
  /\ image \in Images
  /\ enc.prefix \in Codes /\ enc.nextCode \in Codes
  /\ enc.codeSize \in 1..CodeBits
  /\ enc.strmap \in [DOMAIN enc.strmap -> Codes]
  /\ enc.partial \in Nat /\ enc.partialSize \in Nat
  /\ enc.bufferPos \in 0..LineBytes(image)
  /\ enc.bufferShift \in 0..ByteBits-1
  /\ save.y \in Nat /\ save.pass \in 0..4 /\ save.buf \in Seq(Bytes)
  /\ full \in BOOLEAN
  /\ \A k \in 1..Len(file) : file[k].bytes \in Seq(Bytes)
  /\ dec.nextCode \in 0..MaxCode /\ dec.codeSize \in 1..CodeBits
  /\ dec.oldCode \in 0..MaxCode
  /\ \A c \in Codes : Len(dec.strings[c]) <= OutLen
  /\ dec.bufferPos \in 0..Len(dec.buffer)
  /\ load.at \in {"block", "byte", "codes", "show"}
  /\ Len(load.buf) <= OutLen
  /\ load.y \in Nat /\ load.x \in 0..image.width-1

(* m_partial of the coder: nothing lies above m_partialSize, so that an OR  *)
(* is a sum, the code to be put in is no longer than codes are, and what is *)
(* there after it fits an int; with 8 and 12 bits that is 32 bits of which  *)
(* the highest is never set.                                                *)
WordBits == 2 * CodeBits + MinCodeSize(image)
CoderInRange ==
  /\ enc.partial < Pow2[enc.partialSize]
  /\ enc.prefix < Pow2[enc.codeSize]
  /\ phase = "saving" =>
       PutCode(enc, enc.prefix).partial < Pow2[WordBits - 1]

(* m_partial of the decoder: nothing above m_partialSize, and of that never *)
(* two bytes more than a code needs.                                        *)
DecoderInRange ==
  /\ dec.partial < Pow2[dec.partialSize]
  /\ dec.partialSize < dec.codeSize + 2 * ByteBits

(* The file read as sub-blocks: none is empty, which would end the image    *)
(* data, and only the last is shorter than BlockLen; in a file that is not  *)
(* cut off the last one is followed by the terminator.                      *)
SubBlocksWellFormed ==
  \A k \in 1..Len(file) :
    /\ file[k] # End =>
         /\ file[k].len \in 1..BlockLen
         /\ k < Len(file) => Len(file[k].bytes) = file[k].len
         /\ k + 1 < Len(file) /\ file[k+1] # End => file[k].len = BlockLen
    /\ file[k] = End => k = Len(file) /\ phase # "saving"

(* What is left in m_partial between two pixels: less than a byte, but for  *)
(* a clear code that was just added, and for what found no room in a        *)
(* sub-block that was just full: of one code, or behind a clear code of two.*)
(* "most this can be is 4 bytes.  7 bits in m_partial to start", says the   *)
(* comment of CompressEnd, and `last` has 4 bytes: right when less than a   *)
(* byte is left over.  The array is overrun only where more is, and by no   *)
(* more than two codes make: with 8 and 12 bits, by two bytes.              *)
Leftover ==
  LET learnt == enc.nextCode - (EndCode(image) + 1)
  IN /\ enc.partialSize < CASE learnt = 0 -> 2 * CodeBits
                            [] learnt = 1 -> CodeBits + MinCodeSize(image) + 1
                            [] OTHER -> CodeBits
     /\ enc.partialSize < ByteBits \/ learnt = 0 \/ save.buf = << >>
     /\ phase = "overrun" =>
          /\ enc.partialSize >= ByteBits
          /\ ByteBits * Len(CompressEnd(enc)) < 4 * CodeBits + ByteBits

(* Loading puts into the bitmap what saving took from it, nothing else, and *)
(* no pixel twice.                                                          *)
Transfer == INSTANCE PictureTransfer WITH picture <- image.pixel
IsTransfer == Transfer!Spec

(* What the codes that are left in m_partial stand for: the pixels that     *)
(* Decompress would return for them, were it called once more.              *)
DecodeNext(d) ==
  LET code == LowCode(d.table)
      rest == DropBits(d.table, d.table.codeSize)
      added == AddString(rest, code)
  IN IF d.table.partialSize < d.table.codeSize \/ IsEnd(d.table) THEN d
     ELSE IF code = ClearCode(image)
     THEN [d EXCEPT !.table = ClearedDecompressor(image, rest)]
     ELSE [table |-> [Count(added) EXCEPT !.oldCode = code],
           pixels |-> d.pixels \o added.strings[code]]
AfterCodes[n \in Nat] ==
  IF n = 0 THEN [table |-> dec, pixels |-> << >>] ELSE DecodeNext(AfterCodes[n - 1])
PixelsLeft == IF dec.done THEN << >> ELSE AfterCodes[dec.partialSize].pixels

(* How many cells come before one, in the order of the passes.              *)
RowsBefore(y) ==
  CASE ~image.interlaced -> y
    [] image.interlaced /\ y % 8 = 0 -> y \div 8
    [] image.interlaced /\ y % 8 = 4 -> CeilDiv(image.height, 8) + y \div 8
    [] image.interlaced /\ y % 4 = 2 -> CeilDiv(image.height, 4) + y \div 4
    [] OTHER -> CeilDiv(image.height, 2) + y \div 2
CellsBefore(y, x) == RowsBefore(y) * image.width + x

(* An interlaced picture of two to four rows has no row 4: the passes that  *)
(* come after that of row 4 are not begun.                                  *)
ShortInterlaced == image.interlaced /\ image.height \in 2..4

(* The whole picture arrives, but for what two errors lose: of a short      *)
(* interlaced one all rows but the first; and, at its end, the pixels of    *)
(* codes that were stuffed back, or came behind one that was, when the last *)
(* byte of the image data was taken.  A pixel that does not arrive is one   *)
(* of these, at its place.                                                  *)
OnlyKnownLosses ==
  phase = "loaded" =>
    \A cell \in DOMAIN shown :
      \/ shown[cell] = image.pixel[cell]
      \/ ShortInterlaced /\ cell[1] # 0
      \/ LET n == CellsBefore(cell[1], cell[2]) - CellsBefore(load.y, load.x)
         IN /\ shown[cell] = Blank
            /\ n \in 0..Len(PixelsLeft)-1
            /\ PixelsLeft[n + 1] = image.pixel[cell]

(* The comment in Decompress: what is stuffed back is there "for next time" *)
EveryPixelArrives == phase = "loaded" => shown = image.pixel

(* Saving and loading end; loading has no other guard against the end of a  *)
(* file that is cut off than the scan of Open.                              *)
LoadEnds == <>(phase \in {"loaded", "refused", "overrun"})
=============================================================================
