------------------------------- MODULE GifLoad -------------------------------
(***************************************************************************)
(* Loading the frame that GifSave wrote (FreeImage/PluginGIF.cpp): the     *)
(* scan of Open, the decompressing half of StringTable and the loop of     *)
(* Load that puts what comes out into the scanlines of a new bitmap.       *)
(*                                                                         *)
(* OutLen is the length of the array Decompress fills (4096).  dec is the  *)
(* StringTable object; bufferPos counts the bytes it has taken.  Files     *)
(* that other programs wrote are not modelled.                             *)
(***************************************************************************)
EXTENDS GifSave

CONSTANT OutLen  \* pixels Decompress returns at most
ASSUME OutAssumption == OutLen \in Nat /\ OutLen >= Pow2[CodeBits]

VARIABLES
  dec,   \* the StringTable that decompresses
  load,  \* Load's own variables, and how far it has got
  shown  \* the pixels of the loaded bitmap

loadVars == <<dec, load, shown>>
vars == <<phase, image, saveVars, fileVars, loadVars>>

Blank == -1    \* a pixel never written: 0 in the code, where bits are ORed
Smeared == -2  \* a pixel written twice
None == MaxCode  \* m_oldCode after a clear

-----------------------------------------------------------------------------
Codes == 0..MaxCode-1

ClearedDecompressor(i, t) ==
  [t EXCEPT !.strings = [c \in Codes |-> IF c < ClearCode(i) THEN <<c>> ELSE @[c]],
            !.nextCode = EndCode(i) + 1,
            !.codeSize = MinCodeSize(i) + 1,
            !.oldCode = None]
StartedDecompressor(i) ==
  ClearedDecompressor(i,
    [strings |-> [c \in Codes |-> << >>], nextCode |-> 0, codeSize |-> 0,
     oldCode |-> None, partial |-> 0, partialSize |-> 0, done |-> FALSE,
     buffer |-> << >>, bufferSize |-> 0, bufferPos |-> 0])

LowCode(t) == t.partial % Pow2[t.codeSize]

(* The string of a code is added when the code after it comes, of which    *)
(* only the first pixel is needed.                                         *)
Grows(t) == t.oldCode # None /\ t.nextCode < MaxCode
AddString(t, code) ==
  IF Grows(t)
  THEN [t EXCEPT !.strings[t.nextCode] = Append(t.strings[t.oldCode],
          Head(t.strings[IF code = t.nextCode THEN t.oldCode ELSE code]))]
  ELSE t

(* Codes grow by a bit when the next code no longer fits, but for the last *)
Count(t) ==
  IF ~Grows(t) THEN t
  ELSE [t EXCEPT !.nextCode = @ + 1,
          !.codeSize = IF /\ t.nextCode + 1 < MaxCode
                          /\ (t.nextCode + 1) % Pow2[t.codeSize] = 0
                       THEN @ + 1 ELSE @]

(* out of space, stuff the code back in for next time *)
StuffBack_OnTop(t, code, rest) ==
  [t EXCEPT !.partial = rest.partial + code * Pow2[rest.partialSize],
            !.partialSize = rest.partialSize + t.codeSize]
StuffBack_NotCounted(t, code, rest) ==
  [t EXCEPT !.partial = rest.partial * Pow2[t.codeSize] + code,
            !.partialSize = rest.partialSize]
StuffBack_DropsRest(t, code, rest) ==
  [t EXCEPT !.partial = code, !.partialSize = t.codeSize]
StuffBack(t, code, rest) ==
  [t EXCEPT !.partial = rest.partial * Pow2[t.codeSize] + code,
            !.partialSize = rest.partialSize + t.codeSize]

Or(old, new) == IF old = Blank THEN new ELSE Smeared

-----------------------------------------------------------------------------
Init ==
  /\ SaveInit
  /\ dec = StartedDecompressor(image)
  /\ load = [next |-> 1, at |-> "block", buf |-> << >>,
             x |-> 0, y |-> 0, pass |-> 0]
  /\ shown = [cell \in DOMAIN image.pixel |-> Blank]

(* Open goes through all blocks of a file before a page is loaded, and     *)
(* refuses one that ends before its trailer.                               *)
Complete_NoScan(blocks) == blocks # << >>
Complete(blocks) == blocks # << >> /\ blocks[Len(blocks)] = End
Open ==
  /\ phase = "saved"
  /\ phase' = IF Complete(file) THEN "loading" ELSE "refused"
  /\ UNCHANGED <<image, saveVars, fileVars, loadVars>>

(* At the end of the file a read leaves the length and the buffer alone. *)
ReadBlock ==
  /\ phase = "loading" /\ load.at = "block"
  /\ load.next <= Len(file) => file[load.next] # End
  /\ LET more == load.next <= Len(file)
         bytes == IF more THEN file[load.next].bytes ELSE dec.buffer
     IN /\ dec' = [dec EXCEPT !.buffer = bytes, !.bufferSize = Len(bytes),
                              !.bufferPos = 0]
        /\ load' = [load EXCEPT !.next = IF more THEN @ + 1 ELSE @,
                                !.at = IF dec.done THEN "block" ELSE "byte"]
  /\ UNCHANGED <<phase, image, saveVars, fileVars, shown>>

FinishLoad ==
  /\ phase = "loading" /\ load.at = "block"
  /\ load.next <= Len(file) /\ file[load.next] = End
  /\ phase' = "loaded"
  /\ UNCHANGED <<image, saveVars, fileVars, loadVars>>

(* The outer loop of Decompress: a byte is taken on entry, and whenever    *)
(* the bits left are no whole code.                                        *)
WantsByte ==
  /\ phase = "loading"
  /\ \/ load.at = "byte"
     \/ load.at = "codes" /\ dec.partialSize < dec.codeSize

TakeByte ==
  /\ WantsByte
  /\ dec.bufferPos < dec.bufferSize
  /\ dec' = [dec EXCEPT
       !.partial = @ + dec.buffer[dec.bufferPos + 1] * Pow2[dec.partialSize],
       !.partialSize = @ + ByteBits,
       !.bufferPos = @ + 1]
  /\ load' = [load EXCEPT !.at = "codes"]
  /\ UNCHANGED <<phase, image, saveVars, fileVars, shown>>

EndOfBuffer ==
  /\ WantsByte
  /\ dec.bufferPos >= dec.bufferSize
  /\ dec' = [dec EXCEPT !.bufferSize = 0]
  /\ load' = [load EXCEPT !.at = "show"]
  /\ UNCHANGED <<phase, image, saveVars, fileVars, shown>>

HasCode ==
  /\ phase = "loading" /\ load.at = "codes"
  /\ dec.partialSize >= dec.codeSize
IsEnd(t) == LowCode(t) > t.nextCode \/ LowCode(t) = EndCode(image)

TakeEndCode ==
  /\ HasCode
  /\ IsEnd(dec)
  /\ dec' = [DropBits(dec, dec.codeSize) EXCEPT !.done = TRUE]
  /\ load' = [load EXCEPT !.at = "show"]
  /\ UNCHANGED <<phase, image, saveVars, fileVars, shown>>

TakeClearCode ==
  /\ HasCode
  /\ LowCode(dec) = ClearCode(image)
  /\ dec' = ClearedDecompressor(image, DropBits(dec, dec.codeSize))
  /\ UNCHANGED <<phase, image, saveVars, fileVars, load, shown>>

TakeCode ==
  /\ HasCode
  /\ LET code == LowCode(dec)
         rest == DropBits(dec, dec.codeSize)
         added == AddString(rest, code)
         string == added.strings[code]
     IN /\ ~IsEnd(dec) /\ code # ClearCode(image)
        /\ IF Len(string) <= OutLen - Len(load.buf)
           THEN /\ dec' = [Count(added) EXCEPT !.oldCode = code]
                /\ load' = [load EXCEPT !.buf = @ \o string]
           ELSE /\ dec' = StuffBack(added, code, rest)
                /\ load' = [load EXCEPT !.at = "show"]
  /\ UNCHANGED <<phase, image, saveVars, fileVars, shown>>

(* Load's loop over what a call of Decompress returned; when the picture   *)
(* is complete the rest of it is dropped and Decompress told to stop.      *)
ShowPixel ==
  /\ phase = "loading" /\ load.at = "show" /\ load.buf # << >>
  /\ LET cell == <<load.y, load.x>>
         after == IF load.x + 1 < image.width
                  THEN [load EXCEPT !.x = @ + 1]
                  ELSE NextRow(image, [load EXCEPT !.x = 0])
         complete == after.y >= image.height
     IN /\ shown' = [shown EXCEPT
             ![cell] = Or(@, Head(load.buf) % Pow2[image.bpp])]
        /\ load' = [after EXCEPT
             !.buf = IF complete THEN << >> ELSE Tail(@)]
        /\ dec' = [dec EXCEPT !.done = @ \/ complete]
  /\ UNCHANGED <<phase, image, saveVars, fileVars>>

(* Decompress is called again: it returns at once when it is done or the   *)
(* buffer is used up, and Load goes on with the next sub-block.            *)
CallAgain ==
  /\ phase = "loading" /\ load.at = "show" /\ load.buf = << >>
  /\ load' = [load EXCEPT
       !.at = IF dec.done \/ dec.bufferSize = 0 THEN "block" ELSE "byte"]
  /\ UNCHANGED <<phase, image, saveVars, fileVars, dec, shown>>

LoadStep ==
  \/ Open \/ ReadBlock \/ FinishLoad
  \/ TakeByte \/ EndOfBuffer \/ TakeEndCode \/ TakeClearCode \/ TakeCode
  \/ ShowPixel \/ CallAgain

Next == (SaveStep /\ UNCHANGED loadVars) \/ LoadStep

Spec == Init /\ [][Next]_vars
=============================================================================
