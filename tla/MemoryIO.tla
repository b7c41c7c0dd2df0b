------------------------------ MODULE MemoryIO ------------------------------
(***************************************************************************)
(* Memory streams (FreeImage/MemoryIO.cpp and the memory procedures of     *)
(* FreeImageIO.cpp): a FreeImageIO over a buffer that grows as it is       *)
(* written, or over a buffer of the user's.                                *)
(*                                                                         *)
(* The numbers of the code are parameters: First is 4096, Half 0x40000000, *)
(* Top 0x7FFFFFFF.  A long holds 64 bits, as in the builds for Linux, and  *)
(* no request is so large that size * count leaves 32 bits.                *)
(*                                                                         *)
(* Growing a buffer is a loop of reallocations, each a step, for any of    *)
(* them may fail.  Beside some helpers stand mutants of them, used by      *)
(* nothing: a property is tested by putting a mutant in the place of its   *)
(* helper.                                                                 *)
(***************************************************************************)
EXTENDS Integers, Sequences

CONSTANTS
  First,         \* the size of a buffer's first allocation
  Half,          \* the size from which on a buffer is not doubled
  Top,           \* the largest size of a buffer
  UserSizes,     \* the sizes of the buffers that users wrap
  Sizes,         \* the sizes of items
  Counts,        \* how many items are read or written at once
  Offsets,       \* the offsets of seeks
  Labels,        \* tell the writes apart
  MaxPosition,   \* bound: no seek or write goes behind it
  Hole           \* a byte of a buffer that was never written

ASSUME GrowthAssumption ==
  /\ First \in Nat \ {0} /\ Half \in Nat
  /\ First <= Half
  /\ Top = 2 * Half - 1
ASSUME RequestAssumption ==
  /\ UserSizes \subseteq 1..Top
  /\ Sizes \subseteq Nat \ {0}
  /\ Counts \subseteq Nat
  /\ Offsets \subseteq Int
  /\ MaxPosition \in Nat

VARIABLES
  deleteMe,    \* delete_me: the buffer is the stream's own
  data,        \* the buffer; its length is data_length
  fileLength,  \* file_length
  position,    \* current_position
  call,        \* the write in progress
  answer       \* what the last call returned

headerVars == <<deleteMe, data, fileLength>>
vars == <<headerVars, position, call, answer>>

-----------------------------------------------------------------------------
Smaller(a, b) == IF a < b THEN a ELSE b
Larger(a, b) == IF a < b THEN b ELSE a
Byte(label, k) == <<label, k>>
UserBuffer(n) == [k \in 1..n |-> Byte("user", k)]
Nothing == << >>
Reply(items, bytes) == [items |-> items, bytes |-> bytes]

NoCall == [kind |-> "none", label |-> "none", size |-> 0, count |-> 0]
Idle == call.kind = "none"

(* FreeImage_OpenMemory, with a buffer of the user's or without one.       *)
Init ==
  /\ \/ /\ deleteMe = FALSE
        /\ \E n \in UserSizes : data = UserBuffer(n)
        /\ fileLength = Len(data)
     \/ /\ deleteMe = TRUE
        /\ data = Nothing
        /\ fileLength = 0
  /\ position = 0
  /\ call = NoCall
  /\ answer = Reply(0, Nothing)

(* _MemoryReadProc: an item that is not all there ends the loop, and what  *)
(* there is of it is copied.                                               *)
Items(size, count) == Smaller(count, Larger(fileLength - position, 0) \div size)

MemoryRead(size, count) ==
  /\ Idle
  /\ LET x == Items(size, count)
         copied == IF x < count THEN Larger(fileLength - position, 0) ELSE x * size
     IN /\ answer' = Reply(x, [k \in 1..copied |-> data[position + k]])
        /\ position' = IF x < count THEN fileLength ELSE position + copied
  /\ UNCHANGED <<headerVars, call>>

(* FreeImage_WriteMemory and FreeImage_SaveToMemory "do not write in a     *)
(* user buffer".  FreeImage_SaveMultiBitmapToMemory hands the stream to    *)
(* the plugin without a look, and the procedures do not look either: its   *)
(* writes begin on the buffer of a user as on any other, although          *)
(* FreeImageIO.h says that it is read only.                                *)
RefuseWrite ==
  /\ Idle
  /\ ~deleteMe
  /\ answer' = Reply(0, Nothing)
  /\ UNCHANGED <<headerVars, position, call>>

BeginWrite(label, size, count) ==
  /\ Idle
  /\ position + size * count <= MaxPosition
  /\ call' = [kind |-> "write", label |-> label, size |-> size, count |-> count]
  /\ UNCHANGED <<headerVars, position, answer>>

(* _MemoryWriteProc: as long as the buffer has no room, and one byte more, *)
(* it is reallocated.                                                      *)
Length == call.size * call.count
HasLastByte == position + Length <= Len(data) + 1
HasRoom == position + Length < Len(data)

AtLimit == Len(data) > Top
TooLarge == Len(data) = Top
NewLength ==
  IF Len(data) >= Half THEN Top ELSE IF Len(data) = 0 THEN First ELSE 2 * Len(data)

Grow ==
  /\ call.kind = "write"
  /\ ~HasRoom
  /\ ~TooLarge
  /\ data' = [k \in 1..NewLength |-> IF k <= Len(data) THEN data[k] ELSE Hole]
  /\ UNCHANGED <<deleteMe, fileLength, position, call, answer>>

WriteFails ==
  /\ call.kind = "write"
  /\ ~HasRoom
  /\ call' = NoCall
  /\ answer' = Reply(0, Nothing)
  /\ UNCHANGED <<headerVars, position>>
LargestIsFull == TooLarge /\ WriteFails
NoMemory == ~TooLarge /\ WriteFails

(* Then the items are copied.                                              *)
LengthWritten == position + Length
LengthAfter == Larger(fileLength, position + Length)

CopyIn ==
  /\ call.kind = "write"
  /\ HasRoom
  /\ data' = [k \in 1..Len(data) |->
                IF position < k /\ k <= position + Length
                  THEN Byte(call.label, k - position) ELSE data[k]]
  /\ position' = position + Length
  /\ fileLength' = LengthAfter
  /\ call' = NoCall
  /\ answer' = Reply(call.count, Nothing)
  /\ UNCHANGED deleteMe

AnyTarget(target) == TRUE
Reachable(target) == target >= 0

(* _MemorySeekProc, base by origin, and _MemoryTellProc.                   *)
Bases == {0, position, fileLength}
MemorySeek(target) ==
  /\ Idle
  /\ target <= MaxPosition
  /\ position' = IF Reachable(target) THEN target ELSE position
  /\ answer' = Reply(IF Reachable(target) THEN 0 ELSE -1, Nothing)
  /\ UNCHANGED <<headerVars, call>>

MemoryTell ==
  /\ Idle
  /\ answer' = Reply(position, Nothing)
  /\ UNCHANGED <<headerVars, position, call>>

(* FreeImage_AcquireMemory: the buffer, as it is now, and file_length.     *)
AcquireMemory ==
  /\ Idle
  /\ answer' = Reply(fileLength, [k \in 1..fileLength |-> data[k]])
  /\ UNCHANGED <<headerVars, position, call>>

WriteStep == Grow \/ CopyIn \/ LargestIsFull

Next ==
  \/ \E size \in Sizes, count \in Counts :
       \/ MemoryRead(size, count)
       \/ \E label \in Labels : BeginWrite(label, size, count)
  \/ RefuseWrite
  \/ WriteStep
  \/ NoMemory
  \/ \E base \in Bases, offset \in Offsets : MemorySeek(base + offset)
  \/ MemoryTell
  \/ AcquireMemory

(* A write is one call and goes on by itself; it does not count on running *)
(* out of memory to end.                                                   *)
Spec == Init /\ [][Next]_vars /\ WF_vars(WriteStep)

-----------------------------------------------------------------------------
Datum == ((Labels \cup {"user"}) \X Nat) \cup {Hole}
TypeOK ==
  /\ deleteMe \in BOOLEAN
  /\ data \in Seq(Datum)
  /\ fileLength \in Nat
  /\ position \in Nat
  /\ \/ call = NoCall
     \/ call \in [kind : {"write"}, label : Labels, size : Sizes, count : Counts]

(* "whose size is greater than or equal to file_length": what is read is   *)
(* in the buffer, wherever the position is and whatever reallocation       *)
(* failed.                                                                 *)
BufferCovers == fileLength <= Len(data)

(* A stream is a file of bytes: a write that had to grow the buffer, or    *)
(* gave up growing it, keeps every byte; short reads count full items.     *)
File == INSTANCE ByteFile WITH
  Documents <- {Nothing} \cup {UserBuffer(n) : n \in UserSizes},
  contents <- [k \in 1..fileLength |-> data[k]]
IsByteFile == File!Spec

(* Every write returns: the buffer grows until there is room or until its  *)
(* size is the largest.                                                    *)
WritesEnd == call.kind = "write" ~> Idle
=============================================================================
