--------------------------- MODULE MemoryIOProofs ---------------------------
(***************************************************************************)
(* Memory streams are files of bytes: the invariants of MemoryIO and the   *)
(* refinement of ByteFile, proved for every value of the constants.        *)
(***************************************************************************)
EXTENDS MemoryIO, TLAPS

(* The inductive invariant: the buffer covers the file, never exceeds Top, *)
(* and behind the end of the file it holds only bytes never written, which *)
(* become holes of the file when a write begins behind its end.            *)
TailUnwritten == \A k \in (fileLength + 1)..Len(data) : data[k] = Hole
IInv ==
  /\ TypeOK
  /\ BufferCovers
  /\ Len(data) <= Top
  /\ TailUnwritten

-----------------------------------------------------------------------------
(* The length of a request is a natural number.                            *)
LEMMA Product == \A a, b \in Nat : a * b \in Nat
OBVIOUS

(* The next size of the buffer is larger than the last, and at most Top.   *)
LEMMA LengthGrows ==
  ASSUME data \in Seq(Datum), Len(data) <= Top, ~TooLarge
  PROVE  NewLength \in Nat /\ Len(data) < NewLength /\ NewLength <= Top
BY GrowthAssumption DEF NewLength, TooLarge

(* The operands of a write that is in progress are those it began with.    *)
LEMMA WriteInProgress ==
  ASSUME TypeOK, call.kind = "write"
  PROVE  call.label \in Labels /\ call.size \in Sizes /\ call.count \in Counts
<1>1. call # NoCall
  BY DEF NoCall
<1> QED
  BY <1>1 DEF TypeOK

(* A stream that was just opened satisfies the inductive invariant.        *)
THEOREM InitInvariant == Init => IInv
<1> SUFFICES ASSUME Init PROVE IInv
  OBVIOUS
<1>1. CASE deleteMe = TRUE /\ data = Nothing /\ fileLength = 0
  <2>1. data \in Seq(Datum) /\ Len(data) = 0
    BY <1>1 DEF Nothing
  <2> QED
    BY <1>1, <2>1, GrowthAssumption DEF Init, IInv, TypeOK, BufferCovers, TailUnwritten
<1>2. CASE deleteMe = FALSE /\ (\E n \in UserSizes : data = UserBuffer(n))
                            /\ fileLength = Len(data)
  <2>1. PICK n \in UserSizes : data = UserBuffer(n)
    BY <1>2
  <2>2. n \in Nat /\ n <= Top
    BY RequestAssumption, GrowthAssumption
  <2>3. data \in Seq(Datum) /\ Len(data) = n
    BY <2>1, <2>2 DEF UserBuffer, Byte, Datum
  <2>4. TypeOK
    BY <1>2, <2>2, <2>3 DEF Init, TypeOK
  <2>5. fileLength = n
    BY <1>2, <2>3
  <2>6. TailUnwritten
    BY <2>2, <2>3, <2>5 DEF TailUnwritten
  <2> QED
    BY <2>2, <2>3, <2>4, <2>5, <2>6 DEF IInv, BufferCovers
<1> QED
  BY <1>1, <1>2 DEF Init

(* Every call keeps it, also where a reallocation fails.                   *)
THEOREM NextInvariant == IInv /\ [Next]_vars => IInv'
<1> SUFFICES ASSUME IInv, [Next]_vars PROVE IInv'
  OBVIOUS
<1> USE DEF IInv, TypeOK, BufferCovers, TailUnwritten
<1>1. ASSUME NEW size \in Sizes, NEW count \in Counts, MemoryRead(size, count) PROVE IInv'
  <2>1. /\ size \in Nat \ {0} /\ count \in Nat
        /\ Items(size, count) \in Nat
    BY RequestAssumption DEF Items, Smaller, Larger
  <2>2. Items(size, count) * size \in Nat
    BY <2>1, Product
  <2>3. position' \in Nat
    BY <1>1, <2>1, <2>2 DEF MemoryRead, Larger
  <2> QED
    BY <1>1, <2>3 DEF MemoryRead, headerVars
<1>2. ASSUME NEW label \in Labels, NEW size \in Sizes, NEW count \in Counts,
             BeginWrite(label, size, count)
      PROVE IInv'
  BY <1>2 DEF BeginWrite, headerVars
<1>3. CASE RefuseWrite
  BY <1>3 DEF RefuseWrite, headerVars
<1>4. CASE Grow
  <2>1. NewLength \in Nat /\ Len(data) < NewLength /\ NewLength <= Top
    BY <1>4, LengthGrows DEF Grow
  <2>2. data' = [k \in 1..NewLength |-> IF k <= Len(data) THEN data[k] ELSE Hole]
    BY <1>4 DEF Grow
  <2>3. data' \in Seq(Datum) /\ Len(data') = NewLength
    BY <2>1, <2>2 DEF Datum
  <2>4. TypeOK' /\ fileLength' = fileLength
    BY <1>4, <2>3 DEF Grow, NoCall
  <2>5. TailUnwritten'
    <3> SUFFICES ASSUME NEW k \in (fileLength + 1)..NewLength
                 PROVE  data'[k] = Hole
      BY <2>3, <2>4
    <3> QED
      BY <2>1, <2>2
  <2> QED
    BY <2>1, <2>3, <2>4, <2>5
<1>5. CASE CopyIn
  <2>1. call.label \in Labels /\ call.size \in Sizes /\ call.count \in Counts
    BY <1>5, WriteInProgress DEF CopyIn
  <2>2. Length \in Nat
    BY <2>1, Product, RequestAssumption DEF Length
  <2>3. data' = [k \in 1..Len(data) |->
                  IF position < k /\ k <= position + Length
                    THEN Byte(call.label, k - position) ELSE data[k]]
    BY <1>5 DEF CopyIn
  <2>4. \A k \in 1..Len(data) : position < k => Byte(call.label, k - position) \in Datum
    BY <2>1 DEF Byte, Datum
  <2>5. data' \in Seq(Datum) /\ Len(data') = Len(data)
    BY <2>3, <2>4
  <2>6. position' \in Nat /\ fileLength' = Larger(fileLength, position + Length)
    BY <1>5, <2>2 DEF CopyIn, LengthAfter
  <2>7. position + Length < Len(data)
    BY <1>5 DEF CopyIn, HasRoom
  <2> QED
    BY <1>5, <2>2, <2>3, <2>5, <2>6, <2>7 DEF CopyIn, Larger
<1>6. CASE LargestIsFull \/ NoMemory
  BY <1>6 DEF LargestIsFull, NoMemory, WriteFails, headerVars
<1>7. ASSUME NEW base \in Bases, NEW offset \in Offsets, MemorySeek(base + offset) PROVE IInv'
  <2>1. base + offset \in Int
    BY RequestAssumption DEF Bases
  <2> QED
    BY <1>7, <2>1 DEF MemorySeek, Reachable, headerVars
<1>8. CASE MemoryTell \/ AcquireMemory \/ UNCHANGED vars
  BY <1>8 DEF MemoryTell, AcquireMemory, vars, headerVars
<1> QED
  BY <1>1, <1>2, <1>3, <1>4, <1>5, <1>6, <1>7, <1>8 DEF Next, WriteStep

(* IInv is an invariant of memory streams for every value of the constants.*)
THEOREM Invariance == Spec => []IInv
<1>1. Init => IInv
  BY InitInvariant
<1>2. IInv /\ [Next]_vars => IInv'
  BY NextInvariant
<1> QED
  BY <1>1, <1>2, PTL DEF Spec

(* Every variable holds a value of its type, and no position is negative.  *)
THEOREM TypeCorrectness == Spec => []TypeOK
<1>1. IInv => TypeOK
  BY DEF IInv
<1> QED
  BY <1>1, Invariance, PTL

(* The buffer is at least as long as the file, so that reads stay inside   *)
(* it, whatever reallocation fails in the middle of a write.               *)
THEOREM BufferIsLargeEnough == Spec => []BufferCovers
<1>1. IInv => BufferCovers
  BY DEF IInv
<1> QED
  BY <1>1, Invariance, PTL

-----------------------------------------------------------------------------
(* The bytes a user of the stream sees, as IsByteFile maps them.           *)
Contents == [k \in 1..fileLength |-> data[k]]

(* They are a sequence of file_length bytes, each that of the buffer.      *)
LEMMA ContentsOfBuffer ==
  ASSUME TypeOK, BufferCovers
  PROVE  /\ Contents \in Seq(Datum)
         /\ Len(Contents) = fileLength
         /\ \A k \in 1..fileLength : Contents[k] = data[k]
<1>1. \A k \in 1..fileLength : data[k] \in Datum
  BY DEF TypeOK, BufferCovers
<1>2. fileLength \in Nat
  BY DEF TypeOK
<1> QED
  BY <1>1, <1>2 DEF Contents

(* What full items take is there to be taken.                              *)
LEMMA ItemsFit ==
  \A a, c \in Nat, s \in Nat \ {0} : c <= a \div s => c * s <= a
<1> SUFFICES ASSUME NEW a \in Nat, NEW c \in Nat, NEW s \in Nat \ {0}, c <= a \div s
             PROVE  c * s <= a
  OBVIOUS
<1>1. PICK q \in Nat : q = a \div s
  OBVIOUS
<1>2. s * q <= a
  BY <1>1
<1>3. s * c <= s * q
  BY <1>1
<1> QED
  BY <1>1, <1>2, <1>3

(* A stream that was just opened shows a document.                         *)
LEMMA InitRefines == Init => File!Init
<1> SUFFICES ASSUME Init PROVE File!Init
  OBVIOUS
<1>1. IInv
  BY InitInvariant
<1>2. data \in Seq(Datum) /\ fileLength = Len(data)
  BY <1>1 DEF IInv, TypeOK, Init, Nothing
<1>3. [k \in 1..fileLength |-> data[k]] = data
  BY <1>2
<1>4. data \in {Nothing} \cup {UserBuffer(n) : n \in UserSizes}
  BY DEF Init
<1> QED
  BY <1>3, <1>4 DEF Init, File!Init, File!Reply, File!Nothing, Reply, Nothing

(* A read gives the file's bytes, to the last one of a short read.         *)
LEMMA ReadRefines ==
  ASSUME IInv, NEW size \in Sizes, NEW count \in Counts, MemoryRead(size, count)
  PROVE  File!Read(size, count)
<1> DEFINE available == Larger(fileLength - position, 0)
           x == Items(size, count)
           copied == IF x < count THEN available ELSE x * size
<1>1. /\ fileLength \in Nat /\ position \in Nat /\ Len(Contents) = fileLength
      /\ \A k \in 1..fileLength : Contents[k] = data[k]
  BY ContentsOfBuffer DEF IInv, TypeOK
<1>2. size \in Nat \ {0} /\ count \in Nat
  BY RequestAssumption
<1>3. available \in Nat /\ (available > 0 => position + available = fileLength)
  BY <1>1 DEF Larger
<1>4. x = Smaller(count, available \div size)
  BY DEF Items
<1>5. x \in Nat /\ x <= count /\ x <= available \div size
  BY <1>2, <1>3, <1>4 DEF Smaller
<1>6. x * size <= available /\ x * size \in Nat
  BY <1>2, <1>3, <1>5, ItemsFit, Product
<1>7. copied \in Nat /\ copied <= available
  BY <1>3, <1>6
<1>8. \A k \in 1..copied : Contents[position + k] = data[position + k]
  <2> SUFFICES ASSUME NEW k \in 1..copied
               PROVE  Contents[position + k] = data[position + k]
    OBVIOUS
  <2>1. position + k \in 1..fileLength
    BY <1>1, <1>3, <1>7
  <2> QED
    BY <1>1, <2>1
<1>9. copied = IF x = count THEN count * size ELSE available
  BY <1>2, <1>5
<1>10. answer' = Reply(x, [k \in 1..copied |-> Contents[position + k]])
  <2>1. answer' = Reply(x, [k \in 1..copied |-> data[position + k]])
    BY DEF MemoryRead
  <2>2. [k \in 1..copied |-> data[position + k]] = [k \in 1..copied |-> Contents[position + k]]
    BY <1>8
  <2> QED
    BY <2>1, <2>2
<1>11. position' = IF x = count THEN position + copied ELSE fileLength
  BY <1>2, <1>5 DEF MemoryRead
<1>12. Contents' = Contents
  BY DEF MemoryRead, headerVars, Contents
<1>13. File!Larger(Len(Contents) - position, 0) = available
  BY <1>1 DEF File!Larger, Larger
<1>14. File!Smaller(count, available \div size) = x
  BY <1>4 DEF File!Smaller, Smaller
<1> HIDE DEF available, x, copied
<1> QED
  BY <1>9, <1>10, <1>11, <1>12, <1>13, <1>14, <1>1
  DEF File!Read, File!Reply, Reply, Contents

(* Copying the items in is the whole write of the file: what the loop of   *)
(* reallocations added behind the file's end is the hole before them.      *)
LEMMA CopyRefines ==
  ASSUME IInv, CopyIn, NEW label \in Labels, NEW size \in Sizes, NEW count \in Counts,
         call.label = label, call.size = size, call.count = count
  PROVE  File!Write(label, size, count)
<1> DEFINE n == size * count
           length == Larger(fileLength, position + n)
<1>1. n \in Nat
  BY Product, RequestAssumption
<1>2. /\ fileLength \in Nat /\ position \in Nat /\ Len(data) \in Nat
      /\ fileLength <= Len(data) /\ position + n < Len(data)
  BY DEF IInv, TypeOK, BufferCovers, CopyIn, HasRoom, Length
<1>3. length \in Nat /\ length <= Len(data) /\ position + n <= length
  BY <1>1, <1>2 DEF Larger
<1>4. fileLength' = length
  BY DEF CopyIn, LengthAfter, Length
<1>5. data' = [k \in 1..Len(data) |->
                IF position < k /\ k <= position + n
                  THEN Byte(label, k - position) ELSE data[k]]
  BY DEF CopyIn, Length
<1>6. /\ Len(Contents) = fileLength
      /\ \A k \in 1..fileLength : Contents[k] = data[k]
  BY ContentsOfBuffer DEF IInv
<1>7. Contents' = [k \in 1..length |->
                    IF position < k /\ k <= position + n THEN Byte(label, k - position)
                    ELSE IF k <= Len(Contents) THEN Contents[k]
                    ELSE Hole]
  <2>1. Contents' = [k \in 1..length |-> data'[k]]
    BY <1>4 DEF Contents
  <2>2. ASSUME NEW k \in 1..length
        PROVE  data'[k] = IF position < k /\ k <= position + n
                            THEN Byte(label, k - position)
                          ELSE IF k <= Len(Contents) THEN Contents[k]
                          ELSE Hole
    <3>1. k \in 1..Len(data)
      BY <1>2, <1>3
    <3>2. CASE position < k /\ k <= position + n
      BY <1>5, <3>1, <3>2
    <3>3. CASE ~(position < k /\ k <= position + n) /\ k <= fileLength
      BY <1>5, <1>6, <3>1, <3>3
    <3>4. CASE ~(position < k /\ k <= position + n) /\ ~(k <= fileLength)
      <4>1. data[k] = Hole
        BY <1>2, <3>1, <3>4 DEF IInv, TailUnwritten
      <4> QED
        BY <1>5, <1>6, <3>1, <3>4, <4>1
    <3> QED
      BY <3>2, <3>3, <3>4
  <2> QED
    BY <2>1, <2>2
<1>8. position' = position + n /\ answer' = Reply(count, Nothing)
  BY DEF CopyIn, Length
<1>9. File!Larger(Len(Contents), position + n) = length
  BY <1>6 DEF File!Larger, Larger
<1> QED
  BY <1>7, <1>8, <1>9
  DEF File!Write, File!Byte, File!Reply, File!Nothing, Byte, Reply, Nothing, Contents

(* A step of a memory stream is a step of the file, or changes nothing     *)
(* that its user sees.                                                     *)
LEMMA NextRefines ==
  ASSUME IInv, [Next]_vars
  PROVE  [File!Next]_(File!byteVars)
<1>1. ASSUME NEW size \in Sizes, NEW count \in Counts, MemoryRead(size, count)
      PROVE  File!Next
  BY <1>1, ReadRefines DEF File!Next
<1>2. ASSUME NEW label \in Labels, NEW size \in Sizes, NEW count \in Counts,
             BeginWrite(label, size, count)
      PROVE  UNCHANGED File!byteVars
  BY <1>2 DEF BeginWrite, headerVars, File!byteVars
<1>3. CASE RefuseWrite \/ LargestIsFull \/ NoMemory
  <2>1. answer' = Reply(0, Nothing) /\ UNCHANGED <<data, fileLength, position>>
    BY <1>3 DEF RefuseWrite, LargestIsFull, NoMemory, WriteFails, headerVars
  <2>2. File!WriteFails
    BY <2>1 DEF File!WriteFails, File!Reply, File!Nothing, Reply, Nothing
  <2> QED
    BY <2>2 DEF File!Next
<1>4. CASE Grow
  <2>1. NewLength \in Nat /\ Len(data) < NewLength
    BY <1>4, LengthGrows DEF Grow, IInv, TypeOK
  <2>2. \A k \in 1..fileLength : data'[k] = data[k]
    BY <1>4, <2>1 DEF Grow, IInv, TypeOK, BufferCovers
  <2>3. fileLength' = fileLength /\ position' = position /\ answer' = answer
    BY <1>4 DEF Grow
  <2>4. [k \in 1..fileLength' |-> data'[k]] = [k \in 1..fileLength |-> data[k]]
    BY <2>2, <2>3
  <2> QED
    BY <2>3, <2>4 DEF File!byteVars
<1>5. CASE CopyIn
  <2>1. PICK label \in Labels, size \in Sizes, count \in Counts :
          call.label = label /\ call.size = size /\ call.count = count
    BY <1>5, WriteInProgress DEF IInv, CopyIn
  <2>2. File!Write(label, size, count)
    BY <1>5, <2>1, CopyRefines
  <2> QED
    BY <2>2 DEF File!Next
<1>6. ASSUME NEW base \in Bases, NEW offset \in Offsets, MemorySeek(base + offset)
      PROVE  File!Next
  <2>1. Len(Contents) = fileLength
    BY ContentsOfBuffer DEF IInv
  <2>2. base \in File!Bases
    <3>1. File!Bases = {0, position, Len(Contents)}
      BY DEF File!Bases, Contents
    <3> QED
      BY <2>1, <3>1 DEF Bases
  <2>3. File!Seek(base + offset)
    BY <1>6 DEF MemorySeek, Reachable, headerVars, File!Seek, File!Reply, File!Nothing,
                Reply, Nothing
  <2> QED
    BY <2>2, <2>3 DEF File!Next
<1>7. CASE MemoryTell
  BY <1>7 DEF MemoryTell, headerVars, File!Next, File!Tell, File!Reply, File!Nothing,
              Reply, Nothing
<1>8. CASE AcquireMemory
  <2>1. Len(Contents) = fileLength
    BY ContentsOfBuffer DEF IInv
  <2>2. answer' = Reply(Len(Contents), Contents)
    BY <1>8, <2>1 DEF AcquireMemory, Contents
  <2>3. UNCHANGED <<data, fileLength, position>>
    BY <1>8 DEF AcquireMemory, headerVars
  <2>4. File!ShowAll
    BY <2>2, <2>3 DEF File!ShowAll, File!Reply, Reply, Contents
  <2> QED
    BY <2>4 DEF File!Next
<1>9. CASE UNCHANGED vars
  BY <1>9 DEF vars, headerVars, File!byteVars
<1> QED
  BY <1>1, <1>2, <1>3, <1>4, <1>5, <1>6, <1>7, <1>8, <1>9 DEF Next, WriteStep

(* A memory stream is a file of bytes with a position, for every size of   *)
(* its allocations, every buffer wrapped and every sequence of calls: a    *)
(* write that had to grow the buffer, or gave up growing it, keeps every   *)
(* byte, and a short read counts full items.                               *)
THEOREM MemoryIsByteFile == Spec => IsByteFile
<1>1. Init => File!Init
  BY InitRefines
<1>2. IInv /\ [Next]_vars => [File!Next]_(File!byteVars)
  BY NextRefines
<1> QED
  BY <1>1, <1>2, Invariance, PTL DEF Spec, IsByteFile, File!Spec
=============================================================================
