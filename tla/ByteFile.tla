------------------------------ MODULE ByteFile ------------------------------
(***************************************************************************)
(* What a FreeImageIO gives to the format plugins: a file of bytes with a  *)
(* position, read and written in items of some size as fread and fwrite    *)
(* do it.  The abstract specification of MemoryIO.                         *)
(***************************************************************************)
EXTENDS Integers, Sequences

CONSTANTS
  Documents,  \* the contents a file may have when it is opened
  Sizes,      \* the sizes of items
  Counts,     \* how many items are read or written at once
  Offsets,    \* the offsets of seeks
  Labels,     \* tell the writes apart
  Hole        \* a byte never written, between the end and a position behind it

VARIABLES contents, position, answer

byteVars == <<contents, position, answer>>

Smaller(a, b) == IF a < b THEN a ELSE b
Larger(a, b) == IF a < b THEN b ELSE a

(* Byte k of a write is told apart from the others and from other writes.  *)
Byte(label, k) == <<label, k>>
Nothing == << >>
Reply(items, bytes) == [items |-> items, bytes |-> bytes]

Init ==
  /\ contents \in Documents
  /\ position = 0
  /\ answer = Reply(0, Nothing)

(* Full items are counted; what is left of the file after them is read as  *)
(* well, and then the position is at the end.                              *)
Read(size, count) ==
  LET available == Larger(Len(contents) - position, 0)
      items == Smaller(count, available \div size)
      taken == IF items = count THEN count * size ELSE available
  IN /\ answer' = Reply(items, [k \in 1..taken |-> contents[position + k]])
     /\ position' = IF items = count THEN position + taken ELSE Len(contents)
     /\ UNCHANGED contents

Write(label, size, count) ==
  LET n == size * count
      length == Larger(Len(contents), position + n)
  IN /\ contents' = [k \in 1..length |->
           IF position < k /\ k <= position + n THEN Byte(label, k - position)
           ELSE IF k <= Len(contents) THEN contents[k]
           ELSE Hole]
     /\ position' = position + n
     /\ answer' = Reply(count, Nothing)

(* Nothing is written at all: there is no memory, or the file is read-only.*)
WriteFails == answer' = Reply(0, Nothing) /\ UNCHANGED <<contents, position>>

Bases == {0, position, Len(contents)}
Seek(target) ==
  /\ position' = IF target >= 0 THEN target ELSE position
  /\ answer' = Reply(IF target >= 0 THEN 0 ELSE -1, Nothing)
  /\ UNCHANGED contents

Tell == answer' = Reply(position, Nothing) /\ UNCHANGED <<contents, position>>
ShowAll == answer' = Reply(Len(contents), contents) /\ UNCHANGED <<contents, position>>

Next ==
  \/ \E size \in Sizes, count \in Counts :
       \/ Read(size, count)
       \/ \E label \in Labels : Write(label, size, count)
  \/ WriteFails
  \/ \E base \in Bases, offset \in Offsets : Seek(base + offset)
  \/ Tell
  \/ ShowAll

Spec == Init /\ [][Next]_byteVars
=============================================================================
