------------------------------ MODULE StreamIO ------------------------------
(***************************************************************************)
(* The wrapper's FreeImageIO over C++ streams (image/image.cpp): ReadProc, *)
(* WriteProc and the procedures that tell and seek.                        *)
(*                                                                         *)
(* A stream is its bytes, its position and its failbit; eofbit is only     *)
(* ever set together with failbit here, for a read that reaches the end    *)
(* comes short.  Reading and writing are loops over istream::read and      *)
(* ostream::write, one step for each of these calls.  The actions are put  *)
(* together in ImageStreams.  Mutants stand beside some helpers, as in the *)
(* other modules.                                                          *)
(***************************************************************************)
EXTENDS Integers, Sequences

CONSTANTS
  Sizes,      \* the sizes of items
  Counts,     \* how many items are read or written at once
  Offsets,    \* the offsets of seeks
  Labels,     \* tell the writes apart
  MaxLength,  \* bound: the room of a stream; no write or seek goes behind it
  Hole        \* a byte never written, between the end and a position behind it

ASSUME StreamAssumption ==
  /\ Sizes \subseteq Nat /\ Counts \subseteq Nat \ {0}
  /\ Offsets \subseteq Int
  /\ MaxLength \in Nat

VARIABLES
  bytes,     \* what the stream holds
  position,  \* where it is read and written
  failed,    \* its failbit
  onFile,    \* it is a file: one can seek behind its end
  call,      \* the ReadProc or WriteProc in progress
  answer     \* what the last call returned

streamVars == <<bytes, position, failed, onFile, call, answer>>

-----------------------------------------------------------------------------
Smaller(a, b) == IF a < b THEN a ELSE b
Larger(a, b) == IF a < b THEN b ELSE a
Byte(label, k) == <<label, k>>
Reply(items, got) == [items |-> items, bytes |-> got]
Nothing == << >>

Idle == [proc |-> "none", label |-> Hole, size |-> 0, count |-> 0, moved |-> Nothing,
         part |-> 0, items |-> 0, from |-> 0, before |-> Nothing]
Busy == call.proc # "none"

InitStream ==
  /\ bytes \in {[k \in 1..n |-> Byte("file", k)] : n \in 0..MaxLength}
  /\ position = 0 /\ failed = FALSE /\ onFile \in BOOLEAN
  /\ call = Idle /\ answer = Reply(0, Nothing)

Start(proc, label, size, count) ==
  /\ ~Busy
  /\ call' = [Idle EXCEPT !.proc = proc, !.label = label, !.size = size,
                          !.count = count, !.from = position, !.before = bytes]
  /\ UNCHANGED <<bytes, position, failed, onFile, answer>>

Return(items) ==
  /\ answer' = Reply(items, IF call.proc = "read" THEN call.moved ELSE Nothing)
  /\ call' = Idle
  /\ UNCHANGED <<bytes, position, failed, onFile>>

-----------------------------------------------------------------------------
(* istream::read: what there is, up to n bytes; failbit when that is less. *)
Available == Larger(Len(bytes) - position, 0)
Take(n) ==
  LET tot == Smaller(n, Available)
  IN /\ failed' = (tot < n)
     /\ position' = position + tot
     /\ call' = [call EXCEPT
          !.moved = @ \o SubSeq(bytes, position + 1, position + tot),
          !.part = @ + tot]
     /\ UNCHANGED <<bytes, onFile, answer>>

(* Items of one byte are asked for at once, and counted as they arrive.    *)
ReadBytes ==
  /\ call.proc = "read" /\ call.size = 1
  /\ IF ~failed /\ call.part < call.count
       THEN Take(call.count - call.part)
       ELSE Return(call.part)

(* Others are asked for one by one.  The bytes that do not make an item    *)
(* stay in part, and what is left of them at the end makes one more.       *)
Items_AlwaysLast(items, part) == items + 1
Items(items, part) == items + (IF part > 0 THEN 1 ELSE 0)
CountItem ==
  /\ call' = [call EXCEPT !.items = @ + 1, !.part = @ - call.size]
  /\ UNCHANGED <<bytes, position, failed, onFile, answer>>

(* The loop is left when nothing came, which a size of 0 makes certain.    *)
NothingComes_Ignored == FALSE
NothingComes == call.size = 0
ReadItems ==
  /\ call.proc = "read" /\ call.size # 1
  /\ IF call.items = call.count THEN Return(call.items)
     ELSE IF call.size > 0 /\ call.part >= call.size THEN CountItem
     ELSE IF failed \/ NothingComes THEN Return(Items(call.items, call.part))
     ELSE Take(call.size)

-----------------------------------------------------------------------------
(* ostream::write: all n bytes, or some first ones and the stream fails.   *)
Written(n) ==
  [k \in 1..Larger(Len(bytes), position + n) |->
     IF position < k /\ k <= position + n THEN Byte(call.label, Len(call.moved) + k - position)
     ELSE IF k <= Len(bytes) THEN bytes[k] ELSE Hole]

Put(n) ==
  /\ bytes' = IF n = 0 THEN bytes ELSE Written(n)
  /\ position' = position + n
  /\ failed' = (failed \/ n < call.size)
  /\ call' = [call EXCEPT !.items = @ + 1,
                !.moved = @ \o [k \in 1..n |-> Byte(call.label, Len(@) + k)]]
  /\ UNCHANGED <<onFile, answer>>

(* The item is counted before the stream is looked at again.               *)
GoesOn_Blindly == call.items < call.count
GoesOn_OneMore == ~failed /\ call.items <= call.count
GoesOn == ~failed /\ call.items < call.count
WriteItems ==
  /\ call.proc = "write"
  /\ IF GoesOn
       THEN \E n \in 0..call.size :
              /\ n = 0 \/ (~failed /\ position + n <= MaxLength)
              /\ Put(n)
       ELSE Return(call.items)

-----------------------------------------------------------------------------
(* TellProcR, TellProcW.                                                   *)
Tell ==
  /\ ~Busy
  /\ answer' = Reply(IF failed THEN -1 ELSE position, Nothing)
  /\ UNCHANGED <<bytes, position, failed, onFile, call>>

(* SeekProcR, SeekProcW: seekg and seekp move nothing when failbit is set, *)
(* and set it when there is no such position.                              *)
Bases == {0, position, Len(bytes)}
MayBe(target) == target >= 0 /\ (onFile \/ target <= Len(bytes))
Seek(target) ==
  /\ ~Busy /\ target <= MaxLength
  /\ position' = IF failed \/ ~MayBe(target) THEN position ELSE target
  /\ failed' = (failed \/ ~MayBe(target))
  /\ answer' = Reply(IF failed' THEN -1 ELSE 0, Nothing)
  /\ UNCHANGED <<bytes, onFile, call>>

(* The user of the stream, between two images: clear() and seek.           *)
Clear(target) ==
  /\ ~Busy /\ target \in 0..Len(bytes)
  /\ failed' = FALSE /\ position' = target
  /\ answer' = Reply(0, Nothing)
  /\ UNCHANGED <<bytes, onFile, call>>
=============================================================================
