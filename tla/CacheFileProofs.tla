-------------------------- MODULE CacheFileProofs --------------------------
(***************************************************************************)
(* Proofs about CacheFile, for every cache size, block size and number of  *)
(* stored images, with either mode of open.  Its structural invariants     *)
(* hold for all clients, and with a swap file that may fail.  Under        *)
(* clients that delete only what the class can forget, no two images share *)
(* a block, and the class is the store of blobs that its users rely on.    *)
(***************************************************************************)
EXTENDS CacheFile, ListLemmas

(* Lists with their objects, as an operation passes them to CleanupMemCache *)
(* and as it leaves them: well formed, every live object in one list.       *)
WellFormed(mem, disk, objects) ==
  /\ objects \in Seq(Block)
  /\ mem \in Seq(DOMAIN objects)
  /\ disk \subseteq DOMAIN objects
  /\ Partition(mem, disk, objects)
  /\ \A b \in DOMAIN objects : objects[b].data # Freed

MapOK(map, objects) ==
  /\ DOMAIN map \subseteq Numbers
  /\ \A nr \in DOMAIN map : map[nr] \in DOMAIN objects

SwapOK(file) ==
  /\ DOMAIN file \subseteq Numbers
  /\ \A nr \in DOMAIN file : file[nr] \in Datum \ {NoData, Freed}

Bounded(mem, excess) == ~keepInMemory => Len(mem) <= CacheSize + excess

(* The part of the invariant that speaks of the cache while it is open.     *)
CacheOK ==
  /\ WellFormed(pageCacheMem, pageCacheDisk, heap)
  /\ MapOK(pageMap, heap)
  /\ SwapOK(swap)
  /\ Bounded(pageCacheMem, 0)

(* The inductive invariant.  It adds to the four properties that buffers    *)
(* never hold the marks NoData and Freed by accident (a piece copied from a *)
(* buffer or from the swap file would otherwise change the list its block   *)
(* belongs to), and that no block stays locked between operations.          *)
IInv ==
  /\ TypeOK
  /\ CachePartition
  /\ ResidentBound
  /\ LockedResident
  /\ SwapOK(swap)
  /\ op.kind # "closed" => \A b \in DOMAIN heap : heap[b].data # Freed
  /\ op.kind \notin {"write", "read", "delete"} => currentBlock = NoBlock
  /\ op.kind = "write" => op.w # 0

-----------------------------------------------------------------------------
(* How a new element changes what is listed.                                *)
LEMMA ListedAppend ==
  ASSUME NEW S, NEW mem \in Seq(S), NEW x \in S, NEW b
  PROVE  Listed(b, Append(mem, x)) <=> Listed(b, mem) \/ b = x
<1>1. /\ Len(mem) \in Nat
      /\ DOMAIN mem = 1..Len(mem)
      /\ DOMAIN Append(mem, x) = 1..(Len(mem) + 1)
      /\ \A i \in 1..Len(mem) : Append(mem, x)[i] = mem[i]
      /\ Append(mem, x)[Len(mem) + 1] = x
  BY AppendProperties, LenProperties
<1>2. ASSUME NEW i \in DOMAIN Append(mem, x), Append(mem, x)[i] = b
      PROVE  Listed(b, mem) \/ b = x
  <2>1. CASE i = Len(mem) + 1
    BY <2>1, <1>1, <1>2
  <2>2. CASE i # Len(mem) + 1
    <3>1. i \in DOMAIN mem /\ mem[i] = b
      BY <2>2, <1>1, <1>2
    <3> QED
      BY <3>1 DEF Listed
  <2> QED
    BY <2>1, <2>2
<1>3. ASSUME NEW i \in DOMAIN mem, mem[i] = b
      PROVE  i \in DOMAIN Append(mem, x) /\ Append(mem, x)[i] = b
  BY <1>1, <1>3
<1>4. Len(mem) + 1 \in DOMAIN Append(mem, x)
  BY <1>1
<1> QED
  BY <1>1, <1>2, <1>3, <1>4 DEF Listed

(* A list without duplicates stays so when an element not in it is added.   *)
LEMMA DistinctAppend ==
  ASSUME NEW S, NEW mem \in Seq(S), NEW x \in S, ~Listed(x, mem),
         \A i, j \in DOMAIN mem : mem[i] = mem[j] => i = j,
         NEW i \in DOMAIN Append(mem, x), NEW j \in DOMAIN Append(mem, x),
         Append(mem, x)[i] = Append(mem, x)[j]
  PROVE  i = j
<1>1. /\ Len(mem) \in Nat
      /\ DOMAIN mem = 1..Len(mem)
      /\ DOMAIN Append(mem, x) = 1..(Len(mem) + 1)
      /\ \A k \in 1..Len(mem) : Append(mem, x)[k] = mem[k]
      /\ Append(mem, x)[Len(mem) + 1] = x
  BY AppendProperties, LenProperties
<1>2. \A k \in DOMAIN mem : Append(mem, x)[k] # x
  BY <1>1 DEF Listed
<1>3. CASE i \in DOMAIN mem /\ j \in DOMAIN mem
  BY <1>1, <1>3
<1>4. CASE i = Len(mem) + 1 \/ j = Len(mem) + 1
  BY <1>1, <1>2, <1>4
<1> QED
  BY <1>1, <1>3, <1>4

(* Replacing one element of a sequence.                                     *)
LEMMA UpdateProperties ==
  ASSUME NEW S, NEW s \in Seq(S), NEW i \in DOMAIN s, NEW e \in S,
         NEW t, t = [s EXCEPT ![i] = e]
  PROVE  /\ t \in Seq(S)
         /\ Len(t) = Len(s)
         /\ DOMAIN t = DOMAIN s
         /\ t[i] = e
         /\ \A j \in DOMAIN s \ {i} : t[j] = s[j]
<1>1. /\ Len(s) \in Nat
      /\ s \in [1..Len(s) -> S]
      /\ DOMAIN s = 1..Len(s)
  BY LenProperties
<1>2. t \in [1..Len(s) -> S]
  BY <1>1
<1>3. t \in Seq(S)
  BY <1>1, <1>2, SeqDef
<1>4. DOMAIN t = 1..Len(s)
  BY <1>1
<1>5. Len(t) = Len(s)
  <2>1. Len(t) \in Nat /\ DOMAIN t = 1..Len(t)
    BY <1>3, LenProperties
  <2> QED
    BY <2>1, <1>1, <1>4
<1> QED
  BY <1>1, <1>3, <1>4, <1>5

(* Evicting the block at the end of the list, or not, keeps the lists well  *)
(* formed and brings the list back under its bound; no object is made or    *)
(* lost, and a block that is not at the end stays.                          *)
LEMMA CleanupLemma ==
  ASSUME NEW mem, NEW disk, NEW objects, NEW map,
         WellFormed(mem, disk, objects), MapOK(map, objects), SwapOK(swap),
         Bounded(mem, 1), keepInMemory \in BOOLEAN,
         CleanupMemCache(mem, disk, objects, map)
  PROVE  /\ WellFormed(pageCacheMem', pageCacheDisk', heap')
         /\ MapOK(pageMap', heap')
         /\ SwapOK(swap')
         /\ ~keepInMemory => Len(pageCacheMem') <= CacheSize
         /\ DOMAIN heap' = DOMAIN objects
         /\ \A b : Listed(b, mem) =>
                   Listed(b, pageCacheMem') \/ (Len(mem) > CacheSize /\ b = Head(mem))
<1>1. CASE /\ ~TooLarge(mem)
           /\ pageCacheMem' = mem
           /\ pageCacheDisk' = disk
           /\ heap' = objects
           /\ pageMap' = map
           /\ UNCHANGED swap
  <2>1. Len(mem) \in Nat
    BY LenProperties DEF WellFormed
  <2> QED
    BY <1>1, <2>1, CacheSizeAssumption DEF TooLarge
<1>2. CASE /\ TooLarge(mem)
           /\ SwapOut(objects[Head(mem)].nr, objects[Head(mem)].data)
           /\ heap' = [objects EXCEPT ![Head(mem)].data = NoData]
           /\ pageCacheMem' = Tail(mem)
           /\ pageCacheDisk' = disk \cup {Head(mem)}
           /\ pageMap' = Put(map, objects[Head(mem)].nr, Head(mem))
  <2> DEFINE old == Head(mem)
  <2>1. /\ objects \in Seq(Block)
        /\ mem \in Seq(DOMAIN objects)
        /\ disk \subseteq DOMAIN objects
        /\ Len(mem) \in Nat
        /\ DOMAIN mem = 1..Len(mem)
        /\ \A i \in DOMAIN mem : mem[i] \in DOMAIN objects
    BY LenProperties, ElementOfSeq DEF WellFormed
  <2>2. /\ mem # << >>
        /\ Len(mem) >= 1
    BY <1>2, <2>1, CacheSizeAssumption DEF TooLarge
  <2>3. /\ old \in DOMAIN objects
        /\ Tail(mem) \in Seq(DOMAIN objects)
        /\ Len(Tail(mem)) = Len(mem) - 1
        /\ \A i \in 1..Len(Tail(mem)) : Tail(mem)[i] = mem[i + 1]
        /\ DOMAIN Tail(mem) = 1..Len(Tail(mem))
        /\ old = mem[1]
    BY <2>1, <2>2, HeadTailProperties, LenProperties
  <2>4. objects[old] \in Block
    BY <2>1, <2>3, LenProperties, ElementOfSeq
  <2>5. objects[old].data \in Datum \ {NoData, Freed}
    <3>1. Listed(old, mem)
      BY <2>1, <2>2, <2>3 DEF Listed
    <3> QED
      BY <3>1, <2>3, <2>4 DEF WellFormed, Partition, Block
  <2>6. /\ heap' \in Seq(Block)
        /\ DOMAIN heap' = DOMAIN objects
        /\ heap'[old].data = NoData
        /\ \A b \in DOMAIN objects \ {old} : heap'[b] = objects[b]
    <3>1. NoData \in Datum
      BY DEF NoData, Piece, Datum
    <3>2. /\ [objects[old] EXCEPT !.data = NoData] \in Block
          /\ [objects[old] EXCEPT !.data = NoData].data = NoData
      BY <3>1, <2>4 DEF Block
    <3>3. heap' = [objects EXCEPT ![old] = [objects[old] EXCEPT !.data = NoData]]
      BY <1>2
    <3> HIDE DEF old
    <3> QED
      BY <3>2, <3>3, <2>1, <2>3, UpdateProperties
  <2>7. Partition(pageCacheMem', pageCacheDisk', heap')
    <3>1. ASSUME NEW i \in DOMAIN Tail(mem), NEW j \in DOMAIN Tail(mem),
                 Tail(mem)[i] = Tail(mem)[j]
          PROVE  i = j
      <4>1. /\ i + 1 \in DOMAIN mem /\ Tail(mem)[i] = mem[i + 1]
            /\ j + 1 \in DOMAIN mem /\ Tail(mem)[j] = mem[j + 1]
        BY <2>1, <2>3, SMTT(30)
      <4>2. i + 1 = j + 1
        BY <3>1, <4>1 DEF WellFormed, Partition
      <4> QED
        BY <4>2, <2>1, <2>3
    <3>2. \A b \in DOMAIN objects : b \in disk \cup {old} <=> heap'[b].data = NoData
      BY <2>6 DEF WellFormed, Partition
    <3>3. ~Listed(old, Tail(mem))
      <4>1. ASSUME NEW i \in DOMAIN Tail(mem), Tail(mem)[i] = old
            PROVE  FALSE
        <5>1. /\ i + 1 \in DOMAIN mem /\ mem[i + 1] = mem[1]
              /\ 1 \in DOMAIN mem
          BY <4>1, <2>1, <2>2, <2>3
        <5>2. i + 1 = 1
          BY <5>1 DEF WellFormed, Partition
        <5> QED
          BY <5>2, <2>1, <2>3
      <4> QED
        BY <4>1 DEF Listed
    <3>4. ASSUME NEW b \in DOMAIN objects \ {old}
          PROVE  Listed(b, Tail(mem)) <=> Listed(b, mem)
      <4>1. ASSUME NEW i \in DOMAIN mem, mem[i] = b
            PROVE  i - 1 \in DOMAIN Tail(mem) /\ Tail(mem)[i - 1] = b
        BY <4>1, <2>1, <2>3
      <4>2. ASSUME NEW i \in DOMAIN Tail(mem), Tail(mem)[i] = b
            PROVE  i + 1 \in DOMAIN mem /\ mem[i + 1] = b
        BY <4>2, <2>1, <2>3
      <4> QED
        BY <4>1, <4>2 DEF Listed
    <3>5. \A b \in DOMAIN objects :
            Listed(b, Tail(mem)) <=> heap'[b].data \notin {NoData, Freed}
      BY <3>3, <3>4, <2>6 DEF WellFormed, Partition
    <3> QED
      BY <1>2, <2>6, <3>1, <3>2, <3>5 DEF Partition
  <2>8. \A b \in DOMAIN heap' : heap'[b].data # Freed
    BY <2>6, SMTT(30) DEF WellFormed, NoData, Freed, Piece
  <2>9. WellFormed(pageCacheMem', pageCacheDisk', heap')
    BY <1>2, <2>1, <2>3, <2>6, <2>7, <2>8 DEF WellFormed
  <2>10. MapOK(pageMap', heap')
    BY <1>2, <2>3, <2>4, <2>6 DEF MapOK, Put, Block
  <2>11. SwapOK(swap')
    <3>1. /\ Garbage \in Datum \ {NoData, Freed}
          /\ objects[old].nr \in Numbers
      BY <2>4 DEF Garbage, NoData, Freed, Piece, Datum, Block
    <3>2. ASSUME NEW d \in Datum \ {NoData, Freed}
          PROVE  SwapOK(Put(swap, objects[old].nr, d))
      BY <3>1, <3>2 DEF SwapOK, Put
    <3>3. \/ swap' = Put(swap, objects[old].nr, objects[old].data)
          \/ swap' = swap
          \/ swap' = Put(swap, objects[old].nr, Garbage)
      BY <1>2 DEF SwapOut
    <3> QED
      BY <3>1, <3>2, <3>3, <2>5
  <2>12. ~keepInMemory => Len(pageCacheMem') <= CacheSize
    BY <1>2, <2>1, <2>3, CacheSizeAssumption DEF Bounded
  <2>13. ASSUME NEW b, Listed(b, mem), b # old
         PROVE  Listed(b, Tail(mem))
    <3>1. PICK i \in DOMAIN mem : mem[i] = b
      BY <2>13 DEF Listed
    <3>2. i - 1 \in DOMAIN Tail(mem) /\ Tail(mem)[i - 1] = b
      BY <3>1, <2>13, <2>1, <2>3
    <3> QED
      BY <3>2 DEF Listed
  <2> QED
    BY <1>2, <2>6, <2>9, <2>10, <2>11, <2>12, <2>13 DEF TooLarge
<1> QED
  BY <1>1, <1>2 DEF CleanupMemCache, LeastUsed

(* A new object, put in front of the memory list.                           *)
LEMMA NewObjectLemma ==
  ASSUME NEW mem, NEW disk, NEW objects, WellFormed(mem, disk, objects),
         NEW e \in Block, e.data \notin {NoData, Freed}
  PROVE  /\ WellFormed(Append(mem, Len(objects) + 1), disk, Append(objects, e))
         /\ Len(Append(mem, Len(objects) + 1)) = Len(mem) + 1
         /\ DOMAIN Append(objects, e) = DOMAIN objects \cup {Len(objects) + 1}
<1> DEFINE new == Len(objects) + 1
           more == Append(objects, e)
<1>1. /\ objects \in Seq(Block)
      /\ mem \in Seq(DOMAIN objects)
      /\ disk \subseteq DOMAIN objects
      /\ DOMAIN objects = 1..Len(objects)
      /\ Len(objects) \in Nat
  BY LenProperties DEF WellFormed
<1>2. /\ more \in Seq(Block)
      /\ DOMAIN more = DOMAIN objects \cup {new}
      /\ \A b \in DOMAIN objects : more[b] = objects[b]
      /\ more[new] = e
      /\ new \notin DOMAIN objects
  BY <1>1, AppendProperties, LenProperties
<1>3. mem \in Seq(DOMAIN more)
  <2>1. mem \in [1..Len(mem) -> DOMAIN objects] /\ Len(mem) \in Nat
    BY <1>1, LenProperties
  <2>2. mem \in [1..Len(mem) -> DOMAIN more]
    BY <2>1, <1>2
  <2> QED
    BY <2>1, <2>2, SeqDef
<1>4. /\ Append(mem, new) \in Seq(DOMAIN more)
      /\ Len(Append(mem, new)) = Len(mem) + 1
  BY <1>2, <1>3, AppendProperties
<1>5. ~Listed(new, mem)
  BY <1>1, <1>2, ElementOfSeq, LenProperties DEF Listed
<1>6. \A i, j \in DOMAIN Append(mem, new) :
        Append(mem, new)[i] = Append(mem, new)[j] => i = j
  <2> HIDE DEF new, more
  <2> QED
    BY <1>2, <1>3, <1>5, DistinctAppend DEF WellFormed, Partition
<1>7. ASSUME NEW b \in DOMAIN more
      PROVE  /\ b \in disk <=> more[b].data = NoData
             /\ Listed(b, Append(mem, new)) <=> more[b].data \notin {NoData, Freed}
  <2>1. Listed(b, Append(mem, new)) <=> Listed(b, mem) \/ b = new
    <3> HIDE DEF new, more
    <3> QED
      BY <1>2, <1>3, ListedAppend
  <2>2. CASE b = new
    BY <2>1, <2>2, <1>1, <1>2
  <2>3. CASE b # new
    BY <2>1, <2>3, <1>1, <1>2 DEF WellFormed, Partition
  <2> QED
    BY <2>2, <2>3
<1>8. \A b \in DOMAIN more : more[b].data # Freed
  BY <1>2 DEF WellFormed
<1> QED
  BY <1>1, <1>2, <1>4, <1>6, <1>7, <1>8 DEF WellFormed, Partition

(* An object whose buffer was given back gets a new one and moves from the  *)
(* disk list to the front of the memory list.                               *)
LEMMA ReloadLemma ==
  ASSUME NEW mem, NEW disk, NEW objects, WellFormed(mem, disk, objects),
         NEW b \in DOMAIN objects, objects[b].data = NoData,
         NEW d \in Datum \ {NoData, Freed},
         NEW loaded, loaded = [objects EXCEPT ![b].data = d]
  PROVE  /\ WellFormed(Append(mem, b), disk \ {b}, loaded)
         /\ Len(Append(mem, b)) = Len(mem) + 1
         /\ DOMAIN loaded = DOMAIN objects
<1>1. /\ objects \in Seq(Block)
      /\ mem \in Seq(DOMAIN objects)
      /\ disk \subseteq DOMAIN objects
      /\ objects[b] \in Block
  BY ElementOfSeq, LenProperties DEF WellFormed
<1>2. /\ loaded \in Seq(Block)
      /\ DOMAIN loaded = DOMAIN objects
      /\ loaded[b].data = d
      /\ \A c \in DOMAIN objects \ {b} : loaded[c] = objects[c]
  <2> DEFINE r == [objects[b] EXCEPT !.data = d]
  <2>1. r \in Block /\ r.data = d
    BY <1>1 DEF Block
  <2>2. loaded = [objects EXCEPT ![b] = r]
    OBVIOUS
  <2>3. /\ loaded \in Seq(Block)
        /\ DOMAIN loaded = DOMAIN objects
        /\ loaded[b] = r
        /\ \A c \in DOMAIN objects \ {b} : loaded[c] = objects[c]
    <3> HIDE DEF r
    <3> QED
      BY <1>1, <2>1, <2>2, UpdateProperties, SMTT(30)
  <2> QED
    BY <2>1, <2>3
<1>3. ~Listed(b, mem)
  BY DEF WellFormed, Partition
<1>4. /\ Append(mem, b) \in Seq(DOMAIN loaded)
      /\ Len(Append(mem, b)) = Len(mem) + 1
  BY <1>1, <1>2, AppendProperties
<1>5. \A i, j \in DOMAIN Append(mem, b) : Append(mem, b)[i] = Append(mem, b)[j] => i = j
  BY <1>1, <1>3, DistinctAppend DEF WellFormed, Partition
<1>6. ASSUME NEW c \in DOMAIN loaded
      PROVE  /\ c \in disk \ {b} <=> loaded[c].data = NoData
             /\ Listed(c, Append(mem, b)) <=> loaded[c].data \notin {NoData, Freed}
  <2>1. Listed(c, Append(mem, b)) <=> Listed(c, mem) \/ c = b
    BY <1>1, ListedAppend
  <2>2. CASE c = b
    BY <2>1, <2>2, <1>2
  <2>3. CASE c # b
    BY <2>1, <2>3, <1>2 DEF WellFormed, Partition
  <2> QED
    BY <2>2, <2>3
<1>7. \A c \in DOMAIN loaded : loaded[c].data # Freed
  BY <1>2 DEF WellFormed
<1> QED
  BY <1>1, <1>2, <1>4, <1>5, <1>6, <1>7 DEF WellFormed, Partition

(* An object in memory is filled or linked: it keeps its place.             *)
LEMMA FillLemma ==
  ASSUME NEW mem, NEW disk, NEW objects, WellFormed(mem, disk, objects),
         NEW b \in DOMAIN objects, objects[b].data # NoData,
         NEW r \in Block, r.data \notin {NoData, Freed},
         NEW filled, filled = [objects EXCEPT ![b] = r]
  PROVE  /\ WellFormed(mem, disk, filled)
         /\ DOMAIN filled = DOMAIN objects
<1>1. /\ objects \in Seq(Block)
      /\ objects[b].data # Freed
  BY DEF WellFormed
<1>2. /\ filled \in Seq(Block)
      /\ DOMAIN filled = DOMAIN objects
      /\ filled[b] = r
      /\ \A c \in DOMAIN objects \ {b} : filled[c] = objects[c]
  BY <1>1, UpdateProperties
<1>3. ASSUME NEW c \in DOMAIN filled
      PROVE  /\ c \in disk <=> filled[c].data = NoData
             /\ Listed(c, mem) <=> filled[c].data \notin {NoData, Freed}
  BY <1>1, <1>2 DEF WellFormed, Partition
<1>4. \A c \in DOMAIN filled : filled[c].data # Freed
  BY <1>2 DEF WellFormed
<1> QED
  BY <1>2, <1>3, <1>4 DEF WellFormed, Partition

-----------------------------------------------------------------------------
(* The rest of the invariant: what is not in the cache's own lists.         *)
RestOK ==
  /\ freePages \in Seq(Numbers)
  /\ pageCount \in Nat
  /\ currentBlock \in DOMAIN heap \cup {NoBlock}
  /\ keepInMemory \in BOOLEAN
  /\ op \in Operation
  /\ writes \in Nat
  /\ DOMAIN files \subseteq Nat
  /\ \A w \in DOMAIN files : files[w] \in [ref : Numbers, size : Nat]
  /\ LockedResident
  /\ op.kind \notin {"write", "read", "delete"} => currentBlock = NoBlock
  /\ op.kind = "write" => op.w # 0

(* What the inductive invariant says, with the type invariant and the       *)
(* properties expanded: the facts the steps below start from.               *)
LEMMA OpenInvariant ==
  IInv /\ op.kind # "closed" => CacheOK /\ RestOK
BY CacheSizeAssumption, LenProperties
   DEF IInv, TypeOK, CachePartition, ResidentBound, CacheOK, RestOK, WellFormed, MapOK,
       SwapOK, Bounded

(* allocateBlock: a new object under a number, the lists stay well formed.  *)
LEMMA AllocateLemma ==
  ASSUME NEW objects,
         WellFormed(pageCacheMem, pageCacheDisk, objects), MapOK(pageMap, objects),
         SwapOK(swap), Bounded(pageCacheMem, 0), keepInMemory \in BOOLEAN,
         freePages \in Seq(Numbers), pageCount \in Nat,
         AllocateBlock(objects)
  PROVE  /\ WellFormed(pageCacheMem', pageCacheDisk', heap')
         /\ MapOK(pageMap', heap')
         /\ SwapOK(swap')
         /\ ~keepInMemory => Len(pageCacheMem') <= CacheSize
         /\ NextNumber \in Numbers
         /\ freePages' \in Seq(Numbers)
         /\ pageCount' \in Nat
<1> DEFINE new == Len(objects) + 1
           e == [nr |-> NextNumber, next |-> 0, data |-> Garbage]
<1>1. /\ NextNumber \in Numbers
      /\ freePages' \in Seq(Numbers)
      /\ pageCount' \in Nat
  <2>1. CASE freePages # << >>
    <3>1. Head(freePages) \in Numbers /\ Tail(freePages) \in Seq(Numbers)
      BY <2>1, HeadTailProperties
    <3>2. freePages' = Tail(freePages) /\ pageCount' = pageCount
      BY <2>1 DEF AllocateBlock
    <3> QED
      BY <2>1, <3>1, <3>2 DEF NextNumber
  <2>2. CASE freePages = << >>
    <3>1. freePages' = freePages /\ pageCount' = pageCount + 1
      BY <2>2 DEF AllocateBlock
    <3> QED
      BY <2>2, <3>1 DEF NextNumber, Numbers
  <2> QED
    BY <2>1, <2>2
<1>2. e \in Block /\ e.data \notin {NoData, Freed}
  BY <1>1 DEF Block, Numbers, Datum, Garbage, NoData, Freed, Piece
<1>3. /\ WellFormed(Append(pageCacheMem, new), pageCacheDisk, Append(objects, e))
      /\ Len(Append(pageCacheMem, new)) = Len(pageCacheMem) + 1
      /\ DOMAIN Append(objects, e) = DOMAIN objects \cup {new}
  BY <1>2, NewObjectLemma
<1>4. MapOK(Put(pageMap, NextNumber, new), Append(objects, e))
  BY <1>1, <1>3 DEF MapOK, Put
<1>5. Bounded(Append(pageCacheMem, new), 1)
  <2>1. Len(pageCacheMem) \in Nat
    BY LenProperties DEF WellFormed
  <2> QED
    BY <2>1, <1>3, CacheSizeAssumption DEF Bounded
<1>6. CleanupMemCache(Append(pageCacheMem, new), pageCacheDisk, Append(objects, e),
                      Put(pageMap, NextNumber, new))
  BY DEF AllocateBlock, PushFront
<1> HIDE DEF new, e
<1>7. /\ WellFormed(pageCacheMem', pageCacheDisk', heap')
      /\ MapOK(pageMap', heap')
      /\ SwapOK(swap')
      /\ ~keepInMemory => Len(pageCacheMem') <= CacheSize
  BY <1>3, <1>4, <1>5, <1>6, CleanupLemma
<1> QED
  BY <1>1, <1>7

-----------------------------------------------------------------------------
(* The initial states satisfy the inductive invariant.                      *)
THEOREM InitInvariant == Init => IInv
<1> SUFFICES ASSUME Init PROVE IInv
  OBVIOUS
<1>1. /\ heap \in Seq(Block) /\ Len(heap) = 0 /\ DOMAIN heap = {}
      /\ pageCacheMem \in Seq(DOMAIN heap) /\ Len(pageCacheMem) = 0
      /\ DOMAIN pageCacheMem = {}
      /\ freePages \in Seq(Numbers)
      /\ DOMAIN pageMap = {} /\ DOMAIN swap = {} /\ DOMAIN files = {}
  BY EmptySeq DEF Init
<1>2. op \in Operation /\ op.kind = "idle"
  BY EmptySeq DEF Init, Idle, Operation, Numbers
<1>3. keepInMemory \in BOOLEAN
  BY ClientAssumption DEF Init
<1> QED
  BY <1>1, <1>2, <1>3, CacheSizeAssumption
     DEF Init, IInv, TypeOK, CachePartition, Partition, ResidentBound, LockedResident, SwapOK

(* Every step of an operation keeps it, whatever the clients do.            *)
THEOREM NextInvariant == IInv /\ [Next]_vars => IInv'
<1> SUFFICES ASSUME IInv, [Next]_vars PROVE IInv'
  OBVIOUS
<1>1. ASSUME NEW size \in Sizes, BeginWrite(size)
      PROVE  IInv'
  <2>1. /\ CacheOK
        /\ RestOK
        /\ op.kind = "idle"
        /\ currentBlock = NoBlock
        /\ currentBlock' = NoBlock
        /\ keepInMemory' = keepInMemory
    BY <1>1, OpenInvariant DEF BeginWrite, RestOK
  <2>2. writes' \in Nat /\ writes' # 0 /\ size \in Nat
    BY <1>1, <2>1, ClientAssumption DEF BeginWrite, RestOK
  <2>3. CASE size = 0
    <3>1. /\ UNCHANGED <<cacheVars, numberVars, op>>
          /\ files' = Put(files, writes', [ref |-> 0, size |-> 0])
      BY <1>1, <2>3 DEF BeginWrite
    <3>2. /\ DOMAIN files' \subseteq Nat
          /\ \A w \in DOMAIN files' : files'[w] \in [ref : Numbers, size : Nat]
      BY <3>1, <2>1, <2>2 DEF Put, RestOK, Numbers
    <3> QED
      BY <2>1, <2>2, <3>1, <3>2
         DEF IInv, TypeOK, CachePartition, ResidentBound, LockedResident, RestOK,
             cacheVars, numberVars
  <2>4. CASE size # 0
    <3>1. /\ AllocateBlock(heap)
          /\ op' = [Idle EXCEPT !.kind = "write", !.w = writes', !.size = size,
                                !.nr = NextNumber, !.head = NextNumber]
          /\ files' = files
      BY <1>1, <2>4 DEF BeginWrite
    <3>2. /\ WellFormed(pageCacheMem', pageCacheDisk', heap')
          /\ MapOK(pageMap', heap')
          /\ SwapOK(swap')
          /\ ~keepInMemory => Len(pageCacheMem') <= CacheSize
          /\ NextNumber \in Numbers
          /\ freePages' \in Seq(Numbers)
          /\ pageCount' \in Nat
      BY <2>1, <3>1, AllocateLemma DEF CacheOK, RestOK
    <3>3. op' \in Operation /\ op'.kind = "write" /\ op'.w # 0
      BY <2>2, <3>1, <3>2, EmptySeq DEF Idle, Operation, Numbers
    <3> QED
      BY <2>1, <2>2, <3>1, <3>2, <3>3
         DEF IInv, TypeOK, CachePartition, ResidentBound, LockedResident, RestOK,
             WellFormed, MapOK, SwapOK
  <2> QED
    BY <2>3, <2>4
<1>2. CASE WriteBlock
  <2> DEFINE more == op.count + 1 < BlocksRequired(op.size)
             length == CopyLength(op.count * BlockSize, op.size)
             r == [nr   |-> heap[currentBlock].nr,
                   next |-> Link(more),
                   data |-> IF length > 0 THEN Piece(op.w, op.count + 1)
                                          ELSE heap[currentBlock].data]
             filled == [heap EXCEPT ![currentBlock] = r]
  <2>1. /\ CacheOK
        /\ RestOK
        /\ currentBlock' = NoBlock
        /\ keepInMemory' = keepInMemory
        /\ writes' = writes
        /\ op.kind = "write" /\ op.w # 0
        /\ currentBlock \in DOMAIN heap
    BY <1>2, OpenInvariant DEF WriteBlock, RestOK
  <2>2. /\ op.w \in Nat /\ op.size \in Nat /\ op.nr \in Nat /\ op.count \in Nat
        /\ op.head \in Nat /\ op.out \in Seq(Datum)
    BY <2>1 DEF RestOK, Operation, Numbers
  <2>3. heap[currentBlock] \in Block /\ heap[currentBlock].data \notin {NoData, Freed}
    <3>1. heap[currentBlock] \in Block
      BY <2>1, ElementOfSeq, LenProperties DEF CacheOK, WellFormed
    <3>2. Listed(currentBlock, pageCacheMem)
      BY <1>2, <2>1 DEF RestOK, LockedResident, WriteBlock
    <3> QED
      BY <2>1, <3>1, <3>2 DEF CacheOK, WellFormed, Partition
  <2>4. NextNumber \in Numbers
    BY <2>1, HeadTailProperties DEF RestOK, NextNumber, Numbers
  <2>5. r \in Block /\ r.data \notin {NoData, Freed}
    <3>1. Piece(op.w, op.count + 1) \in Datum \ {NoData, Freed}
      BY <2>1, <2>2 DEF Piece, NoData, Freed, Datum
    <3> HIDE DEF more, length
    <3> QED
      BY <2>3, <2>4, <3>1 DEF Block, Numbers, Link
  <2>6. /\ WellFormed(pageCacheMem, pageCacheDisk, filled)
        /\ DOMAIN filled = DOMAIN heap
    <3> HIDE DEF r
    <3> QED
      BY <2>1, <2>3, <2>5, FillLemma DEF CacheOK
  <2>7. CASE more
    <3>1. /\ AllocateBlock(filled)
          /\ op' = [op EXCEPT !.nr = NextNumber, !.count = @ + 1]
          /\ files' = files
      BY <1>2, <2>7 DEF WriteBlock
    <3>2. MapOK(pageMap, filled)
      BY <2>1, <2>6 DEF CacheOK, MapOK
    <3>3. /\ WellFormed(pageCacheMem', pageCacheDisk', heap')
          /\ MapOK(pageMap', heap')
          /\ SwapOK(swap')
          /\ ~keepInMemory => Len(pageCacheMem') <= CacheSize
          /\ freePages' \in Seq(Numbers)
          /\ pageCount' \in Nat
      <4> HIDE DEF filled
      <4> QED
        BY <2>1, <2>6, <3>1, <3>2, AllocateLemma DEF CacheOK, RestOK
    <3>4. op' \in Operation /\ op'.kind = "write" /\ op'.w # 0
      <4>1. op \in Operation
        BY <2>1 DEF RestOK
      <4>2. op.count + 1 \in Nat /\ NextNumber \in Nat
        BY <2>2, <2>4 DEF Numbers
      <4> HIDE DEF more, length, r, filled
      <4> QED
        BY <2>1, <3>1, <4>1, <4>2 DEF Operation, Numbers
    <3> QED
      BY <2>1, <3>1, <3>3, <3>4
         DEF IInv, TypeOK, CachePartition, ResidentBound, LockedResident, RestOK,
             WellFormed, MapOK, SwapOK
  <2>8. CASE ~more
    <3>1. /\ heap' = filled
          /\ op' = Idle
          /\ files' = Put(files, op.w, [ref |-> op.head, size |-> op.size])
          /\ UNCHANGED <<pageCacheMem, pageCacheDisk, pageMap, swap, numberVars>>
      BY <1>2, <2>8 DEF WriteBlock
    <3>2. op' \in Operation /\ op'.kind = "idle"
      BY <3>1, EmptySeq DEF Idle, Operation, Numbers
    <3>3. /\ DOMAIN files' \subseteq Nat
          /\ \A w \in DOMAIN files' : files'[w] \in [ref : Numbers, size : Nat]
      BY <2>1, <2>2, <3>1 DEF Put, RestOK, Numbers
    <3> HIDE DEF filled
    <3> QED
      BY <2>1, <2>6, <3>1, <3>2, <3>3, CacheSizeAssumption, LenProperties
         DEF IInv, TypeOK, CachePartition, ResidentBound, LockedResident, RestOK, CacheOK,
             WellFormed, MapOK, SwapOK, Bounded, numberVars
  <2> QED
    BY <2>7, <2>8
<1>3. ASSUME NEW w \in DOMAIN files, BeginRead(w)
      PROVE  IInv'
  <2>1. /\ RestOK
        /\ op.kind = "idle" /\ currentBlock = NoBlock
        /\ op' = [Idle EXCEPT !.kind = "read", !.w = w, !.size = files[w].size,
                              !.nr = files[w].ref]
        /\ UNCHANGED <<cacheVars, numberVars, currentBlock, keepInMemory, clientVars>>
    BY <1>3, OpenInvariant DEF BeginRead, RestOK
  <2>2. op' \in Operation /\ op'.kind = "read"
    BY <2>1, EmptySeq DEF RestOK, Idle, Operation, Numbers
  <2> QED
    BY <2>1, <2>2
       DEF IInv, TypeOK, CachePartition, ResidentBound, LockedResident,
           cacheVars, numberVars, clientVars
<1>4. CASE ReadBlock
  <2> DEFINE length == CopyLength(op.count * BlockSize, op.size)
             next == heap[currentBlock].next
             out == IF length > 0 THEN Append(op.out, heap[currentBlock].data) ELSE op.out
  <2>1. /\ CacheOK
        /\ RestOK
        /\ op.kind = "read" /\ currentBlock' = NoBlock
        /\ currentBlock \in DOMAIN heap
        /\ UNCHANGED <<cacheVars, numberVars, keepInMemory, files, writes>>
    BY <1>4, OpenInvariant DEF ReadBlock, RestOK
  <2>2. /\ op.w \in Nat /\ op.size \in Nat /\ op.nr \in Nat /\ op.count \in Nat
        /\ op.head \in Nat /\ op.out \in Seq(Datum)
    BY <2>1 DEF RestOK, Operation, Numbers
  <2>3. next \in Numbers /\ out \in Seq(Datum)
    <3>1. heap[currentBlock] \in Block
      BY <2>1, ElementOfSeq, LenProperties DEF CacheOK, WellFormed
    <3>2. next \in Numbers /\ heap[currentBlock].data \in Datum
      BY <3>1 DEF Block
    <3> QED
      BY <2>2, <3>2, AppendProperties
  <2>4. op' \in Operation /\ op'.kind \in {"read", "idle", "fault"}
    <3>1. \/ op' = [Idle EXCEPT !.kind = "fault"]
          \/ op' = [op EXCEPT !.nr = next, !.count = @ + 1, !.out = out]
          \/ op' = Idle
      BY <1>4 DEF ReadBlock, Stop
    <3>2. Idle \in Operation /\ [Idle EXCEPT !.kind = "fault"] \in Operation
      BY EmptySeq DEF Idle, Operation, Numbers
    <3>3. op \in Operation /\ op.count + 1 \in Nat /\ next \in Nat
      BY <2>1, <2>2, <2>3 DEF RestOK, Numbers
    <3>4. CASE op' = [op EXCEPT !.nr = next, !.count = @ + 1, !.out = out]
      <4> HIDE DEF length, next, out
      <4> QED
        BY <2>1, <2>3, <3>3, <3>4 DEF Operation, Numbers
    <3> QED
      BY <3>1, <3>2, <3>4 DEF Idle
  <2> QED
    BY <2>1, <2>4
       DEF IInv, TypeOK, CachePartition, ResidentBound, LockedResident,
           cacheVars, numberVars
<1>5. ASSUME NEW w \in DOMAIN files, BeginDelete(w)
      PROVE  IInv'
  <2>1. /\ RestOK
        /\ op.kind = "idle" /\ currentBlock = NoBlock
        /\ op' = [Idle EXCEPT !.kind = "delete", !.w = w, !.nr = files[w].ref]
        /\ files' = Without(files, w)
        /\ UNCHANGED <<cacheVars, numberVars, currentBlock, keepInMemory, writes, answer>>
    BY <1>5, OpenInvariant DEF BeginDelete, RestOK
  <2>2. op' \in Operation /\ op'.kind = "delete"
    BY <2>1, EmptySeq DEF RestOK, Idle, Operation, Numbers
  <2>3. /\ DOMAIN files' \subseteq Nat
        /\ \A v \in DOMAIN files' : files'[v] \in [ref : Numbers, size : Nat]
    BY <2>1 DEF Without, RestOK
  <2> QED
    BY <2>1, <2>2, <2>3
       DEF IInv, TypeOK, CachePartition, ResidentBound, LockedResident,
           cacheVars, numberVars
<1>6. CASE DeleteBlock
  <2>1. /\ CacheOK
        /\ RestOK
        /\ op.kind = "delete" /\ currentBlock' = NoBlock
        /\ currentBlock \in DOMAIN heap
        /\ pageMap' = Without(pageMap, op.nr)
        /\ freePages' = Append(freePages, op.nr)
        /\ UNCHANGED <<heap, pageCacheMem, pageCacheDisk, swap, pageCount, keepInMemory,
                       clientVars>>
    BY <1>6, OpenInvariant DEF DeleteBlock, RestOK
  <2>2. /\ op.w \in Nat /\ op.size \in Nat /\ op.nr \in Nat /\ op.count \in Nat
        /\ op.head \in Nat /\ op.out \in Seq(Datum)
    BY <2>1 DEF RestOK, Operation, Numbers
  <2>3. op' \in Operation /\ op'.kind \in {"delete", "idle"}
    <3>1. heap[currentBlock] \in Block
      BY <2>1, ElementOfSeq, LenProperties DEF CacheOK, WellFormed
    <3>2. heap[currentBlock].next \in Nat
      BY <3>1 DEF Block, Numbers
    <3>3. \/ op' = [op EXCEPT !.nr = heap[currentBlock].next]
          \/ op' = Idle
      BY <1>6 DEF DeleteBlock
    <3>4. Idle \in Operation
      BY EmptySeq DEF Idle, Operation, Numbers
    <3> QED
      BY <2>1, <2>2, <3>2, <3>3, <3>4 DEF Idle, Operation, Numbers, RestOK
  <2>4. freePages' \in Seq(Numbers)
    BY <2>1, <2>2, AppendProperties DEF RestOK, Numbers
  <2>5. MapOK(pageMap', heap')
    BY <2>1 DEF MapOK, Without, CacheOK
  <2> QED
    BY <2>1, <2>3, <2>4, <2>5
       DEF IInv, TypeOK, CachePartition, ResidentBound, LockedResident, MapOK, clientVars
<1>7. CASE LockBlock
  <2>1. /\ CacheOK
        /\ RestOK
        /\ op.kind \in {"write", "read", "delete"}
        /\ op.nr \in DOMAIN pageMap
        /\ op.nr \in Numbers
        /\ currentBlock' = pageMap[op.nr]
        /\ UNCHANGED <<numberVars, keepInMemory, op, clientVars>>
    BY <1>7, OpenInvariant DEF LockBlock, CacheOK, MapOK
  <2> DEFINE block == pageMap[op.nr]
  <2>2. /\ block \in DOMAIN heap
        /\ heap[block] \in Block
        /\ heap[block].data # Freed
        /\ Len(pageCacheMem) \in Nat
        /\ DOMAIN heap \subseteq Nat \ {0}
    BY <2>1, ElementOfSeq, LenProperties DEF CacheOK, MapOK, WellFormed
  <2>3. CASE heap[block].data = NoData
    <3> DEFINE mem == Append(pageCacheMem, block)
               disk == pageCacheDisk \ {block}
               loaded == [heap EXCEPT ![block].data = SwapIn(heap[block].nr)]
               map == Put(pageMap, op.nr, block)
    <3>1. CleanupMemCache(mem, disk, loaded, map)
      BY <1>7, <2>3 DEF LockBlock, PushFront
    <3>2. SwapIn(heap[block].nr) \in Datum \ {NoData, Freed}
      BY <2>1 DEF SwapIn, CacheOK, SwapOK, Garbage, NoData, Freed, Piece, Datum
    <3>3. /\ WellFormed(mem, disk, loaded)
          /\ Len(mem) = Len(pageCacheMem) + 1
          /\ DOMAIN loaded = DOMAIN heap
      <4> HIDE DEF block
      <4> QED
        BY <2>1, <2>2, <2>3, <3>2, ReloadLemma DEF CacheOK
    <3>4. MapOK(map, loaded)
      BY <2>1, <2>2, <3>3 DEF CacheOK, MapOK, Put
    <3>5. Bounded(mem, 1)
      BY <2>1, <2>2, <3>3, CacheSizeAssumption DEF CacheOK, Bounded
    <3>6. Listed(block, mem)
      BY <2>1, <2>2, ListedAppend DEF CacheOK, WellFormed
    <3>7. ~(Len(mem) > CacheSize /\ block = Head(mem))
      <4>1. ASSUME Len(mem) > CacheSize
            PROVE  Head(mem) = pageCacheMem[1] /\ 1 \in DOMAIN pageCacheMem
        <5>1. pageCacheMem \in Seq(DOMAIN heap) /\ Len(pageCacheMem) >= 1
          BY <4>1, <2>1, <2>2, <3>3, CacheSizeAssumption DEF CacheOK, WellFormed
        <5>2. pageCacheMem # << >>
          BY <5>1
        <5>3. Head(mem) = Head(pageCacheMem)
          BY <5>1, <5>2, HeadTailAppend
        <5> QED
          BY <5>1, <5>2, <5>3, <2>2, LenProperties
      <4>2. ~Listed(block, pageCacheMem)
        BY <2>1, <2>2, <2>3 DEF CacheOK, WellFormed, Partition
      <4> QED
        BY <4>1, <4>2 DEF Listed
    <3>8. /\ WellFormed(pageCacheMem', pageCacheDisk', heap')
          /\ MapOK(pageMap', heap')
          /\ SwapOK(swap')
          /\ ~keepInMemory => Len(pageCacheMem') <= CacheSize
          /\ DOMAIN heap' = DOMAIN heap
          /\ Listed(block, pageCacheMem')
      <4> HIDE DEF mem, disk, loaded, map, block
      <4> QED
        BY <2>1, <3>1, <3>3, <3>4, <3>5, <3>6, <3>7, CleanupLemma DEF CacheOK, RestOK
    <3> HIDE DEF mem, disk, loaded, map
    <3> QED
      BY <2>1, <2>2, <3>8
         DEF IInv, TypeOK, CachePartition, ResidentBound, LockedResident, RestOK,
             WellFormed, MapOK, SwapOK, NoBlock, numberVars, clientVars
  <2>4. CASE heap[block].data # NoData
    <3>1. CleanupMemCache(pageCacheMem, pageCacheDisk, heap, pageMap)
      BY <1>7, <2>4 DEF LockBlock
    <3>2. Listed(block, pageCacheMem)
      BY <2>1, <2>2, <2>4 DEF CacheOK, WellFormed, Partition
    <3>3. UNCHANGED cacheVars
      BY <2>1, <2>2, <3>1, CacheSizeAssumption
         DEF CleanupMemCache, TooLarge, CacheOK, Bounded, cacheVars
    <3> QED
      BY <2>1, <2>2, <3>2, <3>3
         DEF IInv, TypeOK, CachePartition, ResidentBound, LockedResident, RestOK,
             NoBlock, cacheVars, numberVars, clientVars
  <2> QED
    BY <2>3, <2>4
<1>8. CASE LockFails
  <2>1. /\ RestOK
        /\ op.kind # "closed" /\ currentBlock = NoBlock
        /\ op' = Idle \/ op' = [Idle EXCEPT !.kind = "fault"]
        /\ UNCHANGED <<cacheVars, numberVars, currentBlock, keepInMemory, clientVars>>
    BY <1>8, OpenInvariant DEF LockFails, Stop
  <2>2. op' \in Operation /\ op'.kind \in {"idle", "fault"}
    <3>1. Idle \in Operation /\ [Idle EXCEPT !.kind = "fault"] \in Operation
      BY EmptySeq DEF Idle, Operation, Numbers
    <3> QED
      BY <2>1, <3>1 DEF Idle
  <2> QED
    BY <2>1, <2>2
       DEF IInv, TypeOK, CachePartition, ResidentBound, LockedResident,
           cacheVars, numberVars, clientVars
<1>9. CASE Close
  <2>1. /\ CacheOK
        /\ RestOK
        /\ op.kind = "idle" /\ currentBlock = NoBlock
        /\ op' = [Idle EXCEPT !.kind = "closed"]
        /\ pageCacheMem' = << >> /\ pageCacheDisk' = {}
        /\ heap' = [b \in DOMAIN heap |->
                     IF b \in pageCacheDisk \/ Listed(b, pageCacheMem)
                       THEN [heap[b] EXCEPT !.data = Freed]
                       ELSE heap[b]]
        /\ swap' = << >> /\ files' = << >>
        /\ UNCHANGED <<numberVars, pageMap, currentBlock, keepInMemory, writes, answer>>
    BY <1>9, OpenInvariant DEF Close, RestOK, Stop, Listed
  <2>2. op' \in Operation /\ op'.kind = "closed"
    BY <2>1, EmptySeq DEF Idle, Operation, Numbers
  <2>3. /\ heap \in [1..Len(heap) -> Block]
        /\ Len(heap) \in Nat
        /\ DOMAIN heap = 1..Len(heap)
    BY <2>1, LenProperties DEF CacheOK, WellFormed
  <2>4. \A b \in DOMAIN heap : b \in pageCacheDisk \/ Listed(b, pageCacheMem)
    BY <2>1 DEF CacheOK, WellFormed, Partition
  <2>5. \A b \in DOMAIN heap : heap'[b] \in Block /\ heap'[b].data = Freed
    BY <2>1, <2>3, <2>4 DEF Block, Freed, Piece, Datum
  <2>6. /\ heap' \in Seq(Block)
        /\ DOMAIN heap' = DOMAIN heap
    <3>1. heap' \in [1..Len(heap) -> Block]
      BY <2>1, <2>3, <2>5
    <3> QED
      BY <2>3, <3>1, SeqDef
  <2>7. /\ pageCacheMem' \in Seq(DOMAIN heap')
        /\ Len(pageCacheMem') = 0 /\ DOMAIN pageCacheMem' = {}
        /\ DOMAIN swap' = {} /\ DOMAIN files' = {}
    BY <2>1, EmptySeq
  <2>8. Freed # NoData
    BY DEF Freed, NoData, Piece
  <2>9. CachePartition'
    BY <2>1, <2>5, <2>6, <2>7, <2>8 DEF CachePartition, Partition, Listed
  <2>10. TypeOK'
    BY <2>1, <2>2, <2>6, <2>7 DEF TypeOK, RestOK, CacheOK, MapOK, numberVars
  <2> QED
    BY <2>1, <2>2, <2>7, <2>9, <2>10, CacheSizeAssumption
       DEF IInv, ResidentBound, LockedResident, SwapOK
<1>10. CASE UNCHANGED vars
  BY <1>10
     DEF IInv, TypeOK, CachePartition, ResidentBound, LockedResident,
         vars, cacheVars, numberVars, clientVars
<1> QED
  BY <1>1, <1>2, <1>3, <1>4, <1>5, <1>6, <1>7, <1>8, <1>9, <1>10 DEF Next, OperationStep

(* IInv is an invariant of the class for every value of the constants.      *)
THEOREM Invariance == Spec => []IInv
<1>1. Init => IInv
  BY InitInvariant
<1>2. IInv /\ [Next]_vars => IInv'
  BY NextInvariant
<1> QED
  BY <1>1, <1>2, PTL DEF Spec

-----------------------------------------------------------------------------
(* The variables of CacheFile hold values of their types, and no list, map  *)
(* entry or lock refers to an object that was never made.                   *)
THEOREM TypeCorrectness == Spec => []TypeOK
<1>1. IInv => TypeOK
  BY DEF IInv
<1> QED
  BY <1>1, Invariance, PTL

(* Evictions, reloads, reuse of numbers and close never leak a block nor    *)
(* delete one twice: each is in exactly one list until close.               *)
THEOREM EachBlockInOneList == Spec => []CachePartition
<1>1. IInv => CachePartition
  BY DEF IInv
<1> QED
  BY <1>1, Invariance, PTL

(* One eviction at a time is enough to keep the memory list within          *)
(* CACHE_SIZE.                                                              *)
THEOREM MemoryIsBounded == Spec => []ResidentBound
<1>1. IInv => ResidentBound
  BY DEF IInv
<1> QED
  BY <1>1, Invariance, PTL

(* The block an operation works on stays in memory while it is locked, for  *)
(* every cache size of at least one block.                                  *)
THEOREM LockedStaysResident == Spec => []LockedResident
<1>1. IInv => LockedResident
  BY DEF IInv
<1> QED
  BY <1>1, Invariance, PTL

-----------------------------------------------------------------------------
(* Clients that never store an empty image, and never delete the one that  *)
(* holds block 0 (with a swap file: delete none at all).                   *)
Careful ==
  /\ 0 \notin Sizes
  /\ 1 \in Pinned[TRUE]
  /\ 1..MaxWrites \subseteq Pinned[FALSE]
SwapServes == keepInMemory \/ ~SwapMayFail

(* Every number in the map belongs to the object that the map names; with  *)
(* a swap file every object is one that the map names.  Numbers are in the *)
(* map, or free, or were never handed out.                                 *)
Fits(map, objects) ==
  /\ \A nr \in DOMAIN map : objects[map[nr]].nr = nr
  /\ ~keepInMemory =>
       \A b \in DOMAIN objects : objects[b].nr \in DOMAIN map /\ map[objects[b].nr] = b
FreeOK ==
  /\ \A nr \in DOMAIN pageMap : nr < pageCount
  /\ \A i \in DOMAIN freePages :
       freePages[i] \in 1..(pageCount - 1) /\ freePages[i] \notin DOMAIN pageMap
  /\ \A i, j \in DOMAIN freePages : freePages[i] = freePages[j] => i = j
  /\ IF keepInMemory THEN pageCacheDisk = {} ELSE freePages = << >>
NumbersOK == Fits(pageMap, heap) /\ FreeOK

Successor(nr) == heap[pageMap[nr]].next

(* own and idx label the numbers of the map: nr is link idx[nr] of the     *)
(* chain of the image own[nr].                                             *)
OwnedBy(own, w) == {nr \in DOMAIN pageMap : own[nr] = w}
Linked(own, idx, nr) ==
  LET next == Successor(nr) IN
  next # 0 /\ next \in OwnedBy(own, own[nr]) /\ idx[next] = idx[nr] + 1
Filled(own, idx, nr, size) ==
  SwapServes /\ idx[nr] <= PiecesOf(size) => StoredPiece(nr) = Piece(own[nr], idx[nr])

(* The chain of an image that is stored.                                   *)
Complete(own, idx, w) ==
  /\ files[w].size \in Sizes /\ BlocksRequired(files[w].size) <= Len(heap)
  /\ files[w].ref \in OwnedBy(own, w) /\ idx[files[w].ref] = 1
  /\ \A nr \in OwnedBy(own, w) :
       /\ idx[nr] \in 1..BlocksRequired(files[w].size)
       /\ IF idx[nr] = BlocksRequired(files[w].size)
            THEN Successor(nr) = 0 ELSE Linked(own, idx, nr)
       /\ Filled(own, idx, nr, files[w].size)

(* The chain that a write has built so far, op.nr its last block.          *)
Growing(own, idx) ==
  /\ op.w = writes /\ op.w \notin DOMAIN files /\ op.size \in Sizes
  /\ op.count + 1 <= BlocksRequired(op.size) /\ op.count + 1 <= Len(heap)
  /\ op.head \in OwnedBy(own, op.w) /\ idx[op.head] = 1
  /\ op.nr \in OwnedBy(own, op.w) /\ idx[op.nr] = op.count + 1
  /\ Successor(op.nr) = 0
  /\ \A nr \in OwnedBy(own, op.w) \ {op.nr} :
       idx[nr] \in 1..op.count /\ Linked(own, idx, nr) /\ Filled(own, idx, nr, op.size)

(* How far a read is.                                                      *)
Fetched(own, idx) ==
  /\ op.w \in DOMAIN files /\ op.size = files[op.w].size
  /\ op.nr \in OwnedBy(own, op.w) /\ idx[op.nr] = op.count + 1
  /\ Len(op.out) = IF op.count <= PiecesOf(op.size) THEN op.count ELSE PiecesOf(op.size)
  /\ SwapServes => \A k \in DOMAIN op.out : op.out[k] = Piece(op.w, k)

(* What a deletion has left, op.nr its first block.                        *)
Shrinking(own, idx) ==
  /\ keepInMemory /\ op.w # 1 /\ op.w \notin DOMAIN files
  /\ op.nr \in OwnedBy(own, op.w)
  /\ \A nr \in OwnedBy(own, op.w) :
       idx[nr] >= idx[op.nr] /\ Successor(nr) # 0 => Linked(own, idx, nr)

Labelled(own, idx) ==
  /\ \A nr \in DOMAIN pageMap : own[nr] \in 1..writes
  /\ writes > 0 => 0 \in OwnedBy(own, 1)
  /\ \A w \in DOMAIN files : Complete(own, idx, w)
  /\ op.kind = "write" => Growing(own, idx)
  /\ op.kind = "read" => Fetched(own, idx)
  /\ op.kind = "delete" => Shrinking(own, idx)

ClientsOK ==
  /\ keepInMemory \in KeepModes
  /\ writes <= MaxWrites /\ DOMAIN files \subseteq 1..writes
  /\ pageCount = 0 <=> writes = 0
  /\ op.kind # "fault"
  /\ op.kind = "closed" => files = << >>
  /\ currentBlock # NoBlock => op.nr \in DOMAIN pageMap /\ currentBlock = pageMap[op.nr]

-----------------------------------------------------------------------------
Onwards(nr) == IF nr \in DOMAIN pageMap /\ Successor(nr) # 0 THEN Successor(nr) ELSE End
IsChain(at, nr, n) == at = [k \in 0..n |-> IF k = 0 THEN nr ELSE Onwards(at[k - 1])]
(* Chain is the function that its definition describes: there is one.      *)
LEMMA ChainSteps ==
  ASSUME NEW nr, Len(heap) \in Nat
  PROVE  IsChain(Chain(nr), nr, Len(heap))
<1> DEFINE S == {n \in Nat : \E at : IsChain(at, nr, n)}
<1>1. 0 \in S
  <2>1. IsChain([k \in 0..0 |-> nr], nr, 0)
    BY DEF IsChain
  <2> QED
    BY <2>1
<1>2. ASSUME NEW n \in Nat, n \in S PROVE n + 1 \in S
  <2>1. PICK at : IsChain(at, nr, n)
    BY <1>2
  <2> DEFINE more == [k \in 0..(n + 1) |-> IF k <= n THEN at[k] ELSE Onwards(at[n])]
  <2>2. ASSUME NEW k \in 0..n PROVE more[k] = IF k = 0 THEN nr ELSE Onwards(more[k - 1])
    BY <2>1, <2>2 DEF IsChain
  <2>3. more[n + 1] = Onwards(more[n])
    OBVIOUS
  <2>4. \A k \in 0..(n + 1) : more[k] = IF k = 0 THEN nr ELSE Onwards(more[k - 1])
    BY <2>2, <2>3, SMTT(30)
  <2>5. more = [k \in 0..(n + 1) |-> more[k]]
    OBVIOUS
  <2> HIDE DEF more
  <2>6. IsChain(more, nr, n + 1)
    BY <2>4, <2>5 DEF IsChain
  <2> QED
    BY <2>6
<1> HIDE DEF S
<1>3. Nat \subseteq S
  BY <1>1, <1>2, SetInduction
<1>4. \E at : IsChain(at, nr, Len(heap))
  BY <1>3 DEF S
<1>5. Chain(nr) = CHOOSE at : IsChain(at, nr, Len(heap))
  BY DEF Chain, IsChain, Onwards, Successor
<1> QED
  BY <1>4, <1>5

(* The arithmetic of writeFile and readFile: the last block of a chain is  *)
(* the one behind the last full one, and a block that is part of a chain   *)
(* never has a negative length.                                            *)
LEMMA Lengths ==
  ASSUME NEW size \in Nat, NEW count \in Nat
  PROVE  /\ BlocksRequired(size) \in Nat \ {0} /\ PiecesOf(size) \in Nat
         /\ PiecesOf(size) <= BlocksRequired(size)
         /\ CopyLength(count * BlockSize, size) > 0 <=> count + 1 <= PiecesOf(size)
         /\ count + 1 <= BlocksRequired(size) => CopyLength(count * BlockSize, size) >= 0
<1>1. BlocksRequired(size) \in Nat \ {0} /\ PiecesOf(size) \in Nat
  BY BlockSizeAssumption DEF BlocksRequired, PiecesOf
<1>2. PiecesOf(size) <= BlocksRequired(size)
  BY BlockSizeAssumption DEF BlocksRequired, PiecesOf
<1>3. count * BlockSize < size <=> count + 1 <= PiecesOf(size)
  BY BlockSizeAssumption DEF PiecesOf
<1>4. count + 1 <= BlocksRequired(size) => count * BlockSize <= size
  BY BlockSizeAssumption DEF BlocksRequired
<1>5. count * BlockSize \in Nat
  BY BlockSizeAssumption
<1> DEFINE s == count * BlockSize
<1> HIDE DEF s
<1>6. /\ CopyLength(s, size) > 0 <=> s < size
      /\ s <= size => CopyLength(s, size) >= 0
  BY <1>5, BlockSizeAssumption DEF CopyLength, s
<1> QED
  BY <1>1, <1>2, <1>3, <1>4, <1>6 DEF s

(* Following the blocks of a stored image visits the blocks it owns, one   *)
(* by one, and ends behind the last.                                       *)
LEMMA ChainVisits ==
  ASSUME Len(heap) \in Nat, DOMAIN pageMap \subseteq Nat, NEW own, NEW idx,
         NEW w, files[w].size \in Nat, Complete(own, idx, w)
  PROVE  \A k \in 0..Len(heap) :
           IF k < BlocksRequired(files[w].size)
             THEN /\ Chain(files[w].ref)[k] \in OwnedBy(own, w)
                  /\ idx[Chain(files[w].ref)[k]] = k + 1
             ELSE Chain(files[w].ref)[k] = End
<1> DEFINE at == Chain(files[w].ref)
           last == BlocksRequired(files[w].size)
           InPlace(k) == IF k < last THEN at[k] \in OwnedBy(own, w) /\ idx[at[k]] = k + 1
                                     ELSE at[k] = End
           S == {k \in Nat : k <= Len(heap) => InPlace(k)}
<1>1. last \in Nat \ {0}
  BY Lengths
<1>2. IsChain(at, files[w].ref, Len(heap))
  BY ChainSteps
<1>3. at[0] = files[w].ref /\ \A k \in Nat : k + 1 <= Len(heap) => at[k + 1] = Onwards(at[k])
  BY <1>2 DEF IsChain
<1> HIDE DEF at
<1>4. 0 \in S
  BY <1>1, <1>3 DEF Complete
<1>5. ASSUME NEW k \in Nat, k \in S PROVE k + 1 \in S
  <2> SUFFICES ASSUME k + 1 <= Len(heap) PROVE InPlace(k + 1)
    OBVIOUS
  <2>1. at[k + 1] = Onwards(at[k]) /\ InPlace(k)
    BY <1>3, <1>5
  <2>2. CASE k < last
    <3>1. at[k] \in OwnedBy(own, w) /\ idx[at[k]] = k + 1
      BY <2>1, <2>2
    <3>2. IF k + 1 = last THEN Successor(at[k]) = 0 ELSE Linked(own, idx, at[k])
      BY <3>1 DEF Complete
    <3>3. at[k] \in DOMAIN pageMap /\ own[at[k]] = w
      BY <3>1 DEF OwnedBy
    <3>4. CASE k + 1 = last
      <4>1. at[k + 1] = End
        BY <2>1, <3>2, <3>4 DEF Onwards
      <4> QED
        BY <1>1, <3>4, <4>1
    <3>5. CASE k + 1 # last
      <4>1. /\ at[k + 1] = Successor(at[k]) /\ at[k + 1] \in OwnedBy(own, w)
            /\ idx[at[k + 1]] = k + 2
        BY <2>1, <3>1, <3>2, <3>3, <3>5 DEF Onwards, Linked
      <4> QED
        BY <1>1, <2>2, <3>5, <4>1
    <3> QED
      BY <3>4, <3>5
  <2>3. CASE ~(k < last)
    <3>1. at[k] = End /\ End \notin DOMAIN pageMap
      BY <2>1, <2>3 DEF End
    <3>2. at[k + 1] = End
      BY <2>1, <3>1 DEF Onwards
    <3> QED
      BY <1>1, <2>3, <3>2
  <2> QED
    BY <2>2, <2>3
<1> HIDE DEF S
<1>6. Nat \subseteq S
  BY <1>4, <1>5, SetInduction
<1> QED
  BY <1>6 DEF S, at

(* The blocks of a stored image are its own.                               *)
LEMMA ChainIsOwn ==
  ASSUME Len(heap) \in Nat, DOMAIN pageMap \subseteq Nat, NEW own, NEW idx,
         NEW w, files[w].size \in Nat, Complete(own, idx, w)
  PROVE  ChainNumbers(files[w].ref) \subseteq OwnedBy(own, w)
<1>1. DOMAIN Chain(files[w].ref) = 0..Len(heap)
  BY ChainSteps DEF IsChain
<1>2. \A k \in 0..Len(heap) : Chain(files[w].ref)[k] \in OwnedBy(own, w) \cup {End}
  BY ChainVisits
<1> QED
  BY <1>1, <1>2 DEF ChainNumbers

(* and hold what was stored.                                               *)
LEMMA ChainHolds ==
  ASSUME Len(heap) \in Nat, DOMAIN pageMap \subseteq Nat, NEW own, NEW idx,
         NEW w, files[w].size \in Nat, Complete(own, idx, w), SwapServes
  PROVE  StoredImage(w) = Image(w, files[w].size)
<1> DEFINE pieces == PiecesOf(files[w].size)
<1>1. /\ pieces \in Nat /\ pieces <= BlocksRequired(files[w].size)
      /\ BlocksRequired(files[w].size) \in Nat /\ BlocksRequired(files[w].size) <= Len(heap)
  BY Lengths DEF Complete
<1>2. ASSUME NEW k \in 1..pieces
      PROVE  StoredPiece(Chain(files[w].ref)[k - 1]) = Piece(w, k)
  <2>1. k - 1 \in 0..Len(heap) /\ k - 1 < BlocksRequired(files[w].size)
    BY <1>1
  <2>2. PICK nr : nr = Chain(files[w].ref)[k - 1]
    OBVIOUS
  <2>3. nr \in OwnedBy(own, w) /\ idx[nr] = k - 1 + 1
    BY <2>1, <2>2, ChainVisits
  <2>4. idx[nr] = k
    BY <2>3
  <2>5. Filled(own, idx, nr, files[w].size) /\ own[nr] = w
    BY <2>3 DEF Complete, OwnedBy
  <2>6. StoredPiece(nr) = Piece(w, k)
    BY <2>4, <2>5 DEF Filled
  <2> QED
    BY <2>2, <2>6
<1> QED
  BY <1>2 DEF StoredImage, Image

-----------------------------------------------------------------------------
(* What the cache does to the blocks: nothing that can be seen behind their *)
(* numbers.                                                                 *)
Slot(nr, file) == IF nr \in DOMAIN file THEN file[nr] ELSE Garbage
PieceIn(block) == IF block.data = NoData THEN SwapIn(block.nr) ELSE block.data
Shows(map, objects) ==
  /\ DOMAIN pageMap' = DOMAIN map /\ \A nr \in DOMAIN map : pageMap'[nr] = map[nr]
  /\ DOMAIN heap' = DOMAIN objects /\ Len(heap') = Len(objects)
  /\ \A b \in DOMAIN objects : heap'[b].nr = objects[b].nr /\ heap'[b].next = objects[b].next
  /\ SwapServes => \A nr \in DOMAIN map : StoredPiece(nr)' = PieceIn(objects[map[nr]])

(* cleanupMemCache: the data of the block that is evicted is found in its   *)
(* slot of the swap file, if that can be written.                           *)
LEMMA CleanupShows ==
  ASSUME NEW mem, NEW disk, NEW objects, NEW map,
         WellFormed(mem, disk, objects), MapOK(map, objects), SwapOK(swap), Fits(map, objects),
         keepInMemory \in BOOLEAN, CleanupMemCache(mem, disk, objects, map)
  PROVE  Shows(map, objects) /\ (keepInMemory => pageCacheDisk' = disk)
<1>1. /\ objects \in Seq(Block) /\ mem \in Seq(DOMAIN objects)
      /\ \A nr \in DOMAIN map : nr \in Nat /\ map[nr] \in DOMAIN objects
      /\ DOMAIN objects = 1..Len(objects) /\ Len(objects) \in Nat
      /\ \A nr \in DOMAIN map : objects[map[nr]].nr = nr
  BY LenProperties DEF WellFormed, MapOK, Numbers, Fits
<1>2. CASE ~TooLarge(mem)
  <2>1. pageMap' = map /\ heap' = objects /\ swap' = swap /\ pageCacheDisk' = disk
    BY <1>2 DEF CleanupMemCache
  <2>2. \A nr \in DOMAIN map : StoredPiece(nr)' = PieceIn(objects[map[nr]])
    BY <1>1, <2>1 DEF StoredPiece, PieceIn, SwapIn
  <2> QED
    BY <2>1, <2>2 DEF Shows
<1>3. CASE TooLarge(mem)
  <2> DEFINE old == Head(mem)
  <2>1. /\ SwapOut(objects[old].nr, objects[old].data)
        /\ heap' = [objects EXCEPT ![old].data = NoData]
        /\ pageMap' = Put(map, objects[old].nr, old)
        /\ ~keepInMemory
    BY <1>3 DEF CleanupMemCache, LeastUsed, TooLarge
  <2>2. /\ Len(mem) \in Nat /\ Len(mem) >= 1 /\ mem # << >>
        /\ DOMAIN mem = 1..Len(mem)
    BY <1>1, <1>3, LenProperties, CacheSizeAssumption DEF TooLarge
  <2>3. old = mem[1] /\ old \in DOMAIN objects /\ Listed(old, mem)
    BY <1>1, <2>2, HeadTailProperties DEF Listed
  <2>4. objects[old] \in Block /\ objects[old].data # NoData
    BY <1>1, <2>3, ElementOfSeq DEF WellFormed, Partition
  <2>5. objects[old].nr \in DOMAIN map /\ map[objects[old].nr] = old
    BY <2>1, <2>3 DEF Fits
  <2>6. DOMAIN pageMap' = DOMAIN map /\ \A nr \in DOMAIN map : pageMap'[nr] = map[nr]
    BY <2>1, <2>5 DEF Put
  <2>7. /\ DOMAIN heap' = DOMAIN objects /\ heap' \in Seq(Block)
        /\ heap'[old].data = NoData /\ heap'[old].nr = objects[old].nr
        /\ heap'[old].next = objects[old].next
        /\ \A b \in DOMAIN objects \ {old} : heap'[b] = objects[b]
    <3>1. heap' = [objects EXCEPT ![old] = [objects[old] EXCEPT !.data = NoData]]
      BY <2>1
    <3>2. /\ [objects[old] EXCEPT !.data = NoData] \in Block
          /\ [objects[old] EXCEPT !.data = NoData].data = NoData
          /\ [objects[old] EXCEPT !.data = NoData].nr = objects[old].nr
          /\ [objects[old] EXCEPT !.data = NoData].next = objects[old].next
      BY <2>4 DEF Block, NoData, Piece, Datum
    <3> HIDE DEF old
    <3> QED
      BY <1>1, <2>3, <3>1, <3>2, UpdateProperties
  <2>8. Len(heap') = Len(objects)
    BY <1>1, <2>7, LenProperties
  <2>9. ASSUME SwapServes, NEW nr \in DOMAIN map
        PROVE  StoredPiece(nr)' = PieceIn(objects[map[nr]])
    <3>1. swap' = Put(swap, objects[old].nr, objects[old].data)
      BY <2>1, <2>9 DEF SwapOut, SwapServes
    <3>2. StoredPiece(nr)' = IF heap'[map[nr]].data = NoData THEN Slot(heap'[map[nr]].nr, swap')
                                                             ELSE heap'[map[nr]].data
      BY <2>6, <2>9 DEF StoredPiece, SwapIn, Slot
    <3>3. CASE map[nr] = old
      <4>1. nr = objects[old].nr
        BY <1>1, <2>9, <3>3
      <4>2. Slot(objects[old].nr, swap') = objects[old].data
        BY <3>1 DEF Slot, Put
      <4> QED
        BY <2>4, <2>7, <3>2, <3>3, <4>2 DEF PieceIn
    <3>4. CASE map[nr] # old
      <4>1. heap'[map[nr]] = objects[map[nr]] /\ objects[map[nr]].nr = nr
        BY <1>1, <2>7, <2>9, <3>4
      <4>2. nr # objects[old].nr
        BY <2>5, <3>4
      <4>3. Slot(nr, swap') = SwapIn(nr)
        BY <3>1, <4>2 DEF SwapIn, Slot, Put
      <4> QED
        BY <3>2, <4>1, <4>3 DEF PieceIn
    <3> QED
      BY <3>3, <3>4
  <2> HIDE DEF old
  <2>10. \A b \in DOMAIN objects : heap'[b].nr = objects[b].nr /\ heap'[b].next = objects[b].next
    BY <2>3, <2>7
  <2> QED
    BY <2>1, <2>6, <2>7, <2>8, <2>9, <2>10 DEF Shows
<1> QED
  BY <1>2, <1>3

(* allocateBlock: a number that is not in the map, for a block without      *)
(* successor; 0 is only the first.                                          *)
LEMMA NewNumber ==
  ASSUME FreeOK, freePages \in Seq(Numbers), pageCount \in Nat, DOMAIN pageMap \subseteq Nat,
         NEW objects, AllocateBlock(objects)
  PROVE  /\ NextNumber \in Nat /\ NextNumber \notin DOMAIN pageMap
         /\ pageCount' \in Nat \ {0} /\ NextNumber < pageCount' /\ pageCount <= pageCount'
         /\ NextNumber = 0 <=> pageCount = 0
         /\ freePages = << >> => freePages' = << >>
         /\ \A i \in DOMAIN freePages' :
              freePages'[i] \in 1..(pageCount' - 1)
              /\ freePages'[i] \notin DOMAIN pageMap \cup {NextNumber}
         /\ \A i, j \in DOMAIN freePages' : freePages'[i] = freePages'[j] => i = j
<1>1. CASE freePages = << >>
  <2>1. NextNumber = pageCount /\ pageCount' = pageCount + 1 /\ freePages' = << >>
    BY <1>1 DEF AllocateBlock, NextNumber
  <2> QED
    BY <1>1, <2>1 DEF FreeOK
<1>2. CASE freePages # << >>
  <2>1. NextNumber = Head(freePages) /\ pageCount' = pageCount /\ freePages' = Tail(freePages)
    BY <1>2 DEF AllocateBlock, NextNumber
  <2>2. /\ 1 \in DOMAIN freePages /\ Head(freePages) = freePages[1]
        /\ \A i \in DOMAIN Tail(freePages) :
             i # 0 /\ i + 1 \in DOMAIN freePages /\ Tail(freePages)[i] = freePages[i + 1]
             /\ i \in Nat
    BY <1>2, HeadTailProperties, LenProperties
  <2>3. NextNumber = freePages[1]
    BY <2>1, <2>2
  <2>4. NextNumber \in 1..(pageCount - 1) /\ NextNumber \notin DOMAIN pageMap
    BY <2>2, <2>3 DEF FreeOK
  <2>5. ASSUME NEW i \in DOMAIN freePages'
        PROVE  freePages'[i] \in 1..(pageCount' - 1)
               /\ freePages'[i] \notin DOMAIN pageMap \cup {NextNumber}
    <3>1. i + 1 \in DOMAIN freePages /\ freePages'[i] = freePages[i + 1] /\ i + 1 # 1
      BY <2>1, <2>2, <2>5
    <3>2. freePages[i + 1] # freePages[1]
      BY <2>2, <3>1 DEF FreeOK
    <3> QED
      BY <2>1, <2>3, <3>1, <3>2 DEF FreeOK
  <2>6. ASSUME NEW i \in DOMAIN freePages', NEW j \in DOMAIN freePages',
               freePages'[i] = freePages'[j]
        PROVE  i = j
    <3>1. /\ i + 1 \in DOMAIN freePages /\ freePages'[i] = freePages[i + 1] /\ i \in Nat
          /\ j + 1 \in DOMAIN freePages /\ freePages'[j] = freePages[j + 1] /\ j \in Nat
      BY <2>1, <2>2, <2>6
    <3>2. i + 1 = j + 1
      BY <2>6, <3>1 DEF FreeOK
    <3> QED
      BY <3>1, <3>2
  <2> QED
    BY <1>2, <2>1, <2>4, <2>5, <2>6
<1> QED
  BY <1>1, <1>2

(* The other blocks are what they were.                                     *)
LEMMA AllocateShows ==
  ASSUME NEW objects,
         WellFormed(pageCacheMem, pageCacheDisk, objects), MapOK(pageMap, objects),
         SwapOK(swap), Fits(pageMap, objects), FreeOK, keepInMemory \in BOOLEAN,
         freePages \in Seq(Numbers), pageCount \in Nat,
         AllocateBlock(objects), keepInMemory' = keepInMemory
  PROVE  /\ DOMAIN pageMap' = DOMAIN pageMap \cup {NextNumber}
         /\ \A nr : nr = NextNumber => Successor(nr)' = 0
         /\ \A nr \in DOMAIN pageMap :
              /\ Successor(nr)' = objects[pageMap[nr]].next
              /\ SwapServes => StoredPiece(nr)' = PieceIn(objects[pageMap[nr]])
         /\ Len(heap') = Len(objects) + 1
         /\ NumbersOK'
<1> DEFINE new == Len(objects) + 1
           e == [nr |-> NextNumber, next |-> 0, data |-> Garbage]
           more == Append(objects, e)
           map == Put(pageMap, NextNumber, new)
           mem == Append(pageCacheMem, new)
<1>1. /\ objects \in Seq(Block) /\ DOMAIN objects = 1..Len(objects) /\ Len(objects) \in Nat
      /\ DOMAIN pageMap \subseteq Nat
      /\ \A nr \in DOMAIN pageMap : pageMap[nr] \in DOMAIN objects
  BY LenProperties DEF WellFormed, MapOK, Numbers
<1>2. NextNumber \in Nat /\ NextNumber \notin DOMAIN pageMap
  BY <1>1, NewNumber
<1>3. e \in Block /\ e.data \notin {NoData, Freed} /\ e.nr = NextNumber /\ e.next = 0
  BY <1>2 DEF Block, Numbers, Datum, Garbage, NoData, Freed, Piece
<1>4. WellFormed(mem, pageCacheDisk, more) /\ DOMAIN more = DOMAIN objects \cup {new}
  BY <1>3, NewObjectLemma
<1>5. /\ more[new] = e /\ \A b \in DOMAIN objects : more[b] = objects[b]
      /\ Len(more) = Len(objects) + 1
      /\ new \notin DOMAIN objects
  BY <1>1, <1>3, AppendProperties
<1>6. CleanupMemCache(mem, pageCacheDisk, more, map)
  BY DEF AllocateBlock, PushFront
<1>7. /\ DOMAIN map = DOMAIN pageMap \cup {NextNumber} /\ map[NextNumber] = new
      /\ \A nr \in DOMAIN pageMap : map[nr] = pageMap[nr]
  BY <1>2 DEF Put
<1> HIDE DEF new, e, more, map, mem
<1>8. MapOK(map, more)
  BY <1>1, <1>2, <1>4, <1>7 DEF MapOK, Numbers
<1>9. Fits(map, more)
  BY <1>1, <1>3, <1>4, <1>5, <1>7 DEF Fits
<1>10. Shows(map, more) /\ (keepInMemory => pageCacheDisk' = pageCacheDisk)
  BY <1>4, <1>6, <1>8, <1>9, CleanupShows
<1>11. DOMAIN pageMap' = DOMAIN pageMap \cup {NextNumber}
  BY <1>7, <1>10 DEF Shows
<1>12. \A nr : nr = NextNumber => Successor(nr)' = 0
  <2>1. pageMap'[NextNumber] = new
    BY <1>7, <1>10 DEF Shows
  <2>2. heap'[new].next = 0
    BY <1>3, <1>4, <1>5, <1>10 DEF Shows
  <2> QED
    BY <2>1, <2>2 DEF Successor
<1>13. ASSUME NEW nr \in DOMAIN pageMap
       PROVE  /\ Successor(nr)' = objects[pageMap[nr]].next
              /\ SwapServes => StoredPiece(nr)' = PieceIn(objects[pageMap[nr]])
  <2>1. /\ map[nr] = pageMap[nr] /\ nr \in DOMAIN map
        /\ pageMap[nr] \in DOMAIN objects /\ more[pageMap[nr]] = objects[pageMap[nr]]
    BY <1>1, <1>5, <1>7
  <2>2. pageMap'[nr] = pageMap[nr]
    BY <1>10, <2>1 DEF Shows
  <2>3. heap'[pageMap[nr]].next = objects[pageMap[nr]].next
    BY <1>4, <1>10, <2>1 DEF Shows
  <2>4. SwapServes => StoredPiece(nr)' = PieceIn(objects[pageMap[nr]])
    BY <1>10, <2>1 DEF Shows
  <2> QED
    BY <2>2, <2>3, <2>4 DEF Successor
<1>14. Fits(pageMap, heap)'
  <2>1. \A nr \in DOMAIN pageMap' : heap'[pageMap'[nr]].nr = nr
    BY <1>8, <1>9, <1>10 DEF Shows, Fits, MapOK
  <2>2. ASSUME ~keepInMemory, NEW b \in DOMAIN heap'
        PROVE  heap'[b].nr \in DOMAIN pageMap' /\ pageMap'[heap'[b].nr] = b
    BY <1>9, <1>10, <2>2 DEF Shows, Fits
  <2> QED
    BY <2>1, <2>2 DEF Fits
<1>15. FreeOK'
  BY <1>1, <1>10, <1>11, NewNumber DEF FreeOK
<1> QED
  BY <1>5, <1>10, <1>11, <1>12, <1>13, <1>14, <1>15 DEF NumbersOK, Shows

-----------------------------------------------------------------------------
(* The inductive invariant: the chains, and what each operation has done.   *)
StoreInv ==
  /\ ClientsOK
  /\ NumbersOK
  /\ op.kind # "closed" => \E own, idx \in [Nat -> Nat] : Labelled(own, idx)

(* A block behind whose number nothing has changed.                         *)
Untouched(nr) ==
  /\ nr \in DOMAIN pageMap' /\ Successor(nr)' = Successor(nr)
  /\ SwapServes => StoredPiece(nr)' = StoredPiece(nr)

(* A link to a block that still is where it was stays a link.               *)
LEMMA LinkStays ==
  ASSUME NEW own, NEW idx, NEW own2, NEW idx2, NEW nr,
         Linked(own, idx, nr), Untouched(nr), own2[nr] = own[nr], idx2[nr] = idx[nr],
         \A next \in OwnedBy(own, own[nr]) : next = Successor(nr) =>
           next \in OwnedBy(own2, own[nr])' /\ idx2[next] = idx[next]
  PROVE  Linked(own2, idx2, nr)'
<1>1. PICK next : next = Successor(nr)
  OBVIOUS
<1>2. Successor(nr)' = next /\ next # 0 /\ next \in OwnedBy(own, own[nr])
      /\ idx[next] = idx[nr] + 1
  BY <1>1 DEF Linked, Untouched
<1>3. next \in OwnedBy(own2, own2[nr])' /\ idx2[next] = idx2[nr] + 1
  BY <1>1, <1>2
<1> QED
  BY <1>2, <1>3 DEF Linked

(* So does what is stored in it.                                            *)
LEMMA FilledStays ==
  ASSUME NEW own, NEW idx, NEW own2, NEW idx2, NEW nr, NEW size,
         Filled(own, idx, nr, size), Untouched(nr), own2[nr] = own[nr], idx2[nr] = idx[nr],
         keepInMemory' = keepInMemory
  PROVE  Filled(own2, idx2, nr, size)'
<1>1. SwapServes' <=> SwapServes
  BY DEF SwapServes
<1>2. PiecesOf(size)' = PiecesOf(size) /\ Piece(own2[nr], idx2[nr])' = Piece(own[nr], idx[nr])
  BY DEF PiecesOf, Piece
<1> QED
  BY <1>1, <1>2 DEF Filled, Untouched

(* An image no block of which is touched stays complete.                    *)
LEMMA CompleteStays ==
  ASSUME NEW own, NEW idx, NEW own2, NEW idx2, NEW w,
         Complete(own, idx, w), files'[w] = files[w], files[w].size \in Nat,
         Len(heap) \in Nat, Len(heap') \in Nat, Len(heap) <= Len(heap'),
         keepInMemory' = keepInMemory, OwnedBy(own2, w)' = OwnedBy(own, w),
         \A nr \in OwnedBy(own, w) : Untouched(nr) /\ idx2[nr] = idx[nr]
  PROVE  Complete(own2, idx2, w)'
<1> DEFINE last == BlocksRequired(files[w].size)
<1>1. last \in Nat /\ BlocksRequired(files[w].size)' = last
  BY Lengths DEF BlocksRequired
<1>2. files'[w].size = files[w].size /\ files'[w].ref = files[w].ref
  OBVIOUS
<1>3. /\ files'[w].size \in Sizes /\ last <= Len(heap')
      /\ files'[w].ref \in OwnedBy(own2, w)' /\ idx2[files'[w].ref] = 1
  BY <1>1, <1>2 DEF Complete
<1>4. ASSUME NEW nr \in OwnedBy(own2, w)'
      PROVE  /\ idx2[nr] \in 1..last
             /\ IF idx2[nr] = last THEN Successor(nr)' = 0 ELSE Linked(own2, idx2, nr)'
             /\ Filled(own2, idx2, nr, files[w].size)'
  <2>1. nr \in OwnedBy(own, w) /\ own[nr] = w /\ own2[nr] = w /\ idx2[nr] = idx[nr]
        /\ Untouched(nr)
    BY <1>4 DEF OwnedBy
  <2>2. /\ idx[nr] \in 1..last
        /\ IF idx[nr] = last THEN Successor(nr) = 0 ELSE Linked(own, idx, nr)
        /\ Filled(own, idx, nr, files[w].size)
    BY <2>1 DEF Complete
  <2>3. PICK size : size = files[w].size
    OBVIOUS
  <2>4. Filled(own2, idx2, nr, size)'
    BY <2>1, <2>2, <2>3, FilledStays
  <2>5. Filled(own2, idx2, nr, files[w].size)'
    BY <1>2, <2>3, <2>4 DEF Filled
  <2>6. idx[nr] # last => Linked(own2, idx2, nr)'
    BY <2>1, <2>2, LinkStays
  <2> QED
    BY <2>1, <2>2, <2>5, <2>6 DEF Untouched
<1> QED
  BY <1>1, <1>3, <1>4 DEF Complete

-----------------------------------------------------------------------------
(* lockBlock: the block that comes back holds what its slot held.           *)
LEMMA LockShows ==
  ASSUME IInv, NumbersOK, LockBlock
  PROVE  /\ DOMAIN pageMap' = DOMAIN pageMap
         /\ op.nr \in DOMAIN pageMap /\ currentBlock' = pageMap'[op.nr]
         /\ \A nr \in DOMAIN pageMap : Untouched(nr)
         /\ Len(heap') = Len(heap) /\ Len(heap) \in Nat
         /\ NumbersOK'
<1>1. /\ CacheOK /\ RestOK
      /\ op.nr \in DOMAIN pageMap /\ op.nr \in Numbers
      /\ currentBlock' = pageMap[op.nr]
      /\ UNCHANGED <<numberVars, keepInMemory, op, clientVars>>
  BY OpenInvariant DEF LockBlock, CacheOK, MapOK
<1>2. /\ \A nr \in DOMAIN pageMap : pageMap[nr] \in DOMAIN heap /\ heap[pageMap[nr]].nr = nr
      /\ Len(heap) \in Nat /\ heap \in Seq(Block) /\ DOMAIN heap = 1..Len(heap)
      /\ Fits(pageMap, heap)
  BY <1>1, LenProperties DEF CacheOK, MapOK, WellFormed, NumbersOK, Fits
<1> DEFINE block == pageMap[op.nr]
<1>3. block \in DOMAIN heap /\ heap[block] \in Block /\ heap[block].nr = op.nr
  BY <1>1, <1>2, ElementOfSeq
<1>4. CASE heap[block].data = NoData
  <2> DEFINE mem == Append(pageCacheMem, block)
             disk == pageCacheDisk \ {block}
             r == [heap[block] EXCEPT !.data = SwapIn(heap[block].nr)]
             loaded == [heap EXCEPT ![block].data = SwapIn(heap[block].nr)]
             map == Put(pageMap, op.nr, block)
  <2>1. CleanupMemCache(mem, disk, loaded, map)
    BY <1>4 DEF LockBlock, PushFront
  <2>2. SwapIn(heap[block].nr) \in Datum \ {NoData, Freed}
    BY <1>1 DEF SwapIn, CacheOK, SwapOK, Garbage, NoData, Freed, Piece, Datum
  <2>3. WellFormed(mem, disk, loaded) /\ DOMAIN loaded = DOMAIN heap
    <3> HIDE DEF block
    <3> QED
      BY <1>1, <1>3, <1>4, <2>2, ReloadLemma DEF CacheOK
  <2>4. /\ r.nr = heap[block].nr /\ r.next = heap[block].next /\ r.data = SwapIn(heap[block].nr)
        /\ r \in Block
    BY <1>3, <2>2 DEF Block
  <2>5. /\ loaded[block] = r /\ Len(loaded) = Len(heap)
        /\ \A b \in DOMAIN heap \ {block} : loaded[b] = heap[b]
    <3>1. loaded = [heap EXCEPT ![block] = r]
      OBVIOUS
    <3> HIDE DEF block, r, loaded
    <3> QED
      BY <1>2, <1>3, <2>4, <3>1, UpdateProperties
  <2>6. DOMAIN map = DOMAIN pageMap /\ \A nr \in DOMAIN pageMap : map[nr] = pageMap[nr]
    BY <1>1 DEF Put
  <2> HIDE DEF mem, disk, r, loaded, map
  <2>7. MapOK(map, loaded)
    BY <1>1, <2>3, <2>6 DEF CacheOK, MapOK
  <2>8. Fits(map, loaded)
    <3>1. \A b \in DOMAIN heap : loaded[b].nr = heap[b].nr
      BY <2>4, <2>5
    <3> HIDE DEF block
    <3>2. \A nr \in DOMAIN map : loaded[map[nr]].nr = nr
      BY <1>2, <2>6, <3>1
    <3> QED
      BY <1>2, <2>3, <2>6, <3>1, <3>2 DEF Fits
  <2>9. Shows(map, loaded) /\ (keepInMemory => pageCacheDisk' = disk)
    BY <1>1, <2>1, <2>3, <2>7, <2>8, CleanupShows DEF CacheOK, RestOK
  <2>10. ASSUME NEW nr \in DOMAIN pageMap PROVE Untouched(nr) /\ pageMap'[nr] = pageMap[nr]
    <3>1. pageMap'[nr] = pageMap[nr] /\ nr \in DOMAIN pageMap' /\ pageMap[nr] \in DOMAIN heap
      BY <1>2, <2>6, <2>9 DEF Shows
    <3>2. heap'[pageMap[nr]].next = loaded[pageMap[nr]].next
      BY <2>3, <2>9, <3>1 DEF Shows
    <3>3. loaded[pageMap[nr]].next = heap[pageMap[nr]].next
      BY <2>4, <2>5, <3>1
    <3>4. SwapServes => StoredPiece(nr)' = PieceIn(loaded[pageMap[nr]])
      BY <2>6, <2>9 DEF Shows
    <3>5. PieceIn(loaded[pageMap[nr]]) = StoredPiece(nr)
      <4>1. CASE pageMap[nr] = block
        BY <1>2, <1>4, <2>2, <2>4, <2>5, <3>1, <4>1 DEF PieceIn, StoredPiece
      <4>2. CASE pageMap[nr] # block
        BY <1>2, <2>5, <3>1, <4>2 DEF PieceIn, StoredPiece
      <4> QED
        BY <4>1, <4>2
    <3> QED
      BY <3>1, <3>2, <3>3, <3>4, <3>5 DEF Untouched, Successor
  <2>11. Fits(pageMap, heap)'
    <3>1. \A nr \in DOMAIN pageMap' : heap'[pageMap'[nr]].nr = nr
      BY <2>7, <2>8, <2>9 DEF Shows, Fits, MapOK
    <3>2. ASSUME ~keepInMemory, NEW b \in DOMAIN heap'
          PROVE  heap'[b].nr \in DOMAIN pageMap' /\ pageMap'[heap'[b].nr] = b
      BY <2>8, <2>9, <3>2 DEF Shows, Fits
    <3> QED
      BY <1>1, <3>1, <3>2 DEF Fits
  <2>12. FreeOK'
    BY <1>1, <2>6, <2>9 DEF FreeOK, NumbersOK, Shows, numberVars, disk
  <2> QED
    BY <1>1, <1>2, <2>5, <2>6, <2>9, <2>10, <2>11, <2>12 DEF NumbersOK, Shows
<1>5. CASE heap[block].data # NoData
  <2>1. CleanupMemCache(pageCacheMem, pageCacheDisk, heap, pageMap)
    BY <1>5 DEF LockBlock
  <2>2. UNCHANGED cacheVars
    <3>1. Len(pageCacheMem) \in Nat
      BY <1>1, LenProperties DEF CacheOK, WellFormed
    <3> QED
      BY <1>1, <2>1, <3>1, CacheSizeAssumption
         DEF CleanupMemCache, TooLarge, CacheOK, Bounded, cacheVars
  <2>3. NumbersOK'
    BY <1>1, <2>2 DEF NumbersOK, Fits, FreeOK, numberVars, cacheVars
  <2> QED
    BY <1>1, <1>2, <2>2, <2>3 DEF Untouched, Successor, StoredPiece, SwapIn, cacheVars
<1> QED
  BY <1>4, <1>5

(* So lockBlock changes no image, and no operation's progress.              *)
LEMMA LockKeeps ==
  ASSUME IInv, StoreInv, LockBlock
  PROVE  StoreInv'
<1>1. /\ CacheOK /\ RestOK /\ ClientsOK /\ NumbersOK /\ op.kind \in {"write", "read", "delete"}
      /\ UNCHANGED <<numberVars, keepInMemory, op, clientVars>>
  BY OpenInvariant DEF LockBlock, StoreInv
<1>2. /\ DOMAIN pageMap' = DOMAIN pageMap
      /\ op.nr \in DOMAIN pageMap /\ currentBlock' = pageMap'[op.nr]
      /\ \A nr \in DOMAIN pageMap : Untouched(nr)
      /\ Len(heap') = Len(heap) /\ Len(heap) \in Nat
      /\ NumbersOK'
  BY <1>1, LockShows
<1>3. ClientsOK'
  BY <1>1, <1>2 DEF ClientsOK, numberVars, clientVars
<1>4. PICK own \in [Nat -> Nat], idx \in [Nat -> Nat] : Labelled(own, idx)
  BY <1>1 DEF StoreInv
<1>5. \A w : OwnedBy(own, w)' = OwnedBy(own, w)
  BY <1>2 DEF OwnedBy
<1>6. \A w, nr : nr \in OwnedBy(own, w) => own[nr] = w /\ Untouched(nr)
  BY <1>2 DEF OwnedBy
<1>7. ASSUME NEW w \in DOMAIN files' PROVE Complete(own, idx, w)'
  <2>1. w \in DOMAIN files /\ files'[w] = files[w] /\ files[w].size \in Nat
    BY <1>1, <1>7 DEF RestOK, clientVars
  <2>2. Complete(own, idx, w)
    BY <1>4, <2>1 DEF Labelled
  <2>3. OwnedBy(own, w)' = OwnedBy(own, w) /\ \A nr \in OwnedBy(own, w) : Untouched(nr)
    BY <1>5, <1>6
  <2>4. /\ Len(heap) \in Nat /\ Len(heap') \in Nat /\ Len(heap) <= Len(heap')
        /\ keepInMemory' = keepInMemory
        /\ \A nr \in OwnedBy(own, w) : Untouched(nr) /\ idx[nr] = idx[nr]
    BY <1>1, <1>2, <2>3
  <2> QED
    BY <2>1, <2>2, <2>3, <2>4, CompleteStays
<1>8. ASSUME NEW nr \in DOMAIN pageMap, Linked(own, idx, nr) PROVE Linked(own, idx, nr)'
  BY <1>2, <1>5, <1>8, LinkStays
<1>9. ASSUME NEW nr \in DOMAIN pageMap, NEW size, Filled(own, idx, nr, size)
      PROVE  Filled(own, idx, nr, size)'
  BY <1>1, <1>2, <1>9, FilledStays
<1>10. CASE op.kind = "write"
  <2>1. Growing(own, idx)
    BY <1>4, <1>10 DEF Labelled
  <2>2. PICK n, w, size, count : n = op.nr /\ w = op.w /\ size = op.size /\ count = op.count
    OBVIOUS
  <2>3. op'.nr = n /\ op'.w = w /\ op'.size = size /\ op'.count = count /\ op'.head = op.head
    BY <1>1, <2>2
  <2>4. ASSUME NEW nr \in OwnedBy(own, w)' \ {n}
        PROVE  idx[nr] \in 1..count /\ Linked(own, idx, nr)' /\ Filled(own, idx, nr, size)'
    <3>1. nr \in OwnedBy(own, w) \ {n} /\ nr \in DOMAIN pageMap
      BY <1>5, <2>4 DEF OwnedBy
    <3>2. idx[nr] \in 1..count /\ Linked(own, idx, nr) /\ Filled(own, idx, nr, size)
      BY <2>1, <2>2, <3>1 DEF Growing
    <3> QED
      BY <1>8, <1>9, <3>1, <3>2
  <2>5. Successor(n)' = 0
    BY <1>2, <2>1, <2>2 DEF Growing, Untouched
  <2>6. /\ w = writes' /\ w \notin DOMAIN files' /\ size \in Sizes
        /\ count + 1 <= BlocksRequired(size)' /\ count + 1 <= Len(heap')
        /\ op'.head \in OwnedBy(own, w)' /\ idx[op'.head] = 1
        /\ n \in OwnedBy(own, w)' /\ idx[n] = count + 1
    BY <1>1, <1>2, <1>5, <2>1, <2>2, <2>3 DEF Growing, clientVars, BlocksRequired
  <2>7. Growing(own, idx)'
    BY <2>3, <2>4, <2>5, <2>6 DEF Growing, Filled, BlocksRequired, PiecesOf, Successor
  <2> QED
    BY <1>1, <1>2, <1>3, <1>4, <1>5, <1>7, <1>10, <2>7 DEF StoreInv, Labelled, clientVars
<1>11. CASE op.kind = "read"
  <2>1. Fetched(own, idx)
    BY <1>4, <1>11 DEF Labelled
  <2>2. Fetched(own, idx)'
    BY <1>1, <1>5, <2>1 DEF Fetched, clientVars, PiecesOf, SwapServes, Piece, OwnedBy
  <2> QED
    BY <1>1, <1>2, <1>3, <1>4, <1>5, <1>7, <1>11, <2>2 DEF StoreInv, Labelled, clientVars
<1>12. CASE op.kind = "delete"
  <2>1. Shrinking(own, idx)
    BY <1>4, <1>12 DEF Labelled
  <2>2. PICK n, w : n = op.nr /\ w = op.w
    OBVIOUS
  <2>3. op'.nr = n /\ op'.w = w
    BY <1>1, <2>2
  <2>4. ASSUME NEW nr \in OwnedBy(own, w)', idx[nr] >= idx[n], Successor(nr)' # 0
        PROVE  Linked(own, idx, nr)'
    <3>1. nr \in OwnedBy(own, w) /\ nr \in DOMAIN pageMap
      BY <1>5, <2>4 DEF OwnedBy
    <3>2. Linked(own, idx, nr)
      BY <1>2, <2>1, <2>2, <2>4, <3>1 DEF Shrinking, Untouched
    <3> QED
      BY <1>8, <3>1, <3>2
  <2>5. keepInMemory' /\ w # 1 /\ w \notin DOMAIN files' /\ n \in OwnedBy(own, w)'
    BY <1>1, <1>5, <2>1, <2>2 DEF Shrinking, clientVars
  <2>6. Shrinking(own, idx)'
    BY <2>3, <2>4, <2>5 DEF Shrinking
  <2> QED
    BY <1>1, <1>2, <1>3, <1>4, <1>5, <1>7, <1>12, <2>6 DEF StoreInv, Labelled, clientVars
<1> QED
  BY <1>1, <1>10, <1>11, <1>12

-----------------------------------------------------------------------------
(* In the beginning there is nothing to be wrong.                           *)
LEMMA InitStore ==
  ASSUME Init PROVE StoreInv
<1>1. /\ DOMAIN heap = {} /\ DOMAIN pageMap = {} /\ DOMAIN freePages = {} /\ DOMAIN files = {}
      /\ writes = 0 /\ pageCount = 0 /\ currentBlock = NoBlock /\ keepInMemory \in KeepModes
      /\ freePages = << >> /\ pageCacheDisk = {} /\ MaxWrites \in Nat
      /\ op.kind = "idle"
  BY EmptySeq, ClientAssumption DEF Init, Idle
<1>2. ClientsOK
  BY <1>1 DEF ClientsOK
<1>3. NumbersOK
  BY <1>1 DEF NumbersOK, Fits, FreeOK
<1>4. PICK zero \in [Nat -> Nat] : zero = [n \in Nat |-> 0]
  OBVIOUS
<1>5. Labelled(zero, zero)
  BY <1>1 DEF Labelled
<1> QED
  BY <1>2, <1>3, <1>4, <1>5 DEF StoreInv

(* A step that leaves the cache alone leaves every image alone.             *)
LEMMA QuietStep ==
  ASSUME NumbersOK, UNCHANGED <<cacheVars, numberVars, keepInMemory>>
  PROVE  /\ NumbersOK'
         /\ \A own, idx, w : OwnedBy(own, w)' = OwnedBy(own, w)
         /\ \A own, idx, w : Complete(own, idx, w) /\ files'[w] = files[w]
                               => Complete(own, idx, w)'
<1>1. NumbersOK'
  BY DEF NumbersOK, Fits, FreeOK, cacheVars, numberVars
<1>2. ASSUME NEW own, NEW idx, NEW w
      PROVE  /\ OwnedBy(own, w)' = OwnedBy(own, w)
             /\ Complete(own, idx, w) /\ files'[w] = files[w] => Complete(own, idx, w)'
  BY DEF cacheVars, Complete, OwnedBy, Linked, Filled, Successor, StoredPiece, SwapIn, SwapServes
<1> QED
  BY <1>1, <1>2

(* writeFile begins the chain of a new image.                               *)
LEMMA BeginWriteKeeps ==
  ASSUME IInv, StoreInv, Careful, NEW size \in Sizes, BeginWrite(size)
  PROVE  StoreInv'
<1> DEFINE begun == [Idle EXCEPT !.kind = "write", !.w = writes', !.size = size,
                                 !.nr = NextNumber, !.head = NextNumber]
<1>0. /\ CacheOK /\ RestOK /\ ClientsOK /\ NumbersOK
      /\ op.kind = "idle" /\ size # 0 /\ size \in Nat
      /\ AllocateBlock(heap) /\ op' = begun
  BY OpenInvariant, ClientAssumption DEF BeginWrite, StoreInv, Careful
<1>1. /\ RestOK /\ ClientsOK /\ size \in Nat /\ currentBlock' = NoBlock
      /\ writes \in Nat /\ writes < MaxWrites /\ writes' = writes + 1
      /\ keepInMemory' = keepInMemory /\ files' = files
  BY <1>0 DEF BeginWrite, RestOK
<1>2. PICK n, new : n = NextNumber /\ new = writes + 1
  OBVIOUS
<1> HIDE DEF begun
<1>20. /\ new \in Nat \ {0} /\ writes' = new /\ new \notin 1..writes
       /\ new \in 1..new /\ \A w \in 1..writes : w \in 1..new
       /\ writes = 0 => new = 1
       /\ writes # 0 => writes > 0 /\ 1 \in 1..writes
       /\ new > 0 /\ new <= MaxWrites
  BY <1>1, <1>2, ClientAssumption
<1>21. /\ DOMAIN files \subseteq 1..writes /\ (pageCount = 0 <=> writes = 0)
       /\ keepInMemory \in KeepModes
  BY <1>1 DEF ClientsOK
<1>3. /\ op'.kind = "write" /\ op'.w = new /\ op'.size = size /\ op'.nr = n
      /\ op'.head = n /\ op'.count = 0
  BY <1>0, <1>2, <1>20 DEF Idle, begun
<1>4. /\ n \in Nat /\ n \notin DOMAIN pageMap /\ pageCount' \in Nat \ {0}
      /\ n = 0 <=> pageCount = 0
  BY <1>0, <1>2, NewNumber DEF RestOK, CacheOK, MapOK, Numbers, NumbersOK
<1>5. /\ DOMAIN pageMap' = DOMAIN pageMap \cup {n}
      /\ Successor(n)' = 0
      /\ \A nr \in DOMAIN pageMap :
           /\ Successor(nr)' = heap[pageMap[nr]].next
           /\ SwapServes => StoredPiece(nr)' = PieceIn(heap[pageMap[nr]])
      /\ Len(heap') = Len(heap) + 1
      /\ NumbersOK'
  BY <1>0, <1>1, <1>2, AllocateShows DEF RestOK, CacheOK, NumbersOK
<1>6. \A nr \in DOMAIN pageMap : Untouched(nr)
  BY <1>5 DEF Untouched, Successor, StoredPiece, PieceIn
<1>7. Len(heap) \in Nat /\ Len(heap') \in Nat /\ Len(heap) <= Len(heap') /\ 1 <= Len(heap')
  BY <1>0, <1>5, LenProperties DEF CacheOK, WellFormed
<1>8. PICK own \in [Nat -> Nat], idx \in [Nat -> Nat] : Labelled(own, idx)
  BY <1>0 DEF StoreInv
<1>9. PICK own2 \in [Nat -> Nat] : own2[n] = new /\ \A m \in Nat \ {n} : own2[m] = own[m]
  <2>1. [own EXCEPT ![n] = new] \in [Nat -> Nat]
    BY <1>4, <1>20
  <2> QED
    BY <1>4, <2>1
<1>10. PICK idx2 \in [Nat -> Nat] : idx2[n] = 1 /\ \A m \in Nat \ {n} : idx2[m] = idx[m]
  <2>1. [idx EXCEPT ![n] = 1] \in [Nat -> Nat]
    BY <1>4
  <2> QED
    BY <1>4, <2>1
<1>11. /\ \A nr \in DOMAIN pageMap : nr \in Nat \ {n} /\ own[nr] \in 1..writes
       /\ \A nr \in DOMAIN pageMap : own2[nr] = own[nr] /\ idx2[nr] = idx[nr]
  BY <1>0, <1>4, <1>8, <1>9, <1>10 DEF Labelled, CacheOK, MapOK, Numbers
<1>12. /\ \A w \in 1..writes : OwnedBy(own2, w)' = OwnedBy(own, w)
       /\ OwnedBy(own2, new)' = {n}
  <2>1. DOMAIN pageMap' = DOMAIN pageMap \cup {n}
    BY <1>5
  <2>2. \A w : OwnedBy(own2, w)' = {nr \in DOMAIN pageMap \cup {n} : own2[nr] = w}
    BY <2>1 DEF OwnedBy
  <2>3. ASSUME NEW w \in 1..writes PROVE OwnedBy(own2, w)' = OwnedBy(own, w)
    <3>1. own2[n] # w
      BY <1>9, <1>20
    <3>2. {nr \in DOMAIN pageMap \cup {n} : own2[nr] = w} = {nr \in DOMAIN pageMap : own[nr] = w}
      BY <1>11, <3>1
    <3> QED
      BY <2>2, <3>2 DEF OwnedBy
  <2>4. \A nr \in DOMAIN pageMap : own2[nr] # new
    BY <1>11, <1>20
  <2> QED
    BY <1>9, <2>2, <2>3, <2>4
<1>13. ASSUME NEW w \in DOMAIN files' PROVE Complete(own2, idx2, w)'
  <2>1. w \in DOMAIN files /\ files'[w] = files[w] /\ files[w].size \in Nat /\ w \in 1..writes
    BY <1>1, <1>13, <1>21 DEF RestOK
  <2>2. Complete(own, idx, w)
    BY <1>8, <2>1 DEF Labelled
  <2>3. /\ OwnedBy(own2, w)' = OwnedBy(own, w)
        /\ \A nr \in OwnedBy(own, w) : Untouched(nr) /\ idx2[nr] = idx[nr]
    BY <1>6, <1>11, <1>12, <2>1 DEF OwnedBy
  <2> QED
    BY <1>1, <1>7, <2>1, <2>2, <2>3, CompleteStays
<1>14. Growing(own2, idx2)'
  <2>1. 0 + 1 <= BlocksRequired(size)
    BY <1>1, Lengths
  <2>2. new \notin DOMAIN files'
    BY <1>1, <1>20, <1>21
  <2> QED
    BY <1>3, <1>5, <1>7, <1>10, <1>12, <1>20, <2>1, <2>2 DEF Growing, BlocksRequired
<1>15. \A nr \in DOMAIN pageMap' : own2[nr] \in 1..writes'
  BY <1>5, <1>9, <1>11, <1>20
<1>16. 0 \in OwnedBy(own2, 1)'
  <2>1. CASE writes = 0
    BY <1>4, <1>12, <1>20, <1>21, <2>1
  <2>2. CASE writes # 0
    BY <1>8, <1>12, <1>20, <2>2 DEF Labelled
  <2> QED
    BY <2>1, <2>2
<1>17. Labelled(own2, idx2)'
  BY <1>3, <1>13, <1>14, <1>15, <1>16 DEF Labelled
<1>18. ClientsOK'
  BY <1>1, <1>3, <1>4, <1>20, <1>21 DEF ClientsOK, NoBlock
<1> QED
  BY <1>3, <1>5, <1>17, <1>18 DEF StoreInv
-----------------------------------------------------------------------------
Fills(filled, more) ==
  filled = [heap EXCEPT ![currentBlock] =
             [nr   |-> @.nr,
              next |-> Link(more),
              data |-> IF CopyLength(op.count * BlockSize, op.size) > 0
                         THEN Piece(op.w, op.count + 1) ELSE @.data]]
(* The block that writeFile has filled and linked, before anything else is  *)
(* done with it.                                                            *)
LEMMA FillShows ==
  ASSUME IInv, StoreInv, WriteBlock, NEW more, NEW filled, Fills(filled, more)
  PROVE  /\ WellFormed(pageCacheMem, pageCacheDisk, filled)
         /\ DOMAIN filled = DOMAIN heap /\ Len(filled) = Len(heap)
         /\ Fits(pageMap, filled) /\ MapOK(pageMap, filled)
         /\ op.nr \in DOMAIN pageMap
         /\ \A nr \in DOMAIN pageMap \ {op.nr} : filled[pageMap[nr]] = heap[pageMap[nr]]
         /\ filled[pageMap[op.nr]].next = Link(more)
         /\ filled[pageMap[op.nr]].data # NoData
         /\ op.count + 1 <= PiecesOf(op.size)
              => filled[pageMap[op.nr]].data = Piece(op.w, op.count + 1)
<1> DEFINE length == CopyLength(op.count * BlockSize, op.size)
           r == [nr   |-> heap[currentBlock].nr,
                 next |-> Link(more),
                 data |-> IF length > 0 THEN Piece(op.w, op.count + 1)
                                        ELSE heap[currentBlock].data]
<1>1. /\ CacheOK /\ RestOK /\ ClientsOK /\ NumbersOK
      /\ op.kind = "write" /\ op.w # 0
      /\ currentBlock # NoBlock /\ currentBlock \in DOMAIN heap
      /\ op.nr \in DOMAIN pageMap /\ currentBlock = pageMap[op.nr]
  BY OpenInvariant DEF WriteBlock, RestOK, StoreInv, ClientsOK
<1>2. op.w \in Nat /\ op.size \in Nat /\ op.count \in Nat
  BY <1>1 DEF RestOK, Operation, Numbers
<1>3. heap \in Seq(Block) /\ heap[currentBlock] \in Block
      /\ heap[currentBlock].data \notin {NoData, Freed}
  <2>1. heap \in Seq(Block) /\ heap[currentBlock] \in Block
    BY <1>1, ElementOfSeq, LenProperties DEF CacheOK, WellFormed
  <2>2. Listed(currentBlock, pageCacheMem)
    BY <1>1 DEF RestOK, LockedResident
  <2> QED
    BY <1>1, <2>1, <2>2 DEF CacheOK, WellFormed, Partition
<1>4. Link(more) \in Nat
  BY <1>1, HeadTailProperties DEF Link, RestOK, NextNumber, Numbers
<1>5. /\ r \in Block /\ r.data \notin {NoData, Freed} /\ r.nr = heap[currentBlock].nr
      /\ r.next = Link(more) /\ (length > 0 => r.data = Piece(op.w, op.count + 1))
  <2>1. Piece(op.w, op.count + 1) \in Datum \ {NoData, Freed}
    BY <1>1, <1>2 DEF Piece, NoData, Freed, Datum
  <2> HIDE DEF length
  <2> QED
    BY <1>3, <1>4, <2>1 DEF Block, Numbers
<1>6. op.count + 1 <= PiecesOf(op.size) => length > 0
  BY <1>2, Lengths
<1>7. filled = [heap EXCEPT ![currentBlock] = r]
  BY DEF Fills
<1> HIDE DEF length, r
<1>8. WellFormed(pageCacheMem, pageCacheDisk, filled)
  BY <1>1, <1>3, <1>5, <1>7, FillLemma DEF CacheOK
<1>9. /\ DOMAIN filled = DOMAIN heap /\ Len(filled) = Len(heap)
      /\ filled[currentBlock] = r
      /\ \A b \in DOMAIN heap \ {currentBlock} : filled[b] = heap[b]
  BY <1>1, <1>3, <1>5, <1>7, UpdateProperties
<1>10. \A nr \in DOMAIN pageMap : pageMap[nr] \in DOMAIN heap /\ heap[pageMap[nr]].nr = nr
  BY <1>1 DEF CacheOK, MapOK, NumbersOK, Fits
<1>11. \A b \in DOMAIN heap : filled[b].nr = heap[b].nr
  BY <1>5, <1>9
<1>12. MapOK(pageMap, filled) /\ Fits(pageMap, filled)
  BY <1>1, <1>9, <1>10, <1>11 DEF CacheOK, MapOK, NumbersOK, Fits
<1>13. \A nr \in DOMAIN pageMap \ {op.nr} : filled[pageMap[nr]] = heap[pageMap[nr]]
  BY <1>1, <1>9, <1>10
<1> QED
  BY <1>1, <1>5, <1>6, <1>8, <1>9, <1>12, <1>13

(* What writeFile has when its block is locked.                             *)
LEMMA WriteFacts ==
  ASSUME IInv, StoreInv, WriteBlock
  PROVE  /\ CacheOK /\ RestOK /\ ClientsOK /\ NumbersOK
         /\ op.kind = "write" /\ currentBlock' = NoBlock
         /\ op.w \in Nat \ {0} /\ op.w = writes /\ op.w \notin DOMAIN files
         /\ op.size \in Nat /\ op.count \in Nat /\ op.nr \in DOMAIN pageMap
         /\ op.size \in Sizes /\ pageCount # 0
         /\ keepInMemory' = keepInMemory /\ writes' = writes
         /\ Len(heap) \in Nat /\ DOMAIN pageMap \subseteq Nat
         /\ \E own, idx \in [Nat -> Nat] : Labelled(own, idx) /\ Growing(own, idx)
<1>1. /\ CacheOK /\ RestOK /\ ClientsOK /\ NumbersOK
      /\ op.kind = "write" /\ currentBlock # NoBlock /\ currentBlock' = NoBlock
      /\ keepInMemory' = keepInMemory /\ writes' = writes
  BY OpenInvariant DEF WriteBlock, RestOK, StoreInv
<1>2. op.w \in Nat \ {0} /\ op.size \in Nat /\ op.count \in Nat /\ op.nr \in DOMAIN pageMap
  BY <1>1 DEF RestOK, Operation, Numbers, ClientsOK
<1>3. PICK own \in [Nat -> Nat], idx \in [Nat -> Nat] : Labelled(own, idx)
  BY <1>1 DEF StoreInv
<1>4. Growing(own, idx)
  BY <1>1, <1>3 DEF Labelled
<1>5. op.w = writes /\ op.w \notin DOMAIN files /\ op.size \in Sizes
  BY <1>4 DEF Growing
<1>6. pageCount # 0
  BY <1>1, <1>2, <1>5 DEF ClientsOK
<1>7. Len(heap) \in Nat /\ DOMAIN pageMap \subseteq Nat
  BY <1>1, LenProperties DEF CacheOK, WellFormed, MapOK, Numbers
<1> QED
  BY <1>1, <1>2, <1>3, <1>4, <1>5, <1>6, <1>7

(* writeFile appends a block to the chain of its image.                     *)
LEMMA WriteMoreKeeps ==
  ASSUME IInv, StoreInv, WriteBlock, op.count + 1 < BlocksRequired(op.size)
  PROVE  StoreInv'
<1>1. /\ CacheOK /\ RestOK /\ ClientsOK /\ NumbersOK
      /\ op.kind = "write" /\ currentBlock' = NoBlock
      /\ op.w \in Nat \ {0} /\ op.w = writes /\ op.w \notin DOMAIN files
      /\ op.size \in Nat /\ op.count \in Nat /\ op.nr \in DOMAIN pageMap
      /\ op.size \in Sizes /\ pageCount # 0
      /\ keepInMemory' = keepInMemory /\ writes' = writes
      /\ Len(heap) \in Nat /\ DOMAIN pageMap \subseteq Nat
  BY WriteFacts
<1>2. PICK own \in [Nat -> Nat], idx \in [Nat -> Nat] : Labelled(own, idx) /\ Growing(own, idx)
  BY WriteFacts
<1>3. PICK more : more = TRUE
  OBVIOUS
<1>4. PICK filled : Fills(filled, more)
  BY DEF Fills
<1>5. /\ AllocateBlock(filled) /\ files' = files
      /\ op' = [op EXCEPT !.nr = NextNumber, !.count = @ + 1]
  BY <1>3, <1>4 DEF WriteBlock, Fills
<1>6. PICK n, w, size, last, block : /\ n = NextNumber /\ w = op.w /\ size = op.size
                                     /\ last = op.nr /\ block = op.count
  OBVIOUS
<1>23. /\ block \in Nat /\ w \in Nat \ {0} /\ w = writes /\ writes' = w
       /\ w \in 1..w /\ size \in Sizes /\ size \in Nat /\ w \notin DOMAIN files
       /\ block + 2 \in Nat
  <2>1. block \in Nat /\ w \in Nat \ {0}
    BY <1>1, <1>6
  <2>2. /\ w = writes /\ writes' = w /\ size \in Sizes /\ size \in Nat
        /\ w \notin DOMAIN files
    BY <1>1, <1>6
  <2> QED
    BY <2>1, <2>2
<1>24. block + 2 <= BlocksRequired(size)
  <2>1. block + 1 < BlocksRequired(size)
    BY <1>6
  <2>2. BlocksRequired(size) \in Nat
    BY <1>23, Lengths
  <2> QED
    BY <1>23, <2>1, <2>2
<1>7. /\ op'.nr = n /\ op'.count = block + 1 /\ op'.w = w /\ op'.size = size
      /\ op'.head = op.head /\ op'.kind = "write"
  <2>1. op \in Operation
    BY <1>1 DEF RestOK
  <2> QED
    BY <1>1, <1>5, <1>6, <2>1 DEF Operation
<1>8. /\ WellFormed(pageCacheMem, pageCacheDisk, filled)
      /\ DOMAIN filled = DOMAIN heap /\ Len(filled) = Len(heap)
      /\ Fits(pageMap, filled) /\ MapOK(pageMap, filled)
      /\ last \in DOMAIN pageMap
      /\ \A nr \in DOMAIN pageMap \ {last} : filled[pageMap[nr]] = heap[pageMap[nr]]
      /\ filled[pageMap[last]].next = n
      /\ filled[pageMap[last]].data # NoData
      /\ block + 1 <= PiecesOf(size) => filled[pageMap[last]].data = Piece(w, block + 1)
  BY <1>3, <1>4, <1>6, FillShows DEF Link
<1>9. /\ n \in Nat \ {0} /\ n \notin DOMAIN pageMap /\ pageCount' \in Nat \ {0}
  BY <1>1, <1>5, <1>6, NewNumber DEF RestOK, NumbersOK
<1>10. /\ DOMAIN pageMap' = DOMAIN pageMap \cup {n}
       /\ Successor(n)' = 0
       /\ \A nr \in DOMAIN pageMap :
            /\ Successor(nr)' = filled[pageMap[nr]].next
            /\ SwapServes => StoredPiece(nr)' = PieceIn(filled[pageMap[nr]])
       /\ Len(heap') = Len(filled) + 1
       /\ NumbersOK'
  BY <1>1, <1>5, <1>6, <1>8, AllocateShows DEF RestOK, CacheOK, NumbersOK
<1>11. \A nr \in DOMAIN pageMap \ {last} : Untouched(nr)
  BY <1>8, <1>10 DEF Untouched, Successor, StoredPiece, PieceIn
<1>12. /\ Successor(last)' = n
       /\ SwapServes /\ block + 1 <= PiecesOf(size) => StoredPiece(last)' = Piece(w, block + 1)
  BY <1>8, <1>10 DEF PieceIn
<1>13. PICK own2 \in [Nat -> Nat] : own2[n] = w /\ \A m \in Nat \ {n} : own2[m] = own[m]
  <2>1. [own EXCEPT ![n] = w] \in [Nat -> Nat]
    BY <1>1, <1>6, <1>9
  <2> QED
    BY <1>9, <2>1
<1>14. PICK idx2 \in [Nat -> Nat] : idx2[n] = block + 2 /\ \A m \in Nat \ {n} : idx2[m] = idx[m]
  <2>1. [idx EXCEPT ![n] = block + 2] \in [Nat -> Nat]
    BY <1>9, <1>23
  <2> QED
    BY <1>9, <2>1
<1>15. \A nr \in DOMAIN pageMap : nr \in Nat \ {n} /\ own2[nr] = own[nr] /\ idx2[nr] = idx[nr]
  BY <1>1, <1>9, <1>13, <1>14
<1>16. /\ \A v : v # w => OwnedBy(own2, v)' = OwnedBy(own, v)
       /\ OwnedBy(own2, w)' = OwnedBy(own, w) \cup {n}
  BY <1>10, <1>13, <1>15 DEF OwnedBy
<1>17. ASSUME NEW v \in DOMAIN files' PROVE Complete(own2, idx2, v)'
  <2>1. v \in DOMAIN files /\ files'[v] = files[v] /\ files[v].size \in Nat /\ v # w
    BY <1>1, <1>5, <1>6, <1>17 DEF RestOK
  <2>2. Complete(own, idx, v)
    BY <1>2, <2>1 DEF Labelled
  <2>3. /\ OwnedBy(own2, v)' = OwnedBy(own, v)
        /\ \A nr \in OwnedBy(own, v) : Untouched(nr) /\ idx2[nr] = idx[nr]
    <3>1. own[last] = w
      BY <1>2, <1>6 DEF Growing, OwnedBy
    <3> QED
      BY <1>11, <1>15, <1>16, <2>1, <3>1 DEF OwnedBy
  <2>4. Len(heap') \in Nat /\ Len(heap) <= Len(heap')
    BY <1>1, <1>8, <1>10
  <2> QED
    BY <1>1, <2>1, <2>2, <2>3, <2>4, CompleteStays
<1>18. Growing(own2, idx2)'
  <2>1. /\ w = writes' /\ w \notin DOMAIN files' /\ size \in Sizes /\ block \in Nat
        /\ block + 2 <= BlocksRequired(size)
    BY <1>5, <1>23, <1>24
  <2>2. /\ block + 1 <= Len(heap) /\ op.head \in OwnedBy(own, w) /\ idx[op.head] = 1
        /\ last \in OwnedBy(own, w) /\ idx[last] = block + 1
        /\ \A nr \in OwnedBy(own, w) \ {last} :
             idx[nr] \in 1..block /\ Linked(own, idx, nr) /\ Filled(own, idx, nr, size)
    BY <1>2, <1>6 DEF Growing
  <2>3. /\ op'.head \in OwnedBy(own2, w)' /\ idx2[op'.head] = 1
        /\ n \in OwnedBy(own2, w)' /\ idx2[n] = block + 2
    BY <1>7, <1>14, <1>15, <1>16, <2>2 DEF OwnedBy
  <2>4. block + 2 <= Len(heap')
    BY <1>1, <1>8, <1>10, <2>1, <2>2
  <2>5. idx2[last] = block + 1 /\ own2[last] = w /\ own[last] = w
    BY <1>15, <2>2 DEF OwnedBy
  <2>6. Linked(own2, idx2, last)'
    BY <1>9, <1>12, <2>1, <2>3, <2>5 DEF Linked
  <2>7. Filled(own2, idx2, last, size)'
    BY <1>1, <1>12, <2>5 DEF Filled, SwapServes, PiecesOf, Piece
  <2>8. ASSUME NEW nr \in OwnedBy(own, w) \ {last}
        PROVE  idx2[nr] \in 1..(block + 1) /\ Linked(own2, idx2, nr)' /\ Filled(own2, idx2, nr, size)'
    <3>1. /\ nr \in DOMAIN pageMap \ {last} /\ own[nr] = w /\ Untouched(nr)
          /\ own2[nr] = own[nr] /\ idx2[nr] = idx[nr]
          /\ idx[nr] \in 1..block /\ Linked(own, idx, nr) /\ Filled(own, idx, nr, size)
      BY <1>11, <1>15, <2>2, <2>8 DEF OwnedBy
    <3>2. \A next \in OwnedBy(own, own[nr]) : next = Successor(nr) =>
            next \in OwnedBy(own2, own[nr])' /\ idx2[next] = idx[next]
      BY <1>15, <1>16, <3>1 DEF OwnedBy
    <3>3. Linked(own2, idx2, nr)'
      BY <3>1, <3>2, LinkStays
    <3>4. Filled(own2, idx2, nr, size)'
      BY <1>1, <3>1, FilledStays
    <3> QED
      BY <2>1, <3>1, <3>3, <3>4
  <2>9. \A nr \in OwnedBy(own2, w)' \ {n} :
          idx2[nr] \in 1..(block + 1) /\ Linked(own2, idx2, nr)' /\ Filled(own2, idx2, nr, size)'
    BY <1>16, <2>1, <2>5, <2>6, <2>7, <2>8, SMTT(30)
  <2> HIDE <1>1, <1>2
  <2> QED
    BY <1>7, <1>10, <2>1, <2>3, <2>4, <2>9
       DEF Growing, BlocksRequired, Filled, PiecesOf, Successor
<1>19. \A nr \in DOMAIN pageMap' : own2[nr] \in 1..writes'
  BY <1>2, <1>10, <1>13, <1>15, <1>23 DEF Labelled
<1>20. 0 \in OwnedBy(own2, 1)'
  <2>1. 0 \in OwnedBy(own, 1)
    BY <1>1, <1>2, SMTT(30) DEF Labelled
  <2> QED
    BY <1>6, <1>16, <2>1
<1>21. Labelled(own2, idx2)'
  BY <1>7, <1>17, <1>18, <1>19, <1>20 DEF Labelled
<1>22. ClientsOK'
  BY <1>1, <1>5, <1>7, <1>9 DEF ClientsOK, NoBlock
<1> QED
  BY <1>7, <1>10, <1>21, <1>22 DEF StoreInv

(* writeFile hands the finished chain to its client.                        *)
LEMMA WriteLastKeeps ==
  ASSUME IInv, StoreInv, WriteBlock, ~(op.count + 1 < BlocksRequired(op.size))
  PROVE  /\ StoreInv'
         /\ files' = Put(files, op.w, [ref |-> op.head, size |-> op.size])
<1>1. /\ CacheOK /\ RestOK /\ ClientsOK /\ NumbersOK
      /\ op.kind = "write" /\ currentBlock' = NoBlock
      /\ op.w \in Nat \ {0} /\ op.w = writes /\ op.w \notin DOMAIN files
      /\ op.size \in Nat /\ op.count \in Nat /\ op.nr \in DOMAIN pageMap
      /\ op.size \in Sizes /\ pageCount # 0
      /\ keepInMemory' = keepInMemory /\ writes' = writes
      /\ Len(heap) \in Nat /\ DOMAIN pageMap \subseteq Nat
  BY WriteFacts
<1>2. PICK own \in [Nat -> Nat], idx \in [Nat -> Nat] : Labelled(own, idx) /\ Growing(own, idx)
  BY WriteFacts
<1>3. PICK more : more = FALSE
  OBVIOUS
<1>4. PICK filled : Fills(filled, more)
  BY DEF Fills
<1>5. /\ heap' = filled /\ op' = Idle
      /\ files' = Put(files, op.w, [ref |-> op.head, size |-> op.size])
      /\ UNCHANGED <<pageCacheMem, pageCacheDisk, pageMap, swap, numberVars>>
  <2>1. Link(op.count + 1 < BlocksRequired(op.size)) = Link(more)
    BY <1>3 DEF Link
  <2>2. /\ op' = Idle /\ files' = Put(files, op.w, [ref |-> op.head, size |-> op.size])
        /\ UNCHANGED <<pageCacheMem, pageCacheDisk, pageMap, swap, numberVars>>
    BY DEF WriteBlock
  <2>3. heap' = filled
    BY <1>4, <2>1 DEF WriteBlock, Fills
  <2> QED
    BY <2>2, <2>3
<1>6. PICK w, size, last, block, head : /\ w = op.w /\ size = op.size /\ head = op.head
                                        /\ last = op.nr /\ block = op.count
  OBVIOUS
<1>7. /\ block \in Nat /\ w \in Nat \ {0} /\ size \in Nat
      /\ w = writes /\ writes' = w /\ size \in Sizes /\ w \notin DOMAIN files
  <2>1. block \in Nat /\ w \in Nat \ {0} /\ size \in Nat
    BY <1>1, <1>6
  <2>2. w = writes /\ writes' = w /\ size \in Sizes /\ w \notin DOMAIN files
    BY <1>1, <1>6
  <2> QED
    BY <2>1, <2>2
<1>8. /\ DOMAIN filled = DOMAIN heap /\ Len(filled) = Len(heap)
      /\ Fits(pageMap, filled) /\ MapOK(pageMap, filled)
      /\ last \in DOMAIN pageMap
      /\ \A nr \in DOMAIN pageMap \ {last} : filled[pageMap[nr]] = heap[pageMap[nr]]
      /\ filled[pageMap[last]].next = 0
      /\ filled[pageMap[last]].data # NoData
      /\ block + 1 <= PiecesOf(size) => filled[pageMap[last]].data = Piece(w, block + 1)
  BY <1>3, <1>4, <1>6, FillShows DEF Link
<1>9. /\ block + 1 <= Len(heap) /\ head \in OwnedBy(own, w) /\ idx[head] = 1
      /\ last \in OwnedBy(own, w) /\ idx[last] = block + 1
      /\ block + 1 <= BlocksRequired(size)
      /\ \A nr \in OwnedBy(own, w) \ {last} :
           idx[nr] \in 1..block /\ Linked(own, idx, nr) /\ Filled(own, idx, nr, size)
  BY <1>2, <1>6 DEF Growing
<1>10. BlocksRequired(size) = block + 1
  <2>1. ~(block + 1 < BlocksRequired(size)) /\ BlocksRequired(size) \in Nat
    BY <1>6, <1>7, Lengths
  <2> QED
    BY <1>7, <1>9, <2>1, SMTT(30)
<1>11. \A nr \in DOMAIN pageMap \ {last} : Untouched(nr)
  BY <1>5, <1>8 DEF Untouched, Successor, StoredPiece, SwapIn
<1>12. /\ Successor(last)' = 0
       /\ block + 1 <= PiecesOf(size) => StoredPiece(last)' = Piece(w, block + 1)
  BY <1>5, <1>8 DEF Successor, StoredPiece
<1>13. NumbersOK'
  BY <1>1, <1>5, <1>8 DEF NumbersOK, FreeOK, Fits, numberVars
<1>14. /\ \A v : OwnedBy(own, v)' = OwnedBy(own, v)
       /\ Len(heap') = Len(heap) /\ DOMAIN pageMap' = DOMAIN pageMap
  BY <1>5, <1>8 DEF OwnedBy
<1>15. /\ DOMAIN files' = DOMAIN files \cup {w}
       /\ files'[w].size = size /\ files'[w].ref = head
       /\ \A v \in DOMAIN files : files'[v] = files[v]
  BY <1>5, <1>6, <1>7 DEF Put
<1>16. ASSUME NEW v \in DOMAIN files PROVE Complete(own, idx, v)'
  <2>1. files'[v] = files[v] /\ files[v].size \in Nat /\ v # w
    BY <1>1, <1>7, <1>15, <1>16 DEF RestOK
  <2>2. Complete(own, idx, v)
    BY <1>2, <1>16 DEF Labelled
  <2>3. /\ OwnedBy(own, v)' = OwnedBy(own, v)
        /\ \A nr \in OwnedBy(own, v) : Untouched(nr) /\ idx[nr] = idx[nr]
    BY <1>9, <1>11, <1>14, <2>1 DEF OwnedBy
  <2>4. Len(heap') \in Nat /\ Len(heap) <= Len(heap')
    BY <1>1, <1>14
  <2> QED
    BY <1>1, <2>1, <2>2, <2>3, <2>4, CompleteStays
<1>17. Complete(own, idx, w)'
  <2>1. own[last] = w
    BY <1>9 DEF OwnedBy
  <2>2. Filled(own, idx, last, size)'
    BY <1>9, <1>12, <2>1 DEF Filled, PiecesOf, Piece
  <2>3. ASSUME NEW nr \in OwnedBy(own, w) \ {last}
        PROVE  /\ idx[nr] \in 1..(block + 1) /\ idx[nr] # block + 1
               /\ Linked(own, idx, nr)' /\ Filled(own, idx, nr, size)'
    <3>1. /\ nr \in DOMAIN pageMap \ {last} /\ own[nr] = w /\ Untouched(nr)
          /\ idx[nr] \in 1..block /\ Linked(own, idx, nr) /\ Filled(own, idx, nr, size)
      BY <1>9, <1>11, <2>3 DEF OwnedBy
    <3>2. \A next \in OwnedBy(own, own[nr]) : next = Successor(nr) =>
            next \in OwnedBy(own, own[nr])' /\ idx[next] = idx[next]
      BY <1>14
    <3>3. Linked(own, idx, nr)'
      BY <3>1, <3>2, LinkStays
    <3>4. Filled(own, idx, nr, size)'
      BY <1>1, <3>1, FilledStays
    <3> QED
      BY <1>7, <3>1, <3>3, <3>4
  <2>4. ASSUME NEW nr \in OwnedBy(own, w)'
        PROVE  /\ idx[nr] \in 1..(block + 1)
               /\ IF idx[nr] = block + 1 THEN Successor(nr)' = 0 ELSE Linked(own, idx, nr)'
               /\ Filled(own, idx, nr, size)'
    <3>1. CASE nr = last
      <4>1. /\ idx[last] \in 1..(block + 1) /\ idx[last] = block + 1
            /\ Successor(last)' = 0 /\ Filled(own, idx, last, size)'
        BY <1>7, <1>9, <1>12, <2>2
      <4> QED
        BY <3>1, <4>1
    <3>2. CASE nr # last
      BY <1>14, <2>3, <2>4, <3>2
    <3> QED
      BY <3>1, <3>2
  <2>5. /\ files'[w].size \in Sizes /\ BlocksRequired(files'[w].size) <= Len(heap')
        /\ files'[w].ref \in OwnedBy(own, w)' /\ idx[files'[w].ref] = 1
        /\ BlocksRequired(files'[w].size) = block + 1
    BY <1>7, <1>9, <1>10, <1>14, <1>15 DEF BlocksRequired
  <2> QED
    BY <1>15, <2>4, <2>5 DEF Complete, Filled, PiecesOf
<1>18. op'.kind = "idle"
  BY <1>5 DEF Idle
<1>19. Labelled(own, idx)'
  BY <1>2, <1>7, <1>14, <1>15, <1>16, <1>17, <1>18 DEF Labelled
<1>20. ClientsOK'
  <2>1. w \in 1..w
    BY <1>7
  <2> QED
    BY <1>1, <1>5, <1>7, <1>15, <1>18, <2>1 DEF ClientsOK, NoBlock, numberVars
<1> QED
  BY <1>5, <1>13, <1>18, <1>19, <1>20 DEF StoreInv

-----------------------------------------------------------------------------
(* readFile starts at the first block of the image.                         *)
LEMMA BeginReadKeeps ==
  ASSUME IInv, StoreInv, NEW w \in DOMAIN files, BeginRead(w)
  PROVE  StoreInv'
<1>1. /\ RestOK /\ ClientsOK /\ NumbersOK
      /\ op.kind = "idle" /\ currentBlock = NoBlock
      /\ op' = [Idle EXCEPT !.kind = "read", !.w = w, !.size = files[w].size,
                            !.nr = files[w].ref]
      /\ UNCHANGED <<cacheVars, numberVars, currentBlock, keepInMemory, clientVars>>
  BY OpenInvariant DEF BeginRead, RestOK, StoreInv
<1>2. PICK own \in [Nat -> Nat], idx \in [Nat -> Nat] : Labelled(own, idx)
  BY <1>1 DEF StoreInv
<1>3. /\ op'.kind = "read" /\ op'.w = w /\ op'.size = files[w].size /\ op'.nr = files[w].ref
      /\ op'.count = 0 /\ op'.out = << >>
  BY <1>1 DEF Idle
<1>4. /\ NumbersOK'
      /\ \A v : OwnedBy(own, v)' = OwnedBy(own, v)
      /\ \A v \in DOMAIN files : Complete(own, idx, v) => Complete(own, idx, v)'
  BY <1>1, QuietStep DEF clientVars
<1>5. Fetched(own, idx)'
  <2>1. Complete(own, idx, w) /\ files[w].size \in Nat /\ files' = files
    BY <1>1, <1>2 DEF Labelled, RestOK, clientVars
  <2>4. OwnedBy(own, w)' = OwnedBy(own, w) /\ 0 <= PiecesOf(files[w].size)
    BY <1>4, <2>1, Lengths
  <2>2. files[w].ref \in OwnedBy(own, w)' /\ idx[files[w].ref] = 1
    BY <2>1, <2>4 DEF Complete
  <2>3. Len(op'.out) = 0 /\ DOMAIN op'.out = {}
    BY <1>3, EmptySeq
  <2> QED
    BY <1>3, <2>1, <2>2, <2>3, <2>4 DEF Fetched, PiecesOf
<1>6. Labelled(own, idx)'
  BY <1>1, <1>2, <1>3, <1>4, <1>5 DEF Labelled, cacheVars, clientVars
<1>7. ClientsOK'
  BY <1>1, <1>3 DEF ClientsOK, cacheVars, numberVars, clientVars
<1> QED
  BY <1>3, <1>4, <1>6, <1>7 DEF StoreInv

Reads(out) ==
  out = IF CopyLength(op.count * BlockSize, op.size) > 0
          THEN Append(op.out, heap[currentBlock].data) ELSE op.out
(* What readFile has read with the block it has locked: the memcpy never    *)
(* has a negative length, and behind the last block it has the whole image. *)
LEMMA ReadShows ==
  ASSUME IInv, StoreInv, ReadBlock, NEW own, NEW idx, Labelled(own, idx),
         NEW out, Reads(out)
  PROVE  /\ CopyLength(op.count * BlockSize, op.size) >= 0
         /\ op.w \in DOMAIN files /\ op.size = files[op.w].size
         /\ op.nr \in OwnedBy(own, op.w) /\ idx[op.nr] = op.count + 1
         /\ heap[currentBlock].next = Successor(op.nr)
         /\ Successor(op.nr) # 0 => Linked(own, idx, op.nr)
         /\ Len(out) = IF op.count + 1 <= PiecesOf(op.size) THEN op.count + 1
                                                            ELSE PiecesOf(op.size)
         /\ SwapServes => \A k \in DOMAIN out : out[k] = Piece(op.w, k)
         /\ Successor(op.nr) = 0 => Len(out) = PiecesOf(op.size)
         /\ out \in Seq(Datum)
<1>1. /\ CacheOK /\ RestOK /\ ClientsOK /\ NumbersOK
      /\ op.kind = "read" /\ currentBlock # NoBlock /\ currentBlock \in DOMAIN heap
      /\ op.nr \in DOMAIN pageMap /\ currentBlock = pageMap[op.nr]
  BY OpenInvariant DEF ReadBlock, RestOK, StoreInv, ClientsOK
<1>2. PICK nr, w, size, count, got : /\ nr = op.nr /\ w = op.w /\ size = op.size
                                     /\ count = op.count /\ got = op.out
  OBVIOUS
<1>3. size \in Nat /\ count \in Nat /\ got \in Seq(Datum)
  BY <1>1, <1>2 DEF RestOK, Operation, Numbers
<1>4. /\ w \in DOMAIN files /\ size = files[w].size
      /\ nr \in OwnedBy(own, w) /\ idx[nr] = count + 1 /\ own[nr] = w
      /\ Len(got) = IF count <= PiecesOf(size) THEN count ELSE PiecesOf(size)
      /\ SwapServes => \A k \in DOMAIN got : got[k] = Piece(w, k)
  BY <1>1, <1>2 DEF Labelled, Fetched, OwnedBy
<1>5. /\ count + 1 \in 1..BlocksRequired(size)
      /\ IF count + 1 = BlocksRequired(size) THEN Successor(nr) = 0 ELSE Linked(own, idx, nr)
      /\ SwapServes /\ count + 1 <= PiecesOf(size) => StoredPiece(nr) = Piece(w, count + 1)
  BY <1>4 DEF Labelled, Complete, Filled
<1>6. /\ BlocksRequired(size) \in Nat \ {0} /\ PiecesOf(size) \in Nat
      /\ PiecesOf(size) <= BlocksRequired(size)
      /\ CopyLength(count * BlockSize, size) > 0 <=> count + 1 <= PiecesOf(size)
      /\ count + 1 <= BlocksRequired(size) => CopyLength(count * BlockSize, size) >= 0
  BY <1>3, Lengths
<1>7. heap[currentBlock] \in Block /\ heap[currentBlock].data # NoData
  <2>1. heap[currentBlock] \in Block
    BY <1>1, ElementOfSeq, LenProperties DEF CacheOK, WellFormed
  <2>2. Listed(currentBlock, pageCacheMem)
    BY <1>1 DEF RestOK, LockedResident
  <2> QED
    BY <1>1, <2>1, <2>2 DEF CacheOK, WellFormed, Partition
<1>8. heap[currentBlock].next = Successor(nr) /\ heap[currentBlock].data = StoredPiece(nr)
  BY <1>1, <1>2, <1>7 DEF Successor, StoredPiece
<1>9. PICK d \in Datum : d = heap[currentBlock].data
  BY <1>7 DEF Block
<1>10. out = IF CopyLength(count * BlockSize, size) > 0 THEN Append(got, d) ELSE got
  BY <1>2, <1>9 DEF Reads
<1>11. /\ out \in Seq(Datum)
       /\ Len(out) = IF count + 1 <= PiecesOf(size) THEN count + 1 ELSE PiecesOf(size)
       /\ SwapServes => \A k \in DOMAIN out : out[k] = Piece(w, k)
  <2>1. CASE count + 1 <= PiecesOf(size)
    <3>1. out = Append(got, d) /\ Len(got) = count
      BY <1>3, <1>4, <1>6, <1>10, <2>1
    <3>2. /\ out \in Seq(Datum) /\ Len(out) = count + 1 /\ DOMAIN out = 1..(count + 1)
          /\ DOMAIN got = 1..count /\ out[count + 1] = d
          /\ \A k \in 1..count : out[k] = got[k]
      BY <1>3, <1>9, <3>1, AppendProperties, LenProperties
    <3>3. SwapServes => d = Piece(w, count + 1)
      BY <1>5, <1>8, <1>9, <2>1
    <3>4. ASSUME SwapServes, NEW k \in DOMAIN out PROVE out[k] = Piece(w, k)
      <4>1. CASE k = count + 1
        BY <3>2, <3>3, <3>4, <4>1
      <4>2. CASE k # count + 1
        <5>1. k \in 1..count
          BY <1>3, <3>2, <3>4, <4>2
        <5> QED
          BY <1>4, <3>2, <3>4, <5>1
      <4> QED
        BY <4>1, <4>2
    <3> QED
      BY <2>1, <3>2, <3>4
  <2>2. CASE ~(count + 1 <= PiecesOf(size))
    <3>1. out = got /\ Len(got) = PiecesOf(size)
      BY <1>3, <1>4, <1>6, <1>10, <2>2
    <3> QED
      BY <1>3, <1>4, <2>2, <3>1
  <2> QED
    BY <2>1, <2>2
<1>12. Successor(nr) = 0 => Len(out) = PiecesOf(size)
  <2>1. Successor(nr) = 0 => count + 1 = BlocksRequired(size)
    BY <1>5 DEF Linked
  <2> QED
    BY <1>3, <1>6, <1>11, <2>1
<1>13. Successor(nr) # 0 => Linked(own, idx, nr)
  BY <1>5
<1>14. CopyLength(count * BlockSize, size) >= 0
  BY <1>3, <1>5, <1>6
<1> QED
  BY <1>2, <1>4, <1>8, <1>11, <1>12, <1>13, <1>14

(* readFile goes on to the next block, or returns the image.                *)
LEMMA ReadKeeps ==
  ASSUME IInv, StoreInv, ReadBlock
  PROVE  /\ StoreInv'
         /\ \/ answer' = answer
            \/ /\ op.w \in DOMAIN files /\ op.size = files[op.w].size
               /\ \E out : /\ answer' = <<op.w, out>>
                           /\ SwapServes => out = Image(op.w, op.size)
<1>1. /\ RestOK /\ ClientsOK /\ NumbersOK
      /\ op.kind = "read" /\ currentBlock # NoBlock /\ currentBlock' = NoBlock
      /\ UNCHANGED <<cacheVars, numberVars, keepInMemory, files, writes>>
  BY OpenInvariant DEF ReadBlock, StoreInv
<1>2. PICK own \in [Nat -> Nat], idx \in [Nat -> Nat] : Labelled(own, idx)
  BY <1>1 DEF StoreInv
<1>3. PICK out : Reads(out)
  BY DEF Reads
<1>4. PICK nr, w, size, count, next : /\ nr = op.nr /\ w = op.w /\ size = op.size
                                      /\ count = op.count /\ next = Successor(nr)
  OBVIOUS
<1>5. /\ CopyLength(count * BlockSize, size) >= 0
      /\ w \in DOMAIN files /\ size = files[w].size
      /\ nr \in OwnedBy(own, w) /\ idx[nr] = count + 1 /\ own[nr] = w
      /\ heap[currentBlock].next = next
      /\ next # 0 => Linked(own, idx, nr)
      /\ Len(out) = IF count + 1 <= PiecesOf(size) THEN count + 1 ELSE PiecesOf(size)
      /\ SwapServes => \A k \in DOMAIN out : out[k] = Piece(w, k)
      /\ next = 0 => Len(out) = PiecesOf(size)
      /\ out \in Seq(Datum)
  BY <1>2, <1>3, <1>4, ReadShows DEF OwnedBy
<1>6. count \in Nat /\ size \in Nat
  BY <1>1, <1>4 DEF RestOK, Operation
<1>7. ~(CopyLength(count * BlockSize, size) < 0)
  <2>1. CopyLength(count * BlockSize, size) \in Int
    BY <1>6, BlockSizeAssumption DEF CopyLength
  <2> QED
    BY <1>5, <2>1
<1>8. \/ next # 0 /\ op' = [op EXCEPT !.nr = next, !.count = @ + 1, !.out = out]
         /\ answer' = answer
      \/ next = 0 /\ op' = Idle /\ answer' = <<w, out>>
  BY <1>3, <1>4, <1>5, <1>7 DEF ReadBlock, Reads
<1>9. /\ NumbersOK'
      /\ \A v : OwnedBy(own, v)' = OwnedBy(own, v)
      /\ \A v \in DOMAIN files : Complete(own, idx, v) => Complete(own, idx, v)'
  BY <1>1, QuietStep
<1>10. CASE next # 0
  <2>1. op' = [op EXCEPT !.nr = next, !.count = @ + 1, !.out = out] /\ answer' = answer
    BY <1>8, <1>10
  <2>2. /\ op'.nr = next /\ op'.count = count + 1 /\ op'.w = w /\ op'.size = size
        /\ op'.kind = "read" /\ op'.out = out
    <3>1. op \in Operation
      BY <1>1 DEF RestOK
    <3> QED
      BY <1>1, <1>4, <2>1, <3>1 DEF Operation
  <2>3. next \in OwnedBy(own, w) /\ idx[next] = count + 1 + 1
    BY <1>4, <1>5, <1>10 DEF Linked
  <2>4. OwnedBy(own, w)' = OwnedBy(own, w) /\ files' = files /\ (SwapServes' <=> SwapServes)
    BY <1>1, <1>9 DEF SwapServes
  <2>5. Fetched(own, idx)'
    BY <1>5, <2>2, <2>3, <2>4 DEF Fetched, PiecesOf, Piece
  <2>6. Labelled(own, idx)'
    BY <1>1, <1>2, <1>9, <2>2, <2>4, <2>5 DEF Labelled, cacheVars
  <2>7. ClientsOK'
    BY <1>1, <2>2 DEF ClientsOK, numberVars
  <2> QED
    BY <1>9, <2>1, <2>2, <2>6, <2>7 DEF StoreInv
<1>11. CASE next = 0
  <2>1. op'.kind = "idle" /\ answer' = <<w, out>>
    BY <1>8, <1>11 DEF Idle
  <2>2. SwapServes => out = Image(w, size)
    <3> DEFINE n == PiecesOf(size)
    <3>1. n \in Nat /\ Len(out) = n
      BY <1>5, <1>6, <1>11, Lengths
    <3>2. DOMAIN out = 1..n /\ out = [k \in 1..n |-> out[k]]
      BY <1>5, <3>1, LenProperties
    <3> QED
      BY <1>5, <3>2 DEF Image
  <2>3. Labelled(own, idx)'
    BY <1>1, <1>2, <1>9, <2>1 DEF Labelled, cacheVars
  <2>4. ClientsOK'
    BY <1>1, <2>1 DEF ClientsOK, numberVars
  <2> QED
    BY <1>4, <1>5, <1>9, <2>1, <2>2, <2>3, <2>4 DEF StoreInv
<1> QED
  BY <1>10, <1>11

-----------------------------------------------------------------------------
(* deleteFile: an image that its client gives up.                           *)
LEMMA BeginDeleteKeeps ==
  ASSUME IInv, StoreInv, Careful, NEW w \in DOMAIN files, BeginDelete(w)
  PROVE  StoreInv'
<1>1. /\ RestOK /\ ClientsOK /\ NumbersOK
      /\ op.kind = "idle" /\ currentBlock = NoBlock /\ w \notin Pinned[keepInMemory]
      /\ op' = [Idle EXCEPT !.kind = "delete", !.w = w, !.nr = files[w].ref]
      /\ files' = Without(files, w)
      /\ UNCHANGED <<cacheVars, numberVars, currentBlock, keepInMemory, writes, answer>>
  BY OpenInvariant DEF BeginDelete, RestOK, StoreInv
<1>2. PICK own \in [Nat -> Nat], idx \in [Nat -> Nat] : Labelled(own, idx)
  BY <1>1 DEF StoreInv
<1>3. op'.kind = "delete" /\ op'.w = w /\ op'.nr = files[w].ref
  BY <1>1 DEF Idle
<1>4. keepInMemory /\ w # 1
  <2>1. keepInMemory \in BOOLEAN /\ w \in 1..writes /\ writes <= MaxWrites /\ writes \in Nat
    BY <1>1 DEF RestOK, ClientsOK
  <2>2. w \in 1..MaxWrites
    BY <2>1, ClientAssumption
  <2>3. CASE keepInMemory
    <3>1. Pinned[keepInMemory] = Pinned[TRUE]
      BY <2>1, <2>3
    <3> QED
      BY <1>1, <2>3, <3>1 DEF Careful
  <2>4. CASE ~keepInMemory
    <3>1. Pinned[keepInMemory] = Pinned[FALSE]
      BY <2>1, <2>4
    <3> QED
      BY <1>1, <2>2, <3>1 DEF Careful
  <2> QED
    BY <2>3, <2>4
<1>5. /\ DOMAIN files' = DOMAIN files \ {w} /\ \A v \in DOMAIN files' : files'[v] = files[v]
      /\ writes' = writes /\ pageMap' = pageMap
  BY <1>1 DEF Without, cacheVars
<1>6. /\ NumbersOK'
      /\ \A v : OwnedBy(own, v)' = OwnedBy(own, v)
      /\ \A v \in DOMAIN files' : Complete(own, idx, v) => Complete(own, idx, v)'
  BY <1>1, <1>5, QuietStep
<1>7. Shrinking(own, idx)'
  <2>1. Complete(own, idx, w) /\ files[w].size \in Nat
    BY <1>1, <1>2 DEF Labelled, RestOK
  <2>2. PICK ref : ref = files[w].ref
    OBVIOUS
  <2>3. /\ ref \in OwnedBy(own, w) /\ idx[ref] = 1
        /\ \A nr \in OwnedBy(own, w) : Successor(nr) # 0 => Linked(own, idx, nr)
    BY <2>1, <2>2 DEF Complete
  <2>4. OwnedBy(own, w)' = OwnedBy(own, w)
    BY <1>6
  <2>5. \A nr \in OwnedBy(own, w)' : Successor(nr)' # 0 => Linked(own, idx, nr)'
    BY <1>1, <2>3, <2>4 DEF cacheVars, Linked, Successor, OwnedBy
  <2>6. op'.nr = ref
    BY <1>3, <2>2
  <2> QED
    BY <1>1, <1>3, <1>4, <1>5, <2>3, <2>4, <2>5, <2>6 DEF Shrinking
<1>8. Labelled(own, idx)'
  BY <1>2, <1>3, <1>5, <1>6, <1>7 DEF Labelled
<1>9. ClientsOK'
  BY <1>1, <1>3, <1>5 DEF ClientsOK, numberVars
<1> QED
  BY <1>3, <1>6, <1>8, <1>9 DEF StoreInv

(* What a number that is given back adds to the free list.                  *)
LEMMA FreeAppend ==
  ASSUME NEW free \in Seq(Numbers), NEW nr \in Numbers,
         NEW i \in DOMAIN Append(free, nr)
  PROVE  /\ \/ i \in DOMAIN free /\ Append(free, nr)[i] = free[i]
            \/ i = Len(free) + 1 /\ Append(free, nr)[i] = nr
<1>1. /\ Len(free) \in Nat /\ DOMAIN free = 1..Len(free)
      /\ DOMAIN Append(free, nr) = 1..(Len(free) + 1)
      /\ \A k \in 1..Len(free) : Append(free, nr)[k] = free[k]
      /\ Append(free, nr)[Len(free) + 1] = nr
  BY AppendProperties, LenProperties
<1>2. CASE i = Len(free) + 1
  BY <1>1, <1>2
<1>3. CASE i # Len(free) + 1
  <2>1. i \in 1..Len(free)
    BY <1>1, <1>3
  <2> QED
    BY <1>1, <2>1
<1> QED
  BY <1>2, <1>3

(* deleteFile gives back one block, which was none of another image's.      *)
LEMMA DeleteKeeps ==
  ASSUME IInv, StoreInv, DeleteBlock
  PROVE  StoreInv'
<1>1. /\ CacheOK /\ RestOK /\ ClientsOK /\ NumbersOK
      /\ op.kind = "delete" /\ currentBlock # NoBlock /\ currentBlock' = NoBlock
      /\ op.nr \in DOMAIN pageMap /\ currentBlock = pageMap[op.nr]
      /\ pageMap' = Without(pageMap, op.nr)
      /\ freePages' = Append(freePages, op.nr)
      /\ UNCHANGED <<heap, pageCacheMem, pageCacheDisk, swap, pageCount, keepInMemory,
                     clientVars>>
  BY OpenInvariant DEF DeleteBlock, StoreInv, ClientsOK
<1>2. PICK own \in [Nat -> Nat], idx \in [Nat -> Nat] : Labelled(own, idx)
  BY <1>1 DEF StoreInv
<1>3. PICK nr, w, next : nr = op.nr /\ w = op.w /\ next = Successor(nr)
  OBVIOUS
<1>4. /\ keepInMemory /\ w # 1 /\ w \notin DOMAIN files /\ nr \in OwnedBy(own, w)
      /\ \A m \in OwnedBy(own, w) :
           idx[m] >= idx[nr] /\ Successor(m) # 0 => Linked(own, idx, m)
  BY <1>1, <1>2, <1>3 DEF Labelled, Shrinking
<1>5. /\ DOMAIN pageMap \subseteq Nat /\ nr \in DOMAIN pageMap /\ own[nr] = w
      /\ Len(heap) \in Nat /\ freePages \in Seq(Numbers) /\ pageCount \in Nat
      /\ op \in Operation
  BY <1>1, <1>4, LenProperties DEF CacheOK, RestOK, WellFormed, MapOK, Numbers, OwnedBy
<1>6. nr \in Nat \ {0} /\ nr < pageCount
  <2>1. writes \in Nat /\ own[nr] \in 1..writes
    BY <1>1, <1>2, <1>5 DEF Labelled, RestOK
  <2>2. own[0] = 1
    BY <1>2, <2>1 DEF Labelled, OwnedBy
  <2> QED
    BY <1>1, <1>4, <1>5, <2>2 DEF NumbersOK, FreeOK
<1>7. /\ DOMAIN pageMap' = DOMAIN pageMap \ {nr}
      /\ \A m \in DOMAIN pageMap \ {nr} : pageMap'[m] = pageMap[m]
  BY <1>1, <1>3 DEF Without
<1>8. \A m \in DOMAIN pageMap \ {nr} : Untouched(m)
  BY <1>1, <1>7 DEF Untouched, Successor, StoredPiece, SwapIn
<1>9. /\ \A v : v # w => OwnedBy(own, v)' = OwnedBy(own, v)
      /\ OwnedBy(own, w)' = OwnedBy(own, w) \ {nr}
  BY <1>5, <1>7 DEF OwnedBy
<1>10. NumbersOK'
  <2>1. ASSUME NEW i \in DOMAIN freePages'
        PROVE  \/ i \in DOMAIN freePages /\ freePages'[i] = freePages[i]
               \/ i = Len(freePages) + 1 /\ freePages'[i] = nr
    <3>1. freePages' = Append(freePages, nr) /\ nr \in Numbers
      BY <1>1, <1>3, <1>6 DEF Numbers
    <3>2. i \in DOMAIN Append(freePages, nr)
      BY <2>1, <3>1
    <3> QED
      BY <1>5, <3>1, <3>2, FreeAppend
  <2>2. /\ \A i \in DOMAIN freePages : /\ freePages[i] \in 1..(pageCount - 1)
                                       /\ freePages[i] \notin DOMAIN pageMap
        /\ \A i, j \in DOMAIN freePages : freePages[i] = freePages[j] => i = j
    BY <1>1 DEF NumbersOK, FreeOK
  <2>3. ASSUME NEW i \in DOMAIN freePages'
        PROVE  freePages'[i] \in 1..(pageCount - 1) /\ freePages'[i] \notin DOMAIN pageMap'
    <3>2. pageCount \in Nat
      BY <1>5
    <3>1. nr \in 1..(pageCount - 1)
      BY <1>6, <3>2
    <3> QED
      BY <1>7, <2>1, <2>2, <3>1
  <2>4. ASSUME NEW i \in DOMAIN freePages', NEW j \in DOMAIN freePages',
               freePages'[i] = freePages'[j]
        PROVE  i = j
    BY <1>5, <2>1, <2>2, <2>4
  <2>5. FreeOK'
    BY <1>1, <1>4, <1>7, <2>3, <2>4 DEF NumbersOK, FreeOK
  <2>6. Fits(pageMap, heap)'
    BY <1>1, <1>4, <1>7 DEF NumbersOK, Fits
  <2> QED
    BY <2>5, <2>6 DEF NumbersOK
<1>11. ASSUME NEW v \in DOMAIN files' PROVE Complete(own, idx, v)'
  <2>1. v \in DOMAIN files /\ files'[v] = files[v] /\ files[v].size \in Nat /\ v # w
    BY <1>1, <1>4, <1>11 DEF RestOK, clientVars
  <2>2. Complete(own, idx, v)
    BY <1>2, <2>1 DEF Labelled
  <2>3. /\ OwnedBy(own, v)' = OwnedBy(own, v)
        /\ \A m \in OwnedBy(own, v) : Untouched(m) /\ idx[m] = idx[m]
    BY <1>5, <1>8, <1>9, <2>1 DEF OwnedBy
  <2>4. Len(heap') \in Nat /\ Len(heap) <= Len(heap') /\ keepInMemory' = keepInMemory
    BY <1>1, <1>5
  <2> QED
    BY <1>5, <2>1, <2>2, <2>3, <2>4, CompleteStays
<1>12. op'.kind = "delete" => Shrinking(own, idx)'
  <2> SUFFICES ASSUME op'.kind = "delete" PROVE Shrinking(own, idx)'
    OBVIOUS
  <2>1. heap[currentBlock].next = next
    BY <1>1, <1>3 DEF Successor
  <2>2. next # 0 /\ op' = [op EXCEPT !.nr = next]
    BY <2>1 DEF DeleteBlock, Idle
  <2>3. op'.nr = next /\ op'.w = w
    BY <1>3, <1>5, <2>2 DEF Operation
  <2>4. next \in OwnedBy(own, w) /\ idx[next] = idx[nr] + 1 /\ idx[nr] \in Nat
    <3>1. idx[nr] \in Nat /\ idx[nr] >= idx[nr]
      BY <1>5
    <3>2. Linked(own, idx, nr)
      BY <1>3, <1>4, <2>2, <3>1
    <3> QED
      BY <1>3, <1>5, <3>1, <3>2 DEF Linked
  <2>5. next \in OwnedBy(own, w)'
    BY <1>9, <2>4
  <2>6. ASSUME NEW m \in OwnedBy(own, w)', idx[m] >= idx[next], Successor(m)' # 0
        PROVE  Linked(own, idx, m)'
    <3>1. m \in OwnedBy(own, w) /\ m # nr /\ m \in DOMAIN pageMap /\ own[m] = w /\ m \in Nat
      BY <1>5, <1>9, <2>6 DEF OwnedBy
    <3>2. Untouched(m) /\ Successor(m) # 0
      BY <1>8, <2>6, <3>1 DEF Untouched
    <3>3. idx[m] \in Nat /\ idx[m] > idx[nr]
      BY <2>4, <2>6, <3>1
    <3>4. Linked(own, idx, m)
      BY <1>4, <2>4, <3>1, <3>2, <3>3
    <3>5. \A to \in OwnedBy(own, own[m]) : to = Successor(m) =>
            to \in OwnedBy(own, own[m])' /\ idx[to] = idx[to]
      <4>1. idx[Successor(m)] # idx[nr]
        BY <2>4, <3>3, <3>4 DEF Linked
      <4> QED
        BY <1>9, <3>1, <4>1
    <3> QED
      BY <3>2, <3>4, <3>5, LinkStays
  <2> HIDE <1>1
  <2>7. keepInMemory' /\ w \notin DOMAIN files'
    BY <1>1, <1>4 DEF clientVars
  <2> QED
    BY <1>4, <2>3, <2>5, <2>6, <2>7 DEF Shrinking
<1>13. op'.kind \in {"delete", "idle"}
  BY <1>1, <1>5 DEF DeleteBlock, Idle, Operation
<1>14. Labelled(own, idx)'
  <2>1. \A m \in DOMAIN pageMap' : own[m] \in 1..writes'
    BY <1>1, <1>2, <1>7 DEF Labelled, clientVars
  <2>2. writes' > 0 => 0 \in OwnedBy(own, 1)'
    BY <1>1, <1>2, <1>4, <1>9 DEF Labelled, clientVars
  <2> QED
    BY <1>11, <1>12, <1>13, <2>1, <2>2 DEF Labelled
<1>15. ClientsOK'
  BY <1>1, <1>13 DEF ClientsOK, clientVars
<1> QED
  BY <1>10, <1>14, <1>15 DEF StoreInv

-----------------------------------------------------------------------------
(* lockBlock finds every block that an operation looks for.                 *)
LEMMA LockNeverFails ==
  ASSUME IInv, StoreInv, LockFails
  PROVE  FALSE
<1>1. op.kind \in {"write", "read", "delete"} /\ op.nr \notin DOMAIN pageMap
  BY DEF LockFails
<1>2. PICK own \in [Nat -> Nat], idx \in [Nat -> Nat] : Labelled(own, idx)
  BY <1>1 DEF StoreInv
<1> QED
  BY <1>1, <1>2 DEF Labelled, Growing, Fetched, Shrinking, OwnedBy

(* close.                                                                   *)
LEMMA CloseKeeps ==
  ASSUME IInv, StoreInv, Close
  PROVE  StoreInv'
<1>1. /\ CacheOK /\ RestOK /\ ClientsOK /\ NumbersOK
      /\ currentBlock = NoBlock /\ op' = [Idle EXCEPT !.kind = "closed"]
      /\ pageCacheDisk' = {} /\ files' = << >>
      /\ UNCHANGED <<numberVars, pageMap, currentBlock, keepInMemory, writes, answer>>
  BY OpenInvariant DEF Close, RestOK, Stop, StoreInv
<1>2. op'.kind = "closed"
  BY <1>1 DEF Idle
<1>3. DOMAIN heap' = DOMAIN heap /\ \A b \in DOMAIN heap : heap'[b].nr = heap[b].nr
  BY <1>1 DEF Close, CacheOK, WellFormed, Block
<1>4. NumbersOK'
  <2>1. Fits(pageMap, heap)'
    BY <1>1, <1>3 DEF NumbersOK, Fits, CacheOK, MapOK
  <2>2. FreeOK'
    BY <1>1 DEF NumbersOK, FreeOK, numberVars
  <2> QED
    BY <2>1, <2>2 DEF NumbersOK
<1>5. DOMAIN files' = {}
  BY <1>1, EmptySeq
<1>6. ClientsOK'
  BY <1>1, <1>2, <1>5 DEF ClientsOK, numberVars
<1> QED
  BY <1>2, <1>4, <1>6 DEF StoreInv

-----------------------------------------------------------------------------
(* Every step keeps the invariant.                                          *)
THEOREM NextStore == ASSUME Careful, IInv, StoreInv, [Next]_vars PROVE StoreInv'
<1>1. ASSUME NEW size \in Sizes, BeginWrite(size) PROVE StoreInv'
  BY <1>1, BeginWriteKeeps
<1>2. CASE WriteBlock
  BY <1>2, WriteMoreKeeps, WriteLastKeeps
<1>3. ASSUME NEW w \in DOMAIN files, BeginRead(w) PROVE StoreInv'
  BY <1>3, BeginReadKeeps
<1>4. CASE ReadBlock
  BY <1>4, ReadKeeps
<1>5. ASSUME NEW w \in DOMAIN files, BeginDelete(w) PROVE StoreInv'
  BY <1>5, BeginDeleteKeeps
<1>6. CASE DeleteBlock
  BY <1>6, DeleteKeeps
<1>7. CASE LockBlock
  BY <1>7, LockKeeps
<1>8. CASE LockFails
  BY <1>8, LockNeverFails
<1>9. CASE Close
  BY <1>9, CloseKeeps
<1>10. CASE UNCHANGED vars
  <2>1. /\ UNCHANGED <<cacheVars, numberVars, keepInMemory>>
        /\ UNCHANGED <<files, writes, answer, op, currentBlock>>
    BY <1>10 DEF vars, clientVars
  <2>2. /\ ClientsOK /\ NumbersOK'
        /\ \A own, w : OwnedBy(own, w)' = OwnedBy(own, w)
        /\ \A own, idx, w : Complete(own, idx, w) => Complete(own, idx, w)'
    BY <2>1, QuietStep DEF StoreInv
  <2>3. ClientsOK'
    BY <2>1, <2>2 DEF ClientsOK, cacheVars, numberVars
  <2>4. ASSUME NEW own \in [Nat -> Nat], NEW idx \in [Nat -> Nat], Labelled(own, idx)
        PROVE  Labelled(own, idx)'
    <3>1. op.kind = "write" => Growing(own, idx)'
      BY <2>1, <2>4
         DEF Labelled, Growing, Linked, Filled, Successor, StoredPiece, SwapIn, SwapServes,
             cacheVars, OwnedBy
    <3>2. op.kind = "read" => Fetched(own, idx)'
      BY <2>1, <2>4 DEF Labelled, Fetched, SwapServes, cacheVars, OwnedBy
    <3>3. op.kind = "delete" => Shrinking(own, idx)'
      BY <2>1, <2>4 DEF Labelled, Shrinking, Linked, Successor, cacheVars, OwnedBy
    <3>4. DOMAIN pageMap' = DOMAIN pageMap /\ OwnedBy(own, 1)' = OwnedBy(own, 1)
      BY <2>1, <2>2 DEF cacheVars
    <3> QED
      BY <2>1, <2>2, <2>4, <3>1, <3>2, <3>3, <3>4 DEF Labelled
  <2> QED
    BY <2>1, <2>2, <2>3, <2>4 DEF StoreInv
<1> QED
  BY <1>1, <1>2, <1>3, <1>4, <1>5, <1>6, <1>7, <1>8, <1>9, <1>10 DEF Next, OperationStep

(* StoreInv is an invariant under careful clients.                          *)
THEOREM StoreInvariance == ASSUME Careful PROVE Spec => [](IInv /\ StoreInv)
<1>1. Init => IInv /\ StoreInv
  BY InitInvariant, InitStore
<1>2. IInv /\ StoreInv /\ [Next]_vars => (IInv /\ StoreInv)'
  BY NextInvariant, NextStore
<1> QED
  BY <1>1, <1>2, PTL DEF Spec

(* What the invariant says of the blocks of stored images: they are in the  *)
(* map, so not free, and belong to one image.                               *)
LEMMA StoreFacts ==
  ASSUME IInv, StoreInv, op.kind # "closed"
  PROVE  \E own, idx \in [Nat -> Nat] :
           /\ Labelled(own, idx)
           /\ Len(heap) \in Nat /\ DOMAIN pageMap \subseteq Nat
           /\ \A w \in DOMAIN files : files[w].size \in Nat /\ Complete(own, idx, w)
<1>1. CacheOK /\ RestOK
  BY OpenInvariant
<1>2. Len(heap) \in Nat /\ DOMAIN pageMap \subseteq Nat /\ \A w \in DOMAIN files : files[w].size \in Nat
  BY <1>1, LenProperties DEF CacheOK, RestOK, WellFormed, MapOK, Numbers
<1> QED
  BY <1>2 DEF StoreInv, Labelled

(* Careful clients never meet a missing block or a chain that is longer     *)
(* than its image, even with a swap file that loses what is written to it.  *)
THEOREM NothingFails == ASSUME Careful PROVE Spec => [](op.kind # "fault")
<1>1. StoreInv => op.kind # "fault"
  BY DEF StoreInv, ClientsOK
<1> QED
  BY <1>1, StoreInvariance, PTL

(* No block of a stored image is free or part of another image, whatever is *)
(* written, read and deleted before.                                        *)
THEOREM NothingShared == ASSUME Careful PROVE Spec => []NoSharing
<1>1. ASSUME IInv, StoreInv PROVE NoSharing
  <2> SUFFICES ASSUME op.kind = "idle", NEW w \in Held
               PROVE  LET chain == ChainNumbers(files[w].ref) IN
                      /\ \A i \in DOMAIN freePages : freePages[i] \notin chain
                      /\ \A v \in Held \ {w} : chain \cap ChainNumbers(files[v].ref) = {}
    BY DEF NoSharing
  <2>1. PICK own \in [Nat -> Nat], idx \in [Nat -> Nat] :
          /\ Len(heap) \in Nat /\ DOMAIN pageMap \subseteq Nat
          /\ \A v \in DOMAIN files : files[v].size \in Nat /\ Complete(own, idx, v)
    BY <1>1, StoreFacts
  <2>2. \A v \in Held : v \in DOMAIN files /\ ChainNumbers(files[v].ref) \subseteq OwnedBy(own, v)
    BY <2>1, ChainIsOwn DEF Held
  <2>3. \A i \in DOMAIN freePages : freePages[i] \notin DOMAIN pageMap
    BY <1>1 DEF StoreInv, NumbersOK, FreeOK
  <2> QED
    BY <2>2, <2>3, SMTT(30) DEF OwnedBy
<1> QED
  BY <1>1, StoreInvariance, PTL

-----------------------------------------------------------------------------
(* A swap file that takes every write, or no swap file.                     *)
Reliable == SwapMayFail => FALSE \notin KeepModes

Blobs == [w \in DOMAIN files |-> StoredImage(w)]
Contents == [w \in DOMAIN files |-> Image(w, files[w].size)]

(* What the blocks hold is what was written.                                *)
LEMMA BlobsHold ==
  ASSUME Reliable, IInv, StoreInv
  PROVE  SwapServes /\ \A w \in DOMAIN files : StoredImage(w) = Image(w, files[w].size)
<1>1. SwapServes
  BY DEF SwapServes, Reliable, StoreInv, ClientsOK, IInv, TypeOK
<1>2. CASE op.kind = "closed"
  <2>1. DOMAIN files = {}
    BY <1>2, EmptySeq DEF StoreInv, ClientsOK
  <2> QED
    BY <1>1, <2>1
<1>3. CASE op.kind # "closed"
  <2>1. PICK own \in [Nat -> Nat], idx \in [Nat -> Nat] :
          /\ Len(heap) \in Nat /\ DOMAIN pageMap \subseteq Nat
          /\ \A w \in DOMAIN files : files[w].size \in Nat /\ Complete(own, idx, w)
    BY <1>3, StoreFacts
  <2> QED
    BY <1>1, <2>1, ChainHolds
<1> QED
  BY <1>2, <1>3

(* A function without arguments is the empty sequence.                      *)
LEMMA NoBlobs ==
  ASSUME NEW f, DOMAIN f = {}, f = [w \in DOMAIN f |-> f[w]]
  PROVE  f = << >>
<1>1. f \in [1..0 -> {}]
  OBVIOUS
<1>2. f \in Seq({})
  BY <1>1, SeqDef
<1>3. Len(f) = 0
  BY <1>2, LenProperties
<1> QED
  BY <1>2, <1>3, EmptySeq

(* A new cache file stores nothing.                                         *)
LEMMA BlobInit ==
  ASSUME Init PROVE Store!Init
<1>1. DOMAIN files = {} /\ answer = << >>
  BY EmptySeq DEF Init
<1>2. PICK f : f = Blobs
  OBVIOUS
<1>3. f = [w \in DOMAIN f |-> f[w]] /\ DOMAIN f = {}
  BY <1>1, <1>2 DEF Blobs
<1>4. f = << >>
  BY <1>3, NoBlobs
<1> QED
  BY <1>1, <1>2, <1>4 DEF Store!Init, Blobs

(* Every step of the class is a step of a store of blobs, or none.          *)
LEMMA BlobStep ==
  ASSUME Careful, IInv, StoreInv, IInv', StoreInv', [Next]_vars,
         Blobs = Contents, Blobs' = Contents', SwapServes
  PROVE  [Store!Next]_(Store!blobVars)
<1>1. ClientsOK /\ DOMAIN files \subseteq 1..MaxWrites /\ writes \in Nat
  <2>1. /\ ClientsOK /\ writes \in Nat
        /\ writes <= MaxWrites /\ DOMAIN files \subseteq 1..writes
    BY DEF StoreInv, ClientsOK, IInv, TypeOK
  <2>2. 1..writes \subseteq 1..MaxWrites
    BY <2>1, ClientAssumption
  <2> QED
    BY <2>1, <2>2
<1>2. ASSUME files' = files, answer' = answer
      PROVE  UNCHANGED Store!blobVars
  BY <1>2 DEF Store!blobVars, Blobs, Contents
<1>3. ASSUME NEW size \in Sizes, BeginWrite(size)
      PROVE  UNCHANGED Store!blobVars
  <2>1. size # 0
    BY DEF Careful
  <2>2. files' = files /\ answer' = answer
    BY <1>3, <2>1 DEF BeginWrite
  <2> QED
    BY <1>2, <2>2
<1>4. CASE WriteBlock
  <2>1. CASE op.count + 1 < BlocksRequired(op.size)
    BY <1>2, <1>4, <2>1 DEF WriteBlock
  <2>2. CASE ~(op.count + 1 < BlocksRequired(op.size))
    <3>1. files' = Put(files, op.w, [ref |-> op.head, size |-> op.size]) /\ answer' = answer
      BY <1>4, <2>2 DEF WriteBlock
    <3>2. op.w \in Nat \ {0} /\ op.w = writes /\ op.w \notin DOMAIN files /\ op.size \in Sizes
      BY <1>4, WriteFacts
    <3>3. PICK w, size : w = op.w /\ size = op.size
      OBVIOUS
    <3>4. w \in 1..MaxWrites
      BY <1>1, <3>2, <3>3, ClientAssumption DEF ClientsOK
    <3>5. /\ DOMAIN files' = DOMAIN files \cup {w} /\ files'[w].size = size
          /\ \A v \in DOMAIN files : files'[v] = files[v]
      BY <3>1, <3>2, <3>3 DEF Put
    <3>6. Contents' = [v \in DOMAIN Contents \cup {w} |-> IF v = w THEN Image(w, size) ELSE Contents[v]]
      BY <3>2, <3>3, <3>5 DEF Contents, Image, PiecesOf, Piece
    <3>7. w \notin DOMAIN Blobs
      BY <3>2, <3>3 DEF Blobs
    <3>8. Store!Store(w, Image(w, size))
      BY <3>1, <3>6, <3>7 DEF Store!Store, Blobs, Contents
    <3> QED
      BY <3>2, <3>3, <3>4, <3>8 DEF Store!Next
  <2> QED
    BY <2>1, <2>2
<1>5. ASSUME NEW w \in DOMAIN files, BeginRead(w)
      PROVE  UNCHANGED Store!blobVars
  BY <1>2, <1>5 DEF BeginRead, clientVars
<1>6. CASE ReadBlock
  <2>1. files' = files
    BY <1>6 DEF ReadBlock
  <2>2. CASE answer' = answer
    BY <1>2, <2>1, <2>2
  <2>3. CASE answer' # answer
    <3>1. PICK w : /\ w \in DOMAIN files /\ answer' = <<w, Image(w, files[w].size)>>
      BY <1>6, <2>3, ReadKeeps
    <3>2. w \in DOMAIN Blobs /\ answer' = <<w, Blobs[w]>> /\ Blobs' = Blobs
      BY <2>1, <3>1 DEF Contents
    <3>3. Store!Fetch(w)
      BY <3>2 DEF Store!Fetch, Blobs
    <3> QED
      BY <1>1, <3>1, <3>3 DEF Store!Next
  <2> QED
    BY <2>2, <2>3
<1>7. ASSUME NEW w \in DOMAIN files, BeginDelete(w)
      PROVE  Store!Next
  <2>1. files' = Without(files, w) /\ answer' = answer
    BY <1>7 DEF BeginDelete
  <2>2. /\ DOMAIN files' = DOMAIN files \ {w}
        /\ \A v \in DOMAIN files \ {w} : files'[v] = files[v]
    BY <2>1 DEF Without
  <2>3. Contents' = [v \in DOMAIN Contents \ {w} |-> Contents[v]] /\ w \in DOMAIN Contents
    BY <2>2 DEF Contents, Image, PiecesOf, Piece
  <2>4. Store!Discard(w)
    BY <2>1, <2>3 DEF Store!Discard, Blobs, Contents
  <2> QED
    BY <1>1, <2>4 DEF Store!Next
<1>8. CASE DeleteBlock
  BY <1>2, <1>8 DEF DeleteBlock, clientVars
<1>9. CASE LockBlock
  BY <1>2, <1>9 DEF LockBlock, clientVars
<1>10. CASE LockFails
  BY <1>2, <1>10 DEF LockFails, clientVars
<1>11. CASE Close
  <2>1. files' = << >> /\ answer' = answer
    BY <1>11 DEF Close
  <2>2. DOMAIN files' = {}
    BY <2>1, EmptySeq
  <2>3. PICK f : f = Contents'
    OBVIOUS
  <2>4. f = [w \in DOMAIN f |-> f[w]] /\ DOMAIN f = {}
    BY <2>2, <2>3 DEF Contents
  <2>5. f = << >>
    BY <2>4, NoBlobs
  <2>6. Store!Destroy
    BY <2>1, <2>3, <2>5 DEF Store!Destroy, Blobs
  <2> QED
    BY <2>6 DEF Store!Next
<1>12. CASE UNCHANGED vars
  BY <1>2, <1>12 DEF vars, clientVars
<1> QED
  BY <1>3, <1>4, <1>5, <1>6, <1>7, <1>8, <1>9, <1>10, <1>11, <1>12 DEF Next, OperationStep

(* The class is a store of blobs for every block size, cache size, set of   *)
(* image sizes and number of images, if its clients are careful and its     *)
(* swap file is reliable: what was written and not deleted is read back.    *)
THEOREM CacheFileIsBlobStore == ASSUME Careful, Reliable PROVE Spec => IsBlobStore
<1> DEFINE Holds == SwapServes /\ Blobs = Contents
           Inv == IInv /\ StoreInv
<1>1. Init => Store!Init
  BY BlobInit
<1>2. Inv => Holds
  <2> SUFFICES ASSUME Inv PROVE Holds
    OBVIOUS
  <2> QED
    BY BlobsHold DEF Blobs, Contents
<1>3. Inv /\ Inv' /\ Holds /\ Holds' /\ [Next]_vars => [Store!Next]_(Store!blobVars)
  BY BlobStep
<1>4. Spec => []Inv
  BY StoreInvariance
<1> HIDE DEF Holds, Inv
<1> QED
  BY <1>1, <1>2, <1>3, <1>4, PTL DEF Spec, IsBlobStore, Store!Spec

(* So what careful clients stored, and have not deleted, is what the blocks *)
(* hold whenever no operation is running.                                   *)
THEOREM WhatIsStoredStays == ASSUME Careful, Reliable PROVE Spec => []StoredIntact
<1>1. IInv /\ StoreInv => StoredIntact
  BY BlobsHold DEF StoredIntact
<1> QED
  BY <1>1, StoreInvariance, PTL
=============================================================================
