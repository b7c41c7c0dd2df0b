----------------------------- MODULE CacheFile -----------------------------
(***************************************************************************)
(* The class CacheFile (FreeImage/CacheFile.cpp): the spool in which a     *)
(* multi-page bitmap keeps the compressed images of its edited pages.      *)
(*                                                                         *)
(* A stored image is a chain of blocks.  Blocks live in a memory list;     *)
(* unless keepInMemory, the list is bounded by CacheSize and the block at  *)
(* its end is swapped to a file, slot nr of the file for block number nr.  *)
(* Numbers of deleted blocks are handed out again.                         *)
(*                                                                         *)
(* The public operations (writeFile, readFile, deleteFile) are sequences   *)
(* of steps, one per lockBlock and one per use of the locked block: the    *)
(* point is what an eviction in the middle of an operation may do.         *)
(*                                                                         *)
(* A Block object has an identity, its index in heap: two objects may      *)
(* carry the same number, because deleteBlock forgets an object that stays *)
(* in the lists.  The data of a block is <<w, k>>, piece k of the image    *)
(* that write w stored, or Garbage (a buffer never filled).                *)
(*                                                                         *)
(* Beside some helpers stand mutants of them, used by nothing: a property  *)
(* is tested by putting a mutant in the place of its helper.               *)
(***************************************************************************)
EXTENDS Integers, Sequences, FiniteSets

CONSTANTS
  CacheSize,    \* CACHE_SIZE: how many blocks may stay in memory
  BlockSize,    \* BLOCK_SIZE, in units of data
  Sizes,        \* the sizes of the images the clients store
  KeepModes,    \* the values of keep_in_memory under which open is called
  Pinned,       \* by keep_in_memory, the writes whose images are never deleted
  SwapMayFail,  \* whether a write to the swap file may fail (a full disk)
  MaxWrites     \* bound: how many images are ever stored

ASSUME CacheSizeAssumption == CacheSize \in Nat \ {0}
ASSUME BlockSizeAssumption == BlockSize \in Nat \ {0}
ASSUME ClientAssumption ==
  /\ Sizes \subseteq Nat
  /\ KeepModes \subseteq BOOLEAN
  /\ Pinned \in [BOOLEAN -> SUBSET Nat]
  /\ SwapMayFail \in BOOLEAN
  /\ MaxWrites \in Nat

VARIABLES
  heap,           \* every Block object made so far: [nr, next, data]
  pageCacheMem,   \* m_page_cache_mem, its back() first and its begin() last
  pageCacheDisk,  \* m_page_cache_disk: its order is never used
  freePages,      \* m_free_pages
  pageMap,        \* m_page_map: block number to Block object
  pageCount,      \* m_page_count
  currentBlock,   \* m_current_block, NoBlock for NULL
  keepInMemory,   \* m_keep_in_memory
  swap,           \* the swap file: block number to data
  op,             \* the public operation in progress with its locals
  files,          \* what the clients hold: write to [ref, size]
  writes,         \* how many writes were begun
  answer          \* the write and the data of the last finished readFile

cacheVars == <<heap, pageCacheMem, pageCacheDisk, pageMap, swap>>
numberVars == <<freePages, pageCount>>
clientVars == <<files, writes, answer>>
vars == <<cacheVars, numberVars, currentBlock, keepInMemory, op, clientVars>>

-----------------------------------------------------------------------------
NoBlock == 0
Piece(w, k) == <<w, k>>     \* writes are numbered from 1
NoData  == Piece(0, 0)      \* data == NULL
Garbage == Piece(0, 1)      \* a buffer that was never filled
Freed   == Piece(0, 2)      \* the object was deleted

(* m[k] = v of std::map.                                                   *)
Put(m, k, v) == [x \in DOMAIN m \cup {k} |-> IF x = k THEN v ELSE m[x]]
Without(m, k) == [x \in DOMAIN m \ {k} |-> m[x]]

Idle == [kind |-> "idle", w |-> 0, size |-> 0, nr |-> 0, count |-> 0,
         head |-> 0, out |-> << >>]
Stop(kind) == [Idle EXCEPT !.kind = kind]

(* nr_blocks_required of writeFile: one more than needed when the size is  *)
(* a multiple of the block size.                                           *)
OneBlockTooMany(size) == 2 + size \div BlockSize
BlocksRequired(size)  == 1 + size \div BlockSize

(* How many units the memcpy at offset s moves, as readFile and writeFile  *)
(* compute it; negative when a chain is longer than its image.             *)
CopyLength(s, size) == IF s + BlockSize > size THEN size - s ELSE BlockSize

-----------------------------------------------------------------------------
Init ==
  /\ heap = << >>
  /\ pageCacheMem = << >>
  /\ pageCacheDisk = {}
  /\ freePages = << >>
  /\ pageMap = << >>
  /\ pageCount = 0
  /\ currentBlock = NoBlock
  /\ keepInMemory \in KeepModes
  /\ swap = << >>
  /\ op = Idle
  /\ files = << >>
  /\ writes = 0
  /\ answer = << >>

(* The fwrite of an eviction, whose result is ignored: on a full disk the  *)
(* slot keeps what it had or is torn.                                      *)
SwapOut(nr, data) ==
  swap' \in {Put(swap, nr, data)} \cup
            (IF SwapMayFail THEN {swap, Put(swap, nr, Garbage)} ELSE {})

(* The fread of a block that comes back: a slot never written gives        *)
(* nothing and leaves the new buffer as it is.                             *)
NoSwapIn(nr) == Garbage
SwapIn(nr) == IF nr \in DOMAIN swap THEN swap[nr] ELSE Garbage

(* The ends of the memory list: push_front, and the block that cleanup     *)
(* calls the least used, which is the back().                              *)
PushBack(mem, block)  == <<block>> \o mem
PushFront(mem, block) == Append(mem, block)

MostUsed(mem)  == mem[Len(mem)]
LeastUsed(mem) == Head(mem)

TooLate(mem)  == ~keepInMemory /\ Len(mem) > CacheSize + 1
TooLarge(mem) == ~keepInMemory /\ Len(mem) > CacheSize

(* cleanupMemCache, on the lists, objects and map its caller has made.     *)
CleanupMemCache(mem, disk, objects, map) ==
  \/ /\ ~TooLarge(mem)
     /\ pageCacheMem' = mem
     /\ pageCacheDisk' = disk
     /\ heap' = objects
     /\ pageMap' = map
     /\ UNCHANGED swap
  \/ /\ TooLarge(mem)
     /\ LET old == LeastUsed(mem) IN
        /\ SwapOut(objects[old].nr, objects[old].data)
        /\ heap' = [objects EXCEPT ![old].data = NoData]
        /\ pageCacheMem' = Tail(mem)
        /\ pageCacheDisk' = disk \cup {old}
        /\ pageMap' = Put(map, objects[old].nr, old)

(* allocateBlock; NextNumber is the number it returns.                     *)
CountedNumber == IF freePages # << >> THEN Head(freePages) ELSE pageCount - 1
LastFreeNumber == IF freePages # << >> THEN freePages[Len(freePages)] ELSE pageCount
NextNumber == IF freePages # << >> THEN Head(freePages) ELSE pageCount

AllocateBlock(objects) ==
  /\ IF freePages # << >>
       THEN freePages' = Tail(freePages) /\ UNCHANGED pageCount
       ELSE pageCount' = pageCount + 1 /\ UNCHANGED freePages
  /\ LET block == Len(objects) + 1 IN
     CleanupMemCache(
       PushFront(pageCacheMem, block),
       pageCacheDisk,
       Append(objects, [nr |-> NextNumber, next |-> 0, data |-> Garbage]),
       Put(pageMap, NextNumber, block))

-----------------------------------------------------------------------------
(* writeFile.  An empty image is refused with 0, which its caller takes    *)
(* for a block number.                                                     *)
BeginWrite(size) ==
  /\ op.kind = "idle"
  /\ writes < MaxWrites
  /\ writes' = writes + 1
  /\ IF size = 0
       THEN /\ files' = Put(files, writes', [ref |-> 0, size |-> 0])
            /\ UNCHANGED <<cacheVars, numberVars, op>>
       ELSE /\ AllocateBlock(heap)
            /\ op' = [Idle EXCEPT !.kind = "write", !.w = writes', !.size = size,
                                  !.nr = NextNumber, !.head = NextNumber]
            /\ UNCHANGED files
  /\ UNCHANGED <<currentBlock, keepInMemory, answer>>

(* block->next, of a block with or without a successor.                    *)
Link(more) == IF more THEN NextNumber ELSE 0

(* The body of the loop once the block is locked: fill it, allocate and    *)
(* link its successor, unlock it.                                          *)
WriteBlock ==
  /\ op.kind = "write"
  /\ currentBlock # NoBlock
  /\ currentBlock' = NoBlock
  /\ LET more == op.count + 1 < BlocksRequired(op.size)
         length == CopyLength(op.count * BlockSize, op.size)
         filled == [heap EXCEPT ![currentBlock] =
                     [nr   |-> @.nr,
                      next |-> Link(more),
                      data |-> IF length > 0 THEN Piece(op.w, op.count + 1) ELSE @.data]]
     IN IF more
          THEN /\ AllocateBlock(filled)
               /\ op' = [op EXCEPT !.nr = NextNumber, !.count = @ + 1]
               /\ UNCHANGED files
          ELSE /\ heap' = filled
               /\ op' = Idle
               /\ files' = Put(files, op.w, [ref |-> op.head, size |-> op.size])
               /\ UNCHANGED <<pageCacheMem, pageCacheDisk, pageMap, swap, numberVars>>
  /\ UNCHANGED <<keepInMemory, writes, answer>>

(* readFile, of an image the client holds; an empty one is refused.        *)
BeginRead(w) ==
  /\ op.kind = "idle"
  /\ w \in DOMAIN files
  /\ files[w].size > 0
  /\ op' = [Idle EXCEPT !.kind = "read", !.w = w, !.size = files[w].size,
                        !.nr = files[w].ref]
  /\ UNCHANGED <<cacheVars, numberVars, currentBlock, keepInMemory, clientVars>>

(* The body of the loop once the block is locked; a negative length makes  *)
(* the memcpy run wild.                                                    *)
ReadBlock ==
  /\ op.kind = "read"
  /\ currentBlock # NoBlock
  /\ currentBlock' = NoBlock
  /\ LET length == CopyLength(op.count * BlockSize, op.size)
         next == heap[currentBlock].next
         out == IF length > 0 THEN Append(op.out, heap[currentBlock].data) ELSE op.out
     IN \/ /\ length < 0
           /\ op' = Stop("fault")
           /\ UNCHANGED answer
        \/ /\ length >= 0
           /\ next # 0
           /\ op' = [op EXCEPT !.nr = next, !.count = @ + 1, !.out = out]
           /\ UNCHANGED answer
        \/ /\ length >= 0
           /\ next = 0
           /\ op' = Idle
           /\ answer' = <<op.w, out>>
  /\ UNCHANGED <<cacheVars, numberVars, keepInMemory, files, writes>>

(* deleteFile: the client gives up the image and the number it held.       *)
BeginDelete(w) ==
  /\ op.kind = "idle"
  /\ w \in DOMAIN files \ Pinned[keepInMemory]
  /\ op' = [Idle EXCEPT !.kind = "delete", !.w = w, !.nr = files[w].ref]
  /\ files' = Without(files, w)
  /\ UNCHANGED <<cacheVars, numberVars, currentBlock, keepInMemory, writes, answer>>

(* The body of the loop once the block is locked: unlockBlock, then        *)
(* deleteBlock, which leaves the object where it is in the lists.          *)
DeleteBlock ==
  /\ op.kind = "delete"
  /\ currentBlock # NoBlock
  /\ currentBlock' = NoBlock
  /\ pageMap' = Without(pageMap, op.nr)
  /\ freePages' = Append(freePages, op.nr)
  /\ LET next == heap[currentBlock].next IN
     op' = IF next # 0 THEN [op EXCEPT !.nr = next] ELSE Idle
  /\ UNCHANGED <<heap, pageCacheMem, pageCacheDisk, swap, pageCount, keepInMemory,
                 clientVars>>

-----------------------------------------------------------------------------
(* lockBlock, found.                                                       *)
LockBlock ==
  /\ op.kind \in {"write", "read", "delete"}
  /\ currentBlock = NoBlock
  /\ op.nr \in DOMAIN pageMap
  /\ LET block == pageMap[op.nr]
     IN /\ currentBlock' = block
        /\ IF heap[block].data = NoData
             THEN CleanupMemCache(
                    PushFront(pageCacheMem, block),
                    pageCacheDisk \ {block},
                    [heap EXCEPT ![block].data = SwapIn(heap[block].nr)],
                    Put(pageMap, op.nr, block))
             ELSE CleanupMemCache(pageCacheMem, pageCacheDisk, heap, pageMap)
  /\ UNCHANGED <<numberVars, keepInMemory, op, clientVars>>

(* lockBlock, not found: deleteFile stops there, readFile and writeFile    *)
(* use the NULL pointer.                                                   *)
LockFails ==
  /\ op.kind \in {"write", "read", "delete"}
  /\ currentBlock = NoBlock
  /\ op.nr \notin DOMAIN pageMap
  /\ op' = IF op.kind = "delete" THEN Idle ELSE Stop("fault")
  /\ UNCHANGED <<cacheVars, numberVars, currentBlock, keepInMemory, clientVars>>

(* close, and the destructor: the objects in the two lists are deleted,    *)
(* the swap file is removed.                                               *)
Close ==
  /\ op.kind = "idle"
  /\ op' = Stop("closed")
  /\ pageCacheMem' = << >>
  /\ pageCacheDisk' = {}
  /\ heap' = [b \in DOMAIN heap |->
               IF b \in pageCacheDisk \/ \E i \in DOMAIN pageCacheMem : pageCacheMem[i] = b
                 THEN [heap[b] EXCEPT !.data = Freed]
                 ELSE heap[b]]
  /\ swap' = << >>
  /\ files' = << >>
  /\ UNCHANGED <<numberVars, pageMap, currentBlock, keepInMemory, writes, answer>>

OperationStep == WriteBlock \/ ReadBlock \/ DeleteBlock \/ LockBlock \/ LockFails

Next ==
  \/ \E size \in Sizes : BeginWrite(size)
  \/ \E w \in DOMAIN files : BeginRead(w) \/ BeginDelete(w)
  \/ OperationStep
  \/ Close

(* A public operation that was called runs to its end: the code is one     *)
(* thread, and nothing else is called on the object meanwhile.             *)
Spec == Init /\ [][Next]_vars /\ WF_vars(OperationStep)

-----------------------------------------------------------------------------
Numbers == Nat
Datum == Nat \X Nat
Block == [nr : Numbers, next : Numbers, data : Datum]
Operation == [kind : {"idle", "write", "read", "delete", "fault", "closed"},
              w : Nat, size : Nat, nr : Numbers, count : Nat, head : Numbers,
              out : Seq(Datum)]

(* Every variable of the class holds a value of its type, and the lists,   *)
(* the map and the pointer to the locked block refer to objects that were  *)
(* made (CacheFile.h).                                                     *)
TypeOK ==
  /\ heap \in Seq(Block)
  /\ pageCacheMem \in Seq(DOMAIN heap)
  /\ pageCacheDisk \subseteq DOMAIN heap
  /\ freePages \in Seq(Numbers)
  /\ DOMAIN pageMap \subseteq Numbers
  /\ \A nr \in DOMAIN pageMap : pageMap[nr] \in DOMAIN heap
  /\ pageCount \in Nat
  /\ currentBlock \in DOMAIN heap \cup {NoBlock}
  /\ keepInMemory \in BOOLEAN
  /\ DOMAIN swap \subseteq Numbers
  /\ \A nr \in DOMAIN swap : swap[nr] \in Datum
  /\ op \in Operation
  /\ writes \in Nat
  /\ DOMAIN files \subseteq Nat
  /\ \A w \in DOMAIN files : files[w] \in [ref : Numbers, size : Nat]

(* Each Block object is in exactly one of the two lists, once, until close *)
(* deletes it: no eviction, reload or deletion of a number leaks an object *)
(* or makes close delete it twice.  An object is in the disk list exactly  *)
(* when its buffer was given back, which is what lockBlock concludes from  *)
(* data == NULL when it splices the object out of the disk list.           *)
Listed(b, list) == \E i \in DOMAIN list : list[i] = b
Partition(mem, disk, objects) ==
  /\ \A i, j \in DOMAIN mem : mem[i] = mem[j] => i = j
  /\ \A b \in DOMAIN objects :
       /\ b \in disk <=> objects[b].data = NoData
       /\ Listed(b, mem) <=> objects[b].data \notin {NoData, Freed}
CachePartition == Partition(pageCacheMem, pageCacheDisk, heap)

(* With a swap file the blocks in memory never exceed CACHE_SIZE between   *)
(* two steps, although each cleanupMemCache evicts one block at most and   *)
(* nothing else bounds the list.                                           *)
ResidentBound == ~keepInMemory => Len(pageCacheMem) <= CacheSize

(* The block an operation has locked is not evicted under it: its buffer   *)
(* is there when readFile and writeFile copy to or from it.                *)
LockedResident == currentBlock # NoBlock => Listed(currentBlock, pageCacheMem)

-----------------------------------------------------------------------------
(* What is stored behind a block number: following map, next and swap file *)
(* as readFile would.  Chain(nr)[k] is the number of the block k links     *)
(* further on, End behind the last one.                                    *)
End == -1
Chain(nr) ==
  LET at[k \in 0..Len(heap)] ==
        IF k = 0 THEN nr
        ELSE LET previous == at[k - 1] IN
             IF previous \in DOMAIN pageMap /\ heap[pageMap[previous]].next # 0
               THEN heap[pageMap[previous]].next
               ELSE End
  IN at

ChainNumbers(nr) == {Chain(nr)[k] : k \in DOMAIN Chain(nr)} \ {End}

StoredPiece(nr) ==
  IF nr \notin DOMAIN pageMap THEN Garbage
  ELSE LET block == heap[pageMap[nr]] IN
       IF block.data = NoData THEN SwapIn(block.nr) ELSE block.data

PiecesOf(size) == (size + BlockSize - 1) \div BlockSize

StoredImage(w) ==
  [k \in 1..PiecesOf(files[w].size) |-> StoredPiece(Chain(files[w].ref)[k - 1])]

Image(w, size) == [k \in 1..PiecesOf(size) |-> Piece(w, k)]

(* The blocks of an image a client holds belong to it alone: they are      *)
(* neither free nor part of another image.  What deleteFile gives back and *)
(* what allocateBlock hands out must never cut into it.                    *)
Held == {w \in DOMAIN files : files[w].size > 0}
NoSharing ==
  op.kind = "idle" =>
    \A w \in Held :
      LET chain == ChainNumbers(files[w].ref) IN
      /\ \A i \in DOMAIN freePages : freePages[i] \notin chain
      /\ \A v \in Held \ {w} : chain \cap ChainNumbers(files[v].ref) = {}

(* The class is a store of blobs: every image that was written and not     *)
(* deleted can be read from its blocks, memory or swap file, at any time,  *)
(* and readFile returns it.                                                *)
Store == INSTANCE BlobStore WITH
  Names <- 1..MaxWrites,
  Payloads <- [w \in 1..MaxWrites |-> {Image(w, size) : size \in Sizes}],
  blobs <- [w \in DOMAIN files |-> StoredImage(w)],
  answer <- answer
IsBlobStore == Store!Spec

(* What a comment of the client says, for the runs that show what happens  *)
(* instead: "store the bitmap compressed in the cache for later writing".  *)
(* What was stored and not deleted is what the blocks hold.                *)
StoredIntact ==
  op.kind = "idle" => \A w \in DOMAIN files : StoredImage(w) = Image(w, files[w].size)

(* Every writeFile, readFile and deleteFile returns: no chain of blocks    *)
(* runs in a circle, is longer than its image (a negative memcpy length)   *)
(* or leads to a number without a block (a NULL pointer).                  *)
OperationsEnd == op.kind \in {"write", "read", "delete"} ~> op.kind = "idle"
=============================================================================
