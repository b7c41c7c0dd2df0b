----------------------------- MODULE MultiPage -----------------------------
(***************************************************************************)
(* The multi-page layer (FreeImage/MultiPage.cpp).  A multi-page bitmap is *)
(* a list of page blocks: spans of pages of the source file, and single    *)
(* pages kept compressed in the cache file.  Editing changes the list;     *)
(* closing writes all pages to a spool file, removes the original and      *)
(* renames the spool file to it.                                           *)
(*                                                                         *)
(* The cache file is what CacheFile promises (the module BlobStore), with  *)
(* the block numbers it hands out; images take one block here.  An image   *)
(* is Source(k), page k of the source file, or New(n), made by the client. *)
(* Saving goes page by page, closing file operation by file operation; the *)
(* process may die between any two of them.                                *)
(*                                                                         *)
(* Beside some helpers stand mutants of them, used by nothing: a property  *)
(* is tested by putting a mutant in the place of its helper.               *)
(***************************************************************************)
EXTENDS Integers, Sequences, SequencesExt, FiniteSets, FiniteSetsExt

CONSTANTS
  SourceSizes,  \* how many pages a source file may have
  Modes,        \* the ways of opening: see Init
  Habits,       \* what the clients do: "moved" when they lock pages that are
                \*   no longer where the source file has them, "beyond" when
                \*   they lock pages of the source file beyond the page count,
                \*   "delete beyond" when they delete there
  Failures,     \* what may fail: "encode", "source page", "cached page",
                \*   "spool", "remove", "rename", "crash"
  MaxPages,     \* bound: no page is added beyond so many
  MaxImages,    \* bound: how many images the clients make
  Absent        \* a file that does not exist

ASSUME BoundAssumption ==
  /\ SourceSizes \subseteq Nat
  /\ MaxPages \in Nat
  /\ MaxImages \in Nat
ASSUME ClientAssumption ==
  /\ Modes \subseteq {"file", "read only", "create", "handle"}
  /\ Habits \subseteq {"moved", "beyond", "delete beyond"}
  /\ Failures \subseteq {"encode", "source page", "cached page", "spool", "remove",
                         "rename", "crash"}

VARIABLES
  source,    \* the pages behind handle; nothing changes them while it is open
  file,      \* the file m_filename on disk, a sequence of images
  spool,     \* the spool file beside it
  mode,      \* how the bitmap was opened: handle, m_filename and read_only
  blocks,    \* m_blocks
  cache,     \* m_cachefile: its images by number, the free numbers, the count
  locked,    \* locked_pages: page number to the image handed out
  changed,   \* changed
  pageCount, \* page_count, -1 when it must be counted again
  phase,     \* how far closing, or saving elsewhere, has come
  save,      \* the locals of SaveMultiBitmapToHandle
  images,    \* how many images the clients have made
  call,      \* the last call that edits, shows, saves or closes, and its
             \*   arguments; nothing reads it
  answer,    \* the page last locked, or the whole bitmap last saved elsewhere
  result,    \* what CloseMultiBitmap returned
  crashed    \* whether the process died

diskVars == <<source, file, spool>>
bitmapVars == <<blocks, cache, changed, pageCount>>
closeVars == <<phase, save, result>>
vars == <<diskVars, mode, bitmapVars, locked, closeVars, images, call, answer, crashed>>

-----------------------------------------------------------------------------
Source(k) == <<"source", k>>
New(n) == <<"new", n>>
Missing == <<"missing", 0>>

(* Page blocks.  The two fields are a union in the code: first and last    *)
(* page of a span, or number and size of an image in the cache.            *)
Span(start, end) == [type |-> "continueus", val1 |-> start, val2 |-> end]
Reference(ref, size) == [type |-> "reference", val1 |-> ref, val2 |-> size]
PagesIn(b) == IF b.type = "continueus" THEN b.val2 - b.val1 + 1 ELSE 1
IsSinglePage(b) == b.type = "continueus" => b.val1 = b.val2

(* PagesThrough(bs)[i]: the pages in the first i blocks.                   *)
PagesThrough(bs) ==
  LET sum[i \in 0..Len(bs)] == IF i = 0 THEN 0 ELSE sum[i - 1] + PagesIn(bs[i])
  IN sum
Total(bs) == PagesThrough(bs)[Len(bs)]

(* FindBlock: Split is the list it leaves, BlockAt the block it returns.   *)
(* The clients' positions are not negative; one that is not Within the     *)
(* list ends in assert(false).                                             *)
Within(bs, position) == position < Total(bs)
BlockAt(bs, position) == Min({i \in DOMAIN bs : PagesThrough(bs)[i] > position})
Part(start, end) == IF start <= end THEN <<Span(start, end)>> ELSE << >>
SplitAt(bs, position, right) ==
  LET i == BlockAt(bs, position)
      b == bs[i]
      item == b.val1 + (position - PagesThrough(bs)[i - 1])
  IN IF IsSinglePage(b)
       THEN bs
       ELSE SubSeq(bs, 1, i - 1)
            \o Part(b.val1, item - 1) \o <<Span(item, item)>> \o Part(item + right, b.val2)
            \o SubSeq(bs, i + 1, Len(bs))
SplitOverlapping(bs, position) == SplitAt(bs, position, 0)
Split(bs, position) == SplitAt(bs, position, 1)

(* The cache file for images of one block.                                 *)
EmptyCache == [images |-> << >>, free |-> << >>, count |-> 0]
NewRef(c) == IF c.free # << >> THEN Head(c.free) ELSE c.count
WriteAs(c, image, ref) ==
  [images |-> [r \in DOMAIN c.images \cup {ref} |-> IF r = ref THEN image ELSE c.images[r]],
   free   |-> IF c.free # << >> THEN Tail(c.free) ELSE c.free,
   count  |-> IF c.free # << >> THEN c.count ELSE c.count + 1]
WriteAtTheEnd(c, image) == WriteAs(c, image, c.count)
WriteFile(c, image) == WriteAs(c, image, NewRef(c))
LeaveFile(c, ref) == c
FreeTwice(c, ref) ==
  IF ref \in DOMAIN c.images
    THEN [images |-> [r \in DOMAIN c.images \ {ref} |-> c.images[r]],
          free   |-> Append(c.free, ref),
          count  |-> c.count - 1]
    ELSE c
DeleteFile(c, ref) ==
  IF ref \in DOMAIN c.images
    THEN [c EXCEPT !.images = [r \in DOMAIN @ \ {ref} |-> @[r]],
                   !.free   = Append(@, ref)]
    ELSE c
ReadFile(c, b) ==
  IF b.val2 > 0 /\ b.val1 \in DOMAIN c.images THEN c.images[b.val1] ELSE Missing

(* The pages the list stands for.                                          *)
BlockPages(b) ==
  IF b.type = "continueus" THEN [k \in 1..PagesIn(b) |-> source[b.val1 + k]]
                           ELSE <<ReadFile(cache, b)>>
BitmapPages == FlattenSeq([i \in DOMAIN blocks |-> BlockPages(blocks[i])])

-----------------------------------------------------------------------------
HasHandle  == mode # "create"
FileBacked == mode # "handle"
ReadOnly   == mode = "read only"
NoSave == [target |-> "none", block |-> 1, page |-> 0, success |-> TRUE, out |-> << >>]

(* OpenMultiBitmap ("file", "read only" or "create" a new one), and        *)
(* OpenMultiBitmapFromHandle or LoadMultiBitmapFromMemory ("handle").      *)
Init ==
  /\ mode \in Modes
  /\ \E n \in SourceSizes :
       /\ source = IF HasHandle THEN [k \in 1..n |-> Source(k)] ELSE << >>
       /\ pageCount = Len(source)
  /\ file = IF FileBacked /\ HasHandle THEN source ELSE Absent
  /\ spool = Absent
  /\ blocks = IF HasHandle THEN <<Span(0, Len(source) - 1)>> ELSE << >>
  /\ cache = EmptyCache
  /\ locked = << >>
  /\ changed = FALSE
  /\ phase = "open"
  /\ save = NoSave
  /\ images = 0
  /\ call = [op |-> "open"]
  /\ answer = [page |-> -1, images |-> << >>]
  /\ result = "none"
  /\ crashed = FALSE

Open == phase = "open" /\ ~crashed

(* FreeImage_GetPageCount, also when other operations call it.             *)
CountPages == IF pageCount = -1 THEN Total(blocks) ELSE pageCount
GetPageCount ==
  /\ Open
  /\ pageCount' = CountPages
  /\ UNCHANGED <<diskVars, mode, blocks, cache, changed, locked, closeVars, images,
                 call, answer, crashed>>

StoreUnderLocks == ~ReadOnly
MayStore == ~ReadOnly /\ DOMAIN locked = {}
NewImage ==
  /\ images < MaxImages
  /\ images' = images + 1

(* The list has changed: the next GetPageCount counts again.               *)
RestructureOnly(bs) == blocks' = bs /\ changed' = TRUE /\ pageCount' = CountPages
Restructure(bs) ==
  /\ blocks' = bs
  /\ changed' = TRUE
  /\ pageCount' = -1

(* SavePageToBlock: the block it returns is Reference(NewRef(cache), 1);   *)
(* when the bitmap may not be changed, or compressing fails, nothing is    *)
(* stored and its callers do nothing.                                      *)
SavePageToBlock == cache' = WriteFile(cache, New(images'))

AppendPage ==
  /\ Open
  /\ MayStore
  /\ Total(blocks) < MaxPages
  /\ NewImage
  /\ SavePageToBlock
  /\ Restructure(Append(blocks, Reference(NewRef(cache), 1)))
  /\ call' = [op |-> "append", image |-> New(images')]
  /\ UNCHANGED <<diskVars, mode, locked, closeVars, answer, crashed>>

InsertPage(page) ==
  /\ Open
  /\ page < CountPages
  /\ MayStore
  /\ Total(blocks) < MaxPages
  /\ NewImage
  /\ SavePageToBlock
  /\ LET bs == Split(blocks, page)
         block == Reference(NewRef(cache), 1)
     IN Restructure(IF page > 0 THEN InsertAt(bs, BlockAt(bs, page), block)
                                ELSE <<block>> \o blocks)
  /\ call' = [op |-> "insert", page |-> page, image |-> New(images')]
  /\ UNCHANGED <<diskVars, mode, locked, closeVars, answer, crashed>>

DeletePage(page) ==
  /\ Open
  /\ MayStore
  /\ CountPages > 1
  /\ Within(blocks, page)
  /\ LET bs == Split(blocks, page)
         i == BlockAt(bs, page)
     IN /\ Restructure(RemoveAt(bs, i))
        /\ cache' = IF bs[i].type = "reference" THEN DeleteFile(cache, bs[i].val1)
                                                ELSE cache
  /\ call' = [op |-> "delete", page |-> page]
  /\ UNCHANGED <<diskVars, mode, locked, closeVars, images, answer, crashed>>

(* MovePage takes the page at position target and puts it before the one   *)
(* at position source.  The names say the opposite, and so do those of the *)
(* code's own variables: it calls the block at target block_source.        *)
MoveBefore(bs, i, j) == InsertAt(RemoveAt(bs, i), IF i < j THEN j - 1 ELSE j, bs[i])
MovedAsNamed(bs, target, page) ==
  LET t == Split(Split(bs, target), page)
  IN MoveBefore(t, BlockAt(t, page), BlockAt(t, target))
Moved(bs, target, page) ==
  LET t == Split(Split(bs, target), page)
  IN MoveBefore(t, BlockAt(t, target), BlockAt(t, page))
MovePage(target, page) ==
  /\ Open
  /\ MayStore
  /\ target # page
  /\ target < CountPages
  /\ page < CountPages
  /\ blocks' = Moved(blocks, target, page)
  /\ changed' = TRUE
  /\ pageCount' = CountPages
  /\ call' = [op |-> "move", page |-> target, before |-> page]
  /\ UNCHANGED <<diskVars, mode, cache, locked, closeVars, images, answer, crashed>>

(* LockPage takes the page from the source file, whatever the list says.   *)
(* It returns NULL, and nothing happens, for a page that is locked already *)
(* or cannot be loaded.                                                    *)
AtHome(page) ==
  Within(blocks, page)
  /\ LET i == BlockAt(blocks, page) IN
     /\ blocks[i].type = "continueus"
     /\ blocks[i].val1 - PagesThrough(blocks)[i - 1] = 0

MayLock(page) ==
  \/ AtHome(page)
  \/ "moved" \in Habits /\ Within(blocks, page)
  \/ "beyond" \in Habits

LockPage(page) ==
  /\ Open
  /\ HasHandle
  /\ MayLock(page)
  /\ page \in 0..(Len(source) - 1) \ DOMAIN locked
  /\ locked' = [p \in DOMAIN locked \cup {page} |->
                  IF p = page THEN source[page + 1] ELSE locked[p]]
  /\ call' = [op |-> "lock", page |-> page]
  /\ answer' = [page |-> page, images |-> <<source[page + 1]>>]
  /\ UNCHANGED <<diskVars, mode, bitmapVars, closeVars, images, crashed>>

Forget(page) == locked' = [p \in DOMAIN locked \ {page} |-> locked[p]]

(* UnlockPage of a page that was not changed, or may not be.               *)
UnlockPage(page) ==
  /\ Open
  /\ page \in DOMAIN locked
  /\ Forget(page)
  /\ UNCHANGED <<diskVars, mode, bitmapVars, closeVars, images, call, answer, crashed>>

(* UnlockPage of a changed page.  Nobody looks at whether compressing it   *)
(* failed: the empty result is stored, under the number 0 that writeFile   *)
(* returns for it.                                                         *)
UnlockChangedPage(page) ==
  /\ Open
  /\ page \in DOMAIN locked
  /\ ~ReadOnly
  /\ Within(blocks, page)
  /\ NewImage
  /\ LET bs == Split(blocks, page)
         i == BlockAt(bs, page)
         rest == IF bs[i].type = "reference" THEN DeleteFile(cache, bs[i].val1) ELSE cache
     IN \/ /\ cache' = WriteFile(rest, New(images'))
           /\ blocks' = ReplaceAt(bs, i, Reference(NewRef(rest), 1))
        \/ /\ "encode" \in Failures
           /\ cache' = rest
           /\ blocks' = ReplaceAt(bs, i, Reference(0, 0))
  /\ changed' = TRUE
  /\ Forget(page)
  /\ call' = [op |-> "replace", page |-> page, image |-> New(images')]
  /\ UNCHANGED <<diskVars, mode, pageCount, closeVars, answer, crashed>>

(* FindBlock does not find the position: "we should never go here".        *)
FindBlockFails ==
  /\ Open
  /\ ~ReadOnly
  /\ \/ \E page \in DOMAIN locked : ~Within(blocks, page)
     \/ "delete beyond" \in Habits /\ DOMAIN locked = {} /\ CountPages > 1
  /\ phase' = "assert"
  /\ UNCHANGED <<diskVars, mode, bitmapVars, locked, save, result, images, call, answer,
                 crashed>>

-----------------------------------------------------------------------------
(* SaveMultiBitmapToHandle and SaveMultiBitmapToMemory, called by the      *)
(* client.                                                                 *)
SaveElsewhere ==
  /\ Open
  /\ phase' = "saving"
  /\ save' = [NoSave EXCEPT !.target = "elsewhere"]
  /\ call' = [op |-> "save"]
  /\ UNCHANGED <<diskVars, mode, bitmapVars, locked, result, images, answer, crashed>>

(* The end of CloseMultiBitmap: pages still locked are unloaded, with the  *)
(* changes made to them, and the header goes.                              *)
Closed(ok) ==
  /\ phase' = "closed"
  /\ result' = IF ok THEN "success" ELSE "failure"
  /\ locked' = << >>

(* CloseMultiBitmap: with nothing to save, with a spool file that cannot   *)
(* be opened, or with one that is open.                                    *)
CloseMultiBitmap ==
  /\ Open
  /\ \/ /\ ~(changed /\ FileBacked)
        /\ Closed(TRUE)
        /\ UNCHANGED <<spool, save>>
     \/ /\ changed /\ FileBacked
        /\ "spool" \in Failures
        /\ Closed(FALSE)
        /\ UNCHANGED <<spool, save>>
     \/ /\ changed /\ FileBacked
        /\ spool' = << >>
        /\ phase' = "saving"
        /\ save' = [NoSave EXCEPT !.target = "spool"]
        /\ UNCHANGED <<locked, result>>
  /\ call' = [op |-> "close"]
  /\ UNCHANGED <<source, file, mode, bitmapVars, images, answer, crashed>>

Saving == phase = "saving" /\ ~crashed

(* Whether there is a page to save: success is looked at before a block,   *)
(* not before the next page of a span.                                     *)
BlocksLeft == save.block <= Len(blocks)
MorePages == save.block <= Len(blocks) /\ (save.page = 0 => save.success)

MayFail(b) == (IF b.type = "continueus" THEN "source page" ELSE "cached page") \in Failures

(* A reference to a number the cache does not know.                        *)
Dangling(b) == b.type = "reference" /\ b.val2 > 0 /\ b.val1 \notin DOMAIN cache.images

(* One page of SaveMultiBitmapToHandle, or a span of no pages.  A page that *)
(* is not written is a Missing one in out, which keeps the pages after it  *)
(* in the places that count, the code's number of pages saved, gives them. *)
SavePage ==
  /\ Saving
  /\ MorePages
  /\ ~Dangling(blocks[save.block])
  /\ LET b == blocks[save.block]
         image == BlockPages(b)[save.page + 1]
         last == save.page + 1 >= PagesIn(b)
     IN \E ok \in BOOLEAN :
       /\ PagesIn(b) > 0 => IF ok THEN image # Missing ELSE image = Missing \/ MayFail(b)
       /\ PagesIn(b) = 0 => ok
       /\ save' = [save EXCEPT
            !.success = ok,
            !.out     = IF PagesIn(b) = 0 THEN @ ELSE Append(@, IF ok THEN image ELSE Missing),
            !.block   = IF last THEN @ + 1 ELSE @,
            !.page    = IF last THEN 0 ELSE @ + 1]
  /\ spool' = IF save.target = "spool" THEN save'.out ELSE spool
  /\ UNCHANGED <<source, file, mode, bitmapVars, locked, phase, result, images, call, answer,
                 crashed>>

(* Two NULL pointers: LockPage seeks in the file that a bitmap made by     *)
(* create_new does not have, readFile uses the block it did not find.      *)
NullPointer ==
  /\ \/ Open /\ ~HasHandle /\ "moved" \in Habits
     \/ Saving /\ MorePages /\ Dangling(blocks[save.block])
  /\ phase' = "fault"
  /\ UNCHANGED <<diskVars, mode, bitmapVars, locked, save, result, images, call, answer,
                 crashed>>

(* Nobody looks at whether remove() removed anything.                      *)
TryRemove(was, is) == is = Absent \/ ("remove" \in Failures /\ is = was)

(* The return of SaveMultiBitmapToHandle; CloseMultiBitmap closes the      *)
(* spool file, and removes it unless all went well, which is what save     *)
(* keeps of it.                                                            *)
EndSave ==
  /\ Saving
  /\ ~MorePages
  /\ \/ /\ save.target = "elsewhere"
        /\ phase' = "open"
        /\ save' = NoSave
        /\ answer' = IF save.success THEN [page |-> -1, images |-> save.out] ELSE answer
        /\ UNCHANGED <<spool, locked, result>>
     \/ /\ save.target = "spool"
        /\ save.success
        /\ phase' = "spooled"
        /\ save' = [NoSave EXCEPT !.target = "spool"]
        /\ UNCHANGED <<spool, locked, result, answer>>
     \/ /\ save.target = "spool"
        /\ ~save.success \/ "spool" \in Failures
        /\ Closed(FALSE)
        /\ save' = NoSave
        /\ TryRemove(spool, spool')
        /\ UNCHANGED answer
  /\ UNCHANGED <<source, file, mode, bitmapVars, images, call, crashed>>

RemoveFile ==
  /\ phase = "spooled"
  /\ ~crashed
  /\ phase' = "removed"
  /\ TryRemove(file, file')
  /\ UNCHANGED <<source, spool, mode, bitmapVars, locked, save, result, images, call, answer,
                 crashed>>

(* rename() replaces a document that remove() left, or fails.              *)
RenameSpool ==
  /\ phase = "removed"
  /\ ~crashed
  /\ \/ /\ file' = spool
        /\ spool' = Absent
        /\ Closed(TRUE)
     \/ /\ "rename" \in Failures
        /\ Closed(FALSE)
        /\ UNCHANGED <<file, spool>>
  /\ UNCHANGED <<source, mode, bitmapVars, save, images, call, answer, crashed>>

(* The process dies while files are written; what is on disk stays.        *)
Crash ==
  /\ "crash" \in Failures
  /\ ~crashed
  /\ phase \in {"saving", "spooled", "removed"}
  /\ crashed' = TRUE
  /\ UNCHANGED <<diskVars, mode, bitmapVars, locked, closeVars, images, call, answer>>

SaveStep == SavePage \/ EndSave \/ RemoveFile \/ RenameSpool

Positions == 0..(Total(blocks) - 1)
Next ==
  \/ AppendPage
  \/ \E page \in Positions :
       \/ InsertPage(page)
       \/ DeletePage(page)
       \/ \E target \in Positions : MovePage(target, page)
  \/ \E page \in DOMAIN source : LockPage(page - 1)
  \/ \E page \in DOMAIN locked : UnlockPage(page) \/ UnlockChangedPage(page)
  \/ GetPageCount
  \/ FindBlockFails
  \/ NullPointer
  \/ SaveElsewhere
  \/ CloseMultiBitmap
  \/ SaveStep
  \/ Crash

(* Saving and closing are one call each and go on by themselves.           *)
Spec == Init /\ [][Next]_vars /\ WF_vars(SaveStep)

-----------------------------------------------------------------------------
Image == {Source(k) : k \in UNION {1..n : n \in SourceSizes}} \cup {New(n) : n \in 1..MaxImages}
Pages == Seq(Image)
Files == Seq(Image \cup {Missing})
Calls == {"open", "append", "insert", "delete", "move", "lock", "replace", "save", "close"}
ASSUME AbsentAssumption == Absent \notin Files

VariablesOK ==
  /\ source \in Pages
  /\ file \in Files \cup {Absent}
  /\ spool \in Files \cup {Absent}
  /\ mode \in Modes
  /\ blocks \in Seq([type : {"continueus", "reference"}, val1 : Nat, val2 : Int])
  /\ DOMAIN cache.images \subseteq Nat
  /\ \A r \in DOMAIN cache.images : cache.images[r] \in Image
  /\ cache.free \in Seq(Nat) /\ cache.count \in Nat
  /\ DOMAIN locked \subseteq Nat
  /\ \A p \in DOMAIN locked : locked[p] \in Image
  /\ changed \in BOOLEAN
  /\ pageCount \in Nat \cup {-1}
  /\ phase \in {"open", "saving", "spooled", "removed", "closed", "assert", "fault"}
  /\ save.target \in {"none", "spool", "elsewhere"}
  /\ save.block \in Nat \ {0} /\ save.page \in Nat /\ save.success \in BOOLEAN
  /\ save.out \in Files
  /\ images \in 0..MaxImages
  /\ answer.page \in Nat \cup {-1} /\ answer.images \in Files
  /\ result \in {"none", "success", "failure"}
  /\ crashed \in BOOLEAN
TypeOK == VariablesOK /\ call.op \in Calls

(* page_count is the number of pages of the list or says that it must be   *)
(* counted again: no edit leaves an old count behind, by which InsertPage  *)
(* and MovePage would check their positions.                               *)
CountIsCurrent == pageCount \in {-1, Total(blocks)}

(* A locked page keeps its position in the list, so that UnlockPage finds  *)
(* a block to put it in: no operation shortens the list under a lock.      *)
LockedWithin == phase \notin {"closed"} => \A p \in DOMAIN locked : Within(blocks, p)

(* Each image in the cache file belongs to exactly one block of the list:  *)
(* splitting, moving, replacing and deleting pages neither leak a cached   *)
(* image nor give two pages the same one.                                  *)
References == {i \in DOMAIN blocks : blocks[i].type = "reference"}
EachImageOnce ==
  /\ \A i, j \in References : blocks[i].val1 = blocks[j].val1 => i = j
  /\ DOMAIN cache.images = {blocks[i].val1 : i \in References}

(* No page of the source file stands in the list twice.                    *)
SourcePagesOnce ==
  \A i, j \in DOMAIN blocks \ References :
    i # j => \/ blocks[i].val2 < blocks[j].val1
             \/ blocks[j].val2 < blocks[i].val1

(* The places of pages that may be missing from what is saved although     *)
(* saving succeeds: the next page of their span overwrites the failure.    *)
Unnoticed ==
  UNION {{PagesThrough(blocks)[k - 1] + j :
            j \in IF "source page" \in Failures THEN 1..(PagesIn(blocks[k]) - 1) ELSE {}} :
         k \in DOMAIN blocks}

(* A multi-page bitmap is a sequence of pages.  A step is what the call    *)
(* says with its arguments: no other page is deleted, replaced or moved,   *)
(* and none goes to another place.  A locked page is the one at that       *)
(* position.  Closing replaces the document on disk at once by all the     *)
(* pages (but for unnoticed ones) or not at all, whatever fails and        *)
(* wherever the process dies; between remove and rename the document is    *)
(* the spool file.                                                         *)
SpoolIsDocument ==
  file = Absent /\ spool # Absent /\ phase \in {"removed", "closed"} /\ save.target = "spool"
Document == IF file # Absent THEN file ELSE IF SpoolIsDocument THEN spool ELSE << >>

Sequence == INSTANCE PageSequence WITH
  Documents <- {[k \in 1..n |-> Source(k)] : n \in SourceSizes \cup {0}},
  Images <- {New(n) : n \in 1..MaxImages},
  NoPage <- Missing,
  pages <- BitmapPages,
  document <- Document,
  backed <- FileBacked,
  call <- call,
  answer <- answer,
  result <- result,
  unnoticed <- Unnoticed
IsPageSequence == Sequence!Spec

(* The document is never lost, whatever fails, whatever the clients do and *)
(* wherever the process dies: it is the file as it was, or the file is     *)
(* gone and the spool file holds all the pages, or the file holds them and *)
(* the spool file is gone, which is when closing returns success.          *)
Original == IF FileBacked /\ HasHandle THEN source ELSE Absent
DocumentKept ==
  \/ file = Original /\ (result = "success" => ~changed \/ ~FileBacked)
  \/ file = Absent /\ spool # Absent /\ Sequence!Complete(spool) /\ result # "success"
  \/ file # Absent /\ Sequence!Complete(file) /\ spool = Absent /\ result = "success"

(* Closing, once it has begun to save, ends, unless the process dies.      *)
CloseEnds == phase = "saving" ~> phase \in {"open", "closed"} \/ crashed

(* What the comments of the code say, for the runs that show what happens  *)
(* instead.                                                                *)
(*                                                                         *)
(* LockPage and UnlockPage mean the same page: the image shown for a       *)
(* position is the one that "the block that matches the given position"    *)
(* holds, and there is such a block.                                       *)
LockedIsAtPosition ==
  \A p \in DOMAIN locked : Within(blocks, p) /\ BitmapPages[p + 1] = locked[p]

(* "write all the pages to the file", before the document is replaced.     *)
AllPagesWritten == result = "success" /\ changed /\ FileBacked => file = BitmapPages
=============================================================================
