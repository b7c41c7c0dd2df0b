# Verification of libimage

TLA+ models of the stateful parts of libimage, a C++ image wrapper (`src/image`) with its applications
(`src/applications`) over a bundled FreeImage (`src/FreeImage`), the TLC runs that check them on small
instances, and TLAPS proofs of the theorems that hold for every value of the constants. `PROJECT.json` maps
every definition to the lines it models and lists the hazards, runs, mutants, findings and theorems.

## Inventory

| Part | State | Operations | What must hold |
|---|---|---|---|
| Page cache: `CacheFile.cpp/.h` | block objects in a memory and a disk list, map from number to object, free numbers, locked block, swap file | `open`, `writeFile`, `readFile`, `deleteFile`, `close`; inside them `allocateBlock`, `lockBlock`, `unlockBlock`, `deleteBlock`, `cleanupMemCache` | what was written can be read until it is deleted; no two images share a block; memory is bounded; the locked block is not evicted |
| Multi-page bitmaps: `MultiPage.cpp` | list of page blocks, cached count, locked pages, `changed`, the cache, document and spool file on disk | open (four ways), count, append, insert, delete, move, lock, unlock, save to handle or memory, close | an edit does what its name says; no cached image leaks or is shared; closing replaces the document by all pages or not at all |
| Memory streams: `MemoryIO.cpp`, `FreeImageIO.cpp/.h` | buffer, `data_length`, `file_length`, `current_position`, `delete_me` | open, read, write, seek, tell, acquire | a file of bytes; the buffer covers it; a user's buffer is read-only (it is not, see below) |
| Stream adapters of the wrapper: `image.cpp:325-413` | an `iostream` with its position and its failbit | `ReadProc`, `WriteProc`, `SeekProcR/W`, `TellProcR/W` | a file of bytes until the stream fails; a plugin that looks at the answers learns of every loss but the last |
| The wrapper `img::Image`: `image.h`, `image.cpp` | an owned bitmap or none, its format, and the static object of `ImageInitializer` | load, save, clone, convert, clip, resize, rotate, paste, pixel access; the library's life cycle | every thread with an image finds the library initialised; one owner per bitmap |
| Plugin registry: `Plugin.cpp`, `GetType.cpp` | reference count, list of plugins, enabled flags | initialise, deinitialise, register, look up, detect a format | built once, gone after the last release; detection goes by content and leaves the position alone |
| GIF plugin: `PluginGIF.cpp` | a `StringTable` with its bit buffer, its code table and its input; the sub-blocks of the file; while playing back, the canvas | save a frame, scan a file, load a frame, play back a frame | every pixel arrives where it was; a file that was cut off is refused; playback shows what a viewer sees |
| Tile extractor: `imageExtractor.cpp` | a grid of starting points and sizes | one clip per tile | tiles of the requested size that do not overlap |
| Bitmap memory and pixel access | one allocation per bitmap | allocate, unload, clone, get and set pixels | layout arithmetic |
| Other formats, conversions, toolkit, metadata, codecs | none between calls | sequential transformations of large data | not modelled, see below |

How they interact: the wrapper and the applications call FreeImage; FreeImage calls a format plugin through the
registry; plugins reach their data through the four procedures of a `FreeImageIO`, which are those of a `FILE`,
a memory stream or the wrapper's stream adapters. A multi-page bitmap owns a page cache, reads source pages with
a plugin, compresses edited ones to a memory stream and stores that in the cache.

Threads meet in one place: programs that use the wrapper from several threads construct their first `Image`s at the
same time, and `FreeImage_Initialise` counts its users without a lock. What keeps them apart is the static object
inside `ImageInitializer`'s constructor. After that a bitmap and a stream belong to one thread, and the list of
plugins is only read, but for the flags that switch plugins off. The one pool of threads in the tree (OpenEXR's
IlmThread) is compiled without threads, since `IlmBaseConfig.h` undefines `HAVE_PTHREAD`.

Otherwise, what is hard is **long sequences of legal calls** (numbers that come back in another order, objects that
outlive their number, an edited list beside an unedited source, tables that fill up and start again), **evictions in
the middle of an operation**, **buffers at their limit** (a code with no room in an output array, a sub-block that is
full in the middle of a code), **partial failure** (disk, memory, one page of many, rename after remove, writes
nobody looks at, short reads) and **a crash between two file operations**.

## Modules

| Module | Models | State and actions in the code |
|---|---|---|
| `BlobStore` | the promise of the page cache | store, fetch and discard a blob |
| `CacheFile` | the class `CacheFile` | one variable per member; a public operation is a sequence of steps: `BeginX`, then `LockBlock` or `LockFails` (`lockBlock`), then one body of its loop (`WriteBlock`, `ReadBlock`, `DeleteBlock`). `CleanupMemCache` is part of every step that allocates or locks |
| `CacheFileProofs` | | theorems about `CacheFile` |
| `PageSequence` | the promise of a multi-page bitmap | a sequence of pages, a document on disk; one action per call, which does what the call says with the positions and the image it names |
| `MultiPage` | `MultiPage.cpp` | one action per API function; `SavePage` is one page of `SaveMultiBitmapToHandle`; `EndSave`, `RemoveFile`, `RenameSpool` are the file operations of closing; `Crash` may come between any two; `remove` and `rename` may fail. `call` records the last call and its arguments, for `PageSequence`. `Split` is what `FindBlock` does to the list, `BlockAt` what it returns |
| `ListLemmas` | | facts about numbers and sequences the proofs about lists and chains of blocks rest on |
| `MultiPageProofs` | | theorems about `MultiPage`: invariants, and the refinement of `PageSequence` |
| `ByteFile` | the promise of a `FreeImageIO` to the plugins | read, write, seek, tell with the meaning of `fread` and the like |
| `MemoryIO` | memory streams | `BeginWrite`, a `Grow` per reallocation, `CopyIn`; `LargestIsFull` and `NoMemory` are the two failures of a write; reads, seeks and the rest are one step |
| `MemoryIOProofs` | | theorems about `MemoryIO` |
| `PluginList` | `Plugin.cpp`, `GetType.cpp`, the constructor and destructor of the shared library, `ImageInitializer` | `refs` and `plugins` are the two static variables; `ReadCount`, `WriteCount` and one `AddNode` per plugin are the steps of `FreeImage_Initialise`; `Validate` is one turn of the loop that detects a format |
| `StreamIO` | the four stream procedures of `image.cpp` | one step per call of `istream::read` or `ostream::write`; telling and seeking are one step |
| `ImageStreams` | composes the two: threads that load, save and detect | a load or save is any sequence of requests, between `Begin` and `End`; `trusts` and `short` record what was answered and what was lost |
| `ImageStreamsProofs` | | theorems about `ImageStreams`: the list, and the streams |
| `PictureTransfer` | the promise of saving and loading a picture | a cell is filled once, with the pixel that was saved |
| `GifSave` | the coder of `StringTable` and the loop of `Save` | `FirstPixel`, `ExtendPrefix` and `EmitCode` are the three ways of a pixel through `Compress`; `FinishLine`, `FinishSave` are the rest of `Save`, or `OverrunLast` where the array `last` is too short; `Store` is a write that may come short |
| `GifLoad` | the scan of `Open`, the decoder and the loop of `Load` | `ReadBlock` per sub-block, `TakeByte`, then `TakeCode`, `TakeClearCode` or `TakeEndCode` per code, `ShowPixel` per pixel |
| `GifCodec` | the properties of both | |
| `GifCodecProofs` | | theorems about the coder in `GifCodec`, and what the bytes it writes mean |
| `GifTransferProofs` | | theorems about loading what was saved |
| `Animation` | what a viewer sees of an animated GIF | drawing and disposing of a frame |
| `GifPlayback` | `Load` with `GIF_PLAYBACK` | `Scan` per frame looked at, `DrawPage` per frame from the start on |
| `GifPlaybackProofs` | | theorems about `GifPlayback` |
| `MCCacheFile`, `MCMultiPage`, `MCMemoryIO`, `MCImageStreams`, `MCGifCodec`, `MCGifPlayback` | | values of constants for TLC |

Five pairs state a refinement: `CacheFile` implements `BlobStore` (`IsBlobStore`), `MultiPage` implements
`PageSequence` (`IsPageSequence`), `MemoryIO` implements `ByteFile` (`IsByteFile`), the adapters behave like the same
`ByteFile` in every step in which the stream does not fail (`LikeAFile`), and coder, file and decoder together
implement `PictureTransfer` (`IsTransfer`). `ShowsFrame` relates playback to `Animation` in the same spirit, as
an invariant of the result. The refinement mappings say
what the user can see: the image stored under a reference is what following map, `next` and swap file gives; the
pages of a bitmap are what its list of blocks stands for, and its calls are those of the program; the document is the file, or the spool file while the
file is removed; the contents of a memory stream are the first `file_length` bytes of its buffer; those of a C++ stream, while a
request is served, are what they were when it began.

Data is abstract: a cached image is a sequence of pieces `<<w, k>>` (piece k of write w), a page image is
`Source(k)` or `New(n)`, a byte is told apart by the write it came from, a frame of an animation by its number. A
block number that does not fit, a stale object or a torn slot shows as a wrong piece. Only the LZW codec has real
numbers in it (codes, bit buffers, bytes), because there the arithmetic is what could be wrong; the widths of bytes
and codes are parameters.

## Runs

| Run | Expectation | What it shows |
|---|---|---|
| `cache_structure` | pass | with and without a swap file, with a swap file that may be full, and for clients that delete anything: every object is in one list (`CachePartition`), memory is bounded (`ResidentBound`), the locked block is in memory (`LockedResident`) |
| `cache_store` | pass | images do not share blocks (`NoSharing`), the class is a store of blobs (`IsBlobStore`) and every operation ends (`OperationsEnd`), for the clients described below |
| `cache_zombie` | violation of `StoredIntact` | the object of a deleted block stays in the lists; evicted later, it takes the map entry and the swap slot of the block that has its number now |
| `pages_edit` | pass | each call does to a sequence of pages what it says with its arguments, and closing replaces the document by all of them or not at all (`IsPageSequence`, which includes the crash and all failures but that of compressing), cached images belong to one block each (`EachImageOnce`), locked positions stay in the list (`LockedWithin`) and keep their pages (`LockedIsAtPosition`), closing ends (`CloseEnds`) |
| `pages_reckless` | pass | with every failure and with clients that lock and delete at any position: `CountIsCurrent`, `SourcePagesOnce`, and the document is at every moment the old file or whole (`DocumentKept`) |
| `pages_position` | violation of `LockedIsAtPosition` | `LockPage` numbers pages by the source, `UnlockPage` by the edited list |
| `pages_lostpage` | violation of `AllPagesWritten` | a failed page of a span is forgotten when a later one succeeds, and the document is replaced without it |
| `memory_stream` | pass | a stream is a file of bytes (`IsByteFile`), the buffer covers it (`BufferCovers`), writes end (`WritesEnd`), all three for wrapped buffers as well, which one entry point writes into |
| `image_streams` | pass | two threads and the loader of a shared library find one complete list (`ListThere`) and get in (`OthersLetIn`); detection goes by content (`DetectsByContent`); a request overstates what it moved by less than an item (`OverstatesOneItem`), so that only the last loss can go unnoticed (`LossOnlyAtTheEnd`); until it fails a stream is a file (`LikeAFile`); requests end (`RequestsEnd`) |
| `gif_codec` | pass | pixels arrive in their places (`IsTransfer`); of one that does not, the row is one that short interlaced pictures lose, or the codes left in the bits stand for it (`OnlyKnownLosses`); through sub-blocks that can be read back (`SubBlocksWellFormed`) and a bit buffer that fits an `int` (`CoderInRange`, `DecoderInRange`, `Leftover`), of which the end overruns its array only where a byte or more was left over (`Leftover`); both directions end, also when the disk is full (`LoadEnds`) |
| `gif_lastcode` | violation of `EveryPixelArrives` | a code put back "for next time" is lost when no byte follows it |
| `gif_playback` | pass | frames that are skipped, and those before the start, do not show (`KeepsUp`, `ShowsFrame`), where the flags of the frames before the last are read and not misread (`WellRead`) |

Each violation run refutes something the code's own comments say; `PROJECT.json` quotes them. They also explain
the clients of the passing runs. In `cache_store` the clients are those for which the promise holds: kept in
memory, the first image is never deleted (else number 0 comes back, see below); with a swap file, nothing is deleted (else
`cache_zombie`), and the disk does not fill up (the result of the swapping `fwrite` is ignored, an image may be
lost). In `pages_edit` clients lock pages that are where the source has them (else `pages_position`), and
compressing succeeds (else an empty cache entry, see below). Loading source pages may fail; the pages whose failure
the next page of their span overwrites (`Unnoticed`, the subject of `pages_lostpage`) may be missing from what is
saved, in their places, and no others. In `gif_codec` two errors are exempt, cell by cell: the rows of a
`ShortInterlaced` picture, and the pixels that the codes still waiting in the bits stand for (`PixelsLeft`, what
`Decompress` would return if it was called once more; the subject of `gif_lastcode`). The second exemption is not
for the rest of the picture whatever it is: the left codes have to be those of the pixels that are missing.

### Known divergences without a run of their own

Each is kept in the model, as a guard, an exemption or a value of a constant named here.

- `CacheFile.cpp:217`: number 0, free again after the first image is deleted, can become the later block of a chain,
  where `next = 0` reads as the end: the image is cut off. It violates `StoredIntact`, like `cache_zombie`.
- `MultiPage.cpp:752`: a changed page that cannot be compressed is replaced by an empty cache entry, under number 0.
  `pages_reckless` goes through this failure; its properties survive it, the page does not.
- `MultiPage.cpp:893`: saving a whole multi-page bitmap to a stream over a user's buffer writes into the buffer, or
  reallocates it, where `FreeImageIO.h:34` says read only. The two entry points for single images look at
  `delete_me`, this one does not, nor does the procedure that writes: in the model `BeginWrite` goes on with wrapped
  buffers too, and what is checked of streams is checked of those as well.
- `MultiPage.cpp:781-791`: `FreeImage_MovePage(bitmap, target, source)` (`FreeImage.h:876`) moves the page at
  `target` before the page at `source`; the names say the opposite, and nothing but names says anything. In
  `PageSequence` a move is of the page at its first position; put `MovedAsNamed` in the place of `Moved` and
  `IsPageSequence` fails.
- `PluginGIF.cpp:937` and `:1339`: an interlaced picture of two to four rows loses all but the first, saving and
  loading alike (`ShortInterlaced`).
- `PluginGIF.cpp:1347`: `BYTE last[4]` takes up to six bytes from `CompressEnd`, an overrun of the stack
  (`OverrunLast`). The comment at `:274-276` counts 7 bits in `m_partial` to start with, which is wrong when a
  sub-block has just been filled in the middle of a code, or a clear code was added. `gif_codec` goes through it (with
  the picture `Stepped`, whose end is a full table and a full sub-block); `Leftover` says when it happens and by how
  much.
- `PluginGIF.cpp:726`: a frame without a graphic control extension is played back as if it were transparent and
  disposed of by the background (`AsRead`), where a viewer leaves it. `KeepsUp` and `ShowsFrame` compare with the
  viewer who reads the flags right, and say nothing where the scan of `Load` has misread a frame before the one that
  is asked for (`WellRead`); drop `WellRead` and TLC shows the difference.
- `PluginGIF.cpp:1328-1370`: `Save` looks at no write and returns TRUE for a file that is cut off. It is refused when
  it is loaded (`LoadEnds` rests on the scan of `Open`).
- `image.cpp:359` and `:372`: an incomplete last item is reported as read, or written. A plugin that reads or writes
  its pixels as one item (`PluginBMP.cpp:158`, `:1482`) reports success for a picture that is not there.

### Bounds and why they are enough

- Cache: two blocks of memory and two units per block give eviction, reload and a chain of up to three blocks with
  images that are empty, smaller than, equal to and larger than whole blocks. Three writes (`cache_structure`) and
  four (`cache_store`) let numbers be freed, come back in another order and meet the objects of their predecessors;
  both known corruptions need at most four writes. A limit of one block adds nothing: every lock evicts.
- Pages: three source pages have a first, an inner and a last page to split at; two new images over them give
  blocks of both types in every order, deletion and reuse of cache numbers; an empty document (0 pages) and one
  that is new are in the run as well. `pages_reckless` has two source pages, with every failure and habit: the split
  into three blocks is in `pages_edit` and in the proof.
- Streams: the first size 2 and `Half` 3 make a buffer of 0, 2, 4 and `Top` 5 units, so that doubling, the jump to
  the largest size and the refusal happen; positions up to 6 reach behind the end of the largest buffer. That the
  real sizes behave alike is what the proofs are for.
- Image streams: two threads, since a third waits where the second does, and the loader, present or not; three
  plugins, among them the two that detection treats apart, each of which may fail to be added. A stream of up to three
  bytes, items of 0 to 2 bytes and counts of 1 and 2 give requests that are short by nothing, by part of an item and
  by items, from every position; one label for written bytes, which also carry
  their place in the write. What a
  plugin does to a stream is explored with a complete list, and detection without a stream (`Explored`, `work`): the
  two share only the list.
- GIF codec: bytes of 6 bits, codes of up to 7, sub-blocks of 20 bytes, four bytes for the last codes, an array of
  128 pixels (the least the array may be, as 4096 is for 12 bits). With these numbers every shape of small picture is
  saved (all patterns of 7x1 and 2x3, heights 1 to 11 with and without interlacing), codes grow through all sizes,
  tables fill up and are cleared on either side of a sub-block's end, and both arrays, that of `Decompress` and
  `last`, find no room. The ratio of bytes to codes differs from 8 to 12, so the properties are stated in terms of the
  parameters.
- Playback: up to three frames on two cells. The scan looks at one frame at a time and drawing goes frame by frame, so
  three show every combination of neighbours; the proofs cover any number.

### Fairness

`WF_vars(OperationStep)`, `WF_vars(SaveStep)`, `WF_vars(WriteStep)`, `WF_vars(Works)`: a call that was made goes on to
its return. The code is one thread without waiting or callbacks in these loops, so the step that is due is always
enabled and taken. `WF_vars(Initialises /\ ...)`: of the threads that initialise the library one is always running,
and it waits for nothing. `WF_vars(Next)` in `GifCodec`: saving and loading are one loop after the other, without a
client in between. Nothing is assumed about clients: they may stop calling at any time, and need not come. In
`MemoryIO` a failing reallocation is not part of the fair action, so writes must end without it. `CHECK_DEADLOCK FALSE`
stands where the system may stop: a cache or bitmap that was closed, a process that died, a picture that is loaded or
refused, a program at its end. Memory streams never stop; deadlock is checked.

## Proofs

`CacheFileProofs` (for every `CacheSize` and `BlockSize` of at least 1, every set of image sizes, both modes, with
or without a failing swap file, and any clients):

- `TypeCorrectness`: `Spec => []TypeOK`;
- `EachBlockInOneList`: `Spec => []CachePartition`;
- `MemoryIsBounded`: `Spec => []ResidentBound`;
- `LockedStaysResident`: `Spec => []LockedResident`.

`cleanupMemCache` evicts one block at most, so the three invariants need each other: a block that is locked in
memory is not evicted because the list is within its bound; one that is reloaded is put in front, the victim is
taken from the back, and the two differ because the list is then longer than `CacheSize >= 1`; the bound holds again
afterwards because it held before. The inductive invariant `IInv` joins them with `TypeOK` and with what the
partition rests on: no slot of the swap file holds the marks for "no buffer" and "deleted" (`lockBlock` decides from
`data == NULL` which list to splice from), no object is deleted before `close`, no block is locked between
operations, and an operation that writes has a write to its name.

For the same constants, and clients that are careful:

- `NothingShared`: `Spec => []NoSharing`, given `Careful`;
- `NothingFails`: `Spec => [](op.kind # "fault")`, given `Careful`;
- `CacheFileIsBlobStore`: `Spec => IsBlobStore`, the refinement, given `Careful` and `Reliable`;
- `WhatIsStoredStays`: `Spec => []StoredIntact`, given the same.

`Careful` says of the clients what `cache_store` does: no empty image is stored (`writeFile` returns 0 for it, which
is the number of the first image), the image that holds block 0 is kept (`next = 0` is the end of a chain), and with
a swap file nothing is deleted (`cache_zombie`). `MultiPage.cpp` itself keeps the first of these unless compressing
fails, and none of the others: the theorems say how far the class can be relied on, the violation run that it cannot
be relied on further. `Reliable` says that a swap file, if there is one, takes every write (`CacheFile.cpp:97` does
not look); the first two theorems do without it.

The inductive invariant `StoreInv` labels the numbers in the map: `nr` is link `idx[nr]` of the chain of image
`own[nr]`. Two images cannot share a block because a number has one owner. A stored image is `Complete`: its first
block is link 1, each link's successor is the next one of the same owner, and the last one's is 0. An operation that
is running has its own form of that: a write has a chain with an open end (`Growing`), a read has what stood before
its block (`Fetched`), a deletion has the rest of a chain nobody holds any more (`Shrinking`). That a new block
cannot cut into a chain rests on the numbers (`FreeOK`: free numbers are different, not in the map, below the count,
and never 0), and that evicting and reloading show nothing on `Fits`: the map names the object that carries the
number, and with a swap file no object carries a number that is not its own, so that what a slot holds was written
by the block that has it. Both fail as soon as a deletion leaves its object in the lists of a cache with a swap
file. What can be seen of a block is its successor and its data, wherever that is; `CleanupShows` and `LockShows`
prove that cleaning up and locking change neither, and one lemma per action follows. `ChainVisits` then goes from
the labels to the chain that the properties follow, by induction over a set of numbers (`SetInduction`, below).

`MultiPageProofs` (for source files of any lengths, any number of edits and new images, every way of opening, any
failures and habits of the clients, unless the theorem names them):

- `TypeCorrect`: `Spec => []TypeOK`;
- `CountStaysCurrent`: `Spec => []CountIsCurrent`;
- `SourcePagesStayOnce`: `Spec => []SourcePagesOnce`;
- `ImagesStayOwned`: `Spec => []EachImageOnce`, given that compressing does not fail (`MultiPage.cpp:752`);
- `LockedStaysWithin`: `Spec => []LockedWithin`, given that no client locks a position behind the end of the list;
- `NoNullPointer`: `Spec => [](phase # "fault")`, given that compressing does not fail and that clients lock pages
  where the source has them.

Everything rests on what an edit does to the list. A list of blocks is apart (`Apart`) when its spans do not overlap
and its references differ. Each operation is one of four changes (`MultiPageProofs`, "Listed"): `FindBlock` replaces
a block by pieces of it and leaves an `Alike` list, with the same number of pages and the same references, apart if
the old one was (`SplitFacts`, `PageFound`); a new block goes in (`PutInListed`); one goes, with its cached image
(`TakenListed`); one takes the place of another. The inductive invariant `Inv` says that the list is `Listed`: its
blocks lie in the source file, no two spans share a page, and, unless compressing may fail, the references are the
numbers of the cache one to one. It also says of the cache (`Numbers`) that free numbers are free, different and
below the count, which is why a number is never handed out twice; without it `EachImageOnce` is not inductive. The
rest of `Inv` is where a save stands in the list (`SaveInv`: the page it is about to write exists), when there is no
spool file (`SpoolInv`), and what a fault takes (`FaultInv`). One lemma per action proves that `Inv` is kept.

The library's induction theorems take an operator as a parameter, which no prover here can instantiate. `ListLemmas`
states induction for a set of numbers instead (`SetInduction`, from the least element of a set), and that is enough
for `PagesThrough`, a recursive function: `Counts` gives its equations for every list, `CountsConcat` what it counts
through two lists in a row, `CountsGrow` that it grows.

The second part of `MultiPageProofs` (for the same constants):

- `DocumentStaysKept`: `Spec => []DocumentKept`, with all failures and all clients;
- `MultiPageIsPageSequence`: `Spec => IsPageSequence`, the refinement, given that compressing a page does not fail and
  that clients lock pages where the source has them;
- `LockedStaysAtPosition`: `Spec => []LockedIsAtPosition`, given the same.

Each hypothesis excludes a divergence named above: an empty cache entry (`MultiPage.cpp:752`), and a page shown that
is not the one at its position (`pages_position`). All other failures are covered: source and cached pages that
cannot be read, a spool file that cannot be opened or is not written in full, files that are not removed, a rename
that fails, with the document removed before or not, a crash between any two file operations.

The pages of a list are the list of its blocks with each block spread out to its pages (`PagesOf`, over `Spread` of
`ListLemmas`, which unfolds the fold of `FlattenSeq` by induction over sets of numbers). Two facts carry the edits.
Spreading out two lists in a row is spreading out each (`SpreadCat`), so that page `p` of a list is found by what
stands before its block (`PageAt`); and a span spread out is the run of its pages, which may be cut anywhere
(`RunFacts`), so that `FindBlock` changes nothing one can see (`PagesOfFacts`). After it, inserting, removing,
replacing or moving one block of one page is the same edit of the sequence of pages (`InsertedPages`,
`DeletedPages`, `ReplacedPages`, `MovedPages`). For the page that an edit puts in, and the pages it leaves alone,
the cache has to keep what it held (`WrittenImage`, `DeletedImage`): a new number is no reference of the list
(`NewRefIsNew`), and the number that goes is no other block's, which is why `Owned` is needed and compressing must
not fail.

The document is kept by an inductive invariant of its own, `KeptInv`, of four facts about files. A save that has
failed nowhere but unnoticed has written the pages of the blocks before its own, and of its own those before its page
(`SavedInv`, `WrittenOf`). A spool file that was closed well holds all pages, in their places (`SpooledInv`). The file
is the one that was opened until the phase `removed`, and there perhaps gone (`FileInv`); since `remove` is not looked
at, that phase says less than its name. And nothing is returned before the end (`ResultInv`). From these the three
cases of `DocumentKept` follow for a process that has died anywhere, and for one that has returned.

`PromiseInv` adds that the document is what the pages are until something has changed (`DocumentInv`: closing without
saving may claim success), and that the last call recorded is the one a save or a closing is part of (`CallInv`).
The step that replaces the document is removing the file, after which the spool file counts, or renaming, when
the file was not removed; renaming after a remove changes nothing.

That a locked page stays at its position needs no more than the lemmas about edits: those that move pages require
that none is locked (`MayStore`), and replacing one, which unlocks it, changes no other.

`MemoryIOProofs` (for every first size, every `Half`, every wrapped size, item size, count, offset):

- `TypeCorrectness`: `Spec => []TypeOK`;
- `BufferIsLargeEnough`: `Spec => []BufferCovers`;
- `MemoryIsByteFile`: `Spec => IsByteFile`, the refinement.

The inductive invariant adds two facts: the buffer never exceeds `Top`, so that doubling or jumping to `Top` makes
it larger, and every unit behind `file_length` was never written. The second is what makes a write behind the end
of the file leave a hole and not the bytes of an earlier write that failed. Each step is then a step of `ByteFile`
or leaves the contents as they are; `ReadRefines` needs that full items fit into what is available (`ItemsFit`).

`GifPlaybackProofs` (for every screen, every background, all animations of any number of frames):

- `TypeCorrectness`: `Spec => []TypeOK`;
- `CanvasKeepsUp`: `Spec => []KeepsUp`;
- `PlaybackShowsFrame`: `Spec => []ShowsFrame`.

The canvas is that of the viewer before every frame but the first one drawn (`Drawn`). There it is blank, and either
the viewer's is blank too, since nothing came before or all of it was erased (`NothingBehind`), or the frame hides
whatever was there (`HidesAll`). A frame before the last keeps the two equal, drawn or left out (`KeepsPace`): one
that is disposed of by the background may be erased undrawn, since erasing undoes the drawing (`EraseUndrawn`). All
of this is of the viewer who reads the flags of each frame right, and holds where `Load` does so too (`WellRead`): of
the frames from the one before the start to the one before the last. The flags of the last frame are not asked for,
and those of hidden frames do not matter; where there is no extension at all among the others, nothing is claimed.
The viewer is the constant `Before`, of which it is only assumed that it goes from frame to frame
(`AnimationAssumption`): a sequence defined by recursion is used here by its equations.

`ImageStreamsProofs` (for any number of threads, any list of plugins, streams of any length,
items of any size, any numbers of items and offsets):

- `ListIsThere`: `Spec => []ListThere`;
- `FormatIsByContent`: `Spec => []DetectsByContent`;
- `TypeCorrectness`: `Spec => []TypeOK`;
- `LossIsNoticed`: `Spec => []LossOnlyAtTheEnd`;
- `AnswersAreClose`: `Spec => OverstatesOneItem`;
- `StreamIsFile`: `Spec => LikeAFile`, the refinement.

That the list is there rests on the reference count, although it is read and written in two steps: one user at a
time is inside `FreeImage_Initialise` (`OneAtATime`: the loader before `main`, then the thread that constructs the
static object), so what it has read is still right when it writes (`CountKnown`), and the count is that of the users
that have come and not gone (`RefsCounted`). A list under construction has the plugins so far under their own
numbers (`Growing`), and with a count above 0 and nobody building it is `Whole`. A format is only detected while the
static object is there (`ScanInv`), so that the list does not change under the loop; the plugins it has come by did
not accept the content, or were switched off when they were asked, and the TIFF plugin it goes on from to RAW did
accept it (`GoingOn`).

For the streams, `ReadSoFar` and `WrittenSoFar` say how many bytes the loops have moved for the items they have
counted, from which the worth of an answer follows (`Worth`). A stream that came short stays failed until the plugin
is through (`FailsForGood`), so that every later request of it is answered with 0 items: that is why only the last
loss can go unnoticed. The refinement adds where the bytes come from and go to (`Moving`); its inside steps are
stutters of the file, and the step that answers is one read or write of it.

`GifCodecProofs` (for all widths of bytes and codes with a code longer than one byte and shorter than two, sub-blocks
of any length above 6, an array for the last codes that is long enough for two codes and what the comment counts, all
pictures, and writes that may fail at any moment):

- `LeftoverBounded`: `Spec => []Leftover`;
- `FileOfSubBlocks`: `Spec => []SubBlocksWellFormed`;
- `CoderFitsItsInt`: `Spec => []CoderInRange`, given that the least code size of every picture is at least two less
  than `CodeBits`. With 8 and 12 bits it is 8 at most.

The inductive invariant `CoderInv` has five parts. The table (`TableInv`): the next code is below the limit, a code
size is enough for the codes given out so far, every pair that was entered has one of them, and before the first
pair the prefix is a pixel. The bits (`BitsInv`): nothing lies above `m_partialSize`; less than a byte waits, or a
clear code on top of that when the table is new, or, only when the block has just been stored and the next one is
empty, what it had no room for. The last case is the one a count of bits from the code's comment misses: `EmitCode`
stops taking bytes when the block is full, in the middle of a code, and nothing takes the rest until the next code,
which by then has an empty block with room for all of it. That is why `BlockLen > 6` is assumed (255 in the code),
and why `Leftover` has three cases. That the array `last` is overrun (`OverrunLast`) only where a byte or more waits,
and by no more than two codes make, is `OverrunInv`: less than a byte, a code and the end code fit it, which is what
the code's comment counts. The place (`PlaceInv`): the shift is a whole number of pixels, so that a line
ends where the slack begins. The row (`RowInv`): pixels are only left in a row the picture has. The file (`FileOk`):
until the end all blocks are full, unless a write has failed. `EmittedOk` is the longest of the lemmas: one code
out, its bytes taken, a pair entered, perhaps a clear code. Shifts are products and quotients by powers of two, and
their arithmetic (`PowerSum`, `ShiftedRight`, `ShiftedIn`) is proved from the equations of the recursive function
`Pow2` by induction over a set of numbers.

`GifTransferProofs` (for the same constants and every `OutLen` that holds the longest string, with no further
hypothesis):

- `LoadingTransfers`: `Spec => IsTransfer`, the refinement;
- `PictureArrives`: `Spec => []OnlyKnownLosses`;
- `CodecTypes`: `Spec => []TypeOK`;
- `DecoderFitsItsInt`: `Spec => []DecoderInRange`.

A decoder that is given any codes keeps none of them: they hold because the bits it reads are those the coder wrote.
The coder and the decoder are never at work at the same time, and the file is all that passes between them, so the
invariant is about what the file means. Its subject is a list of codes with all their bits as one number
(`TraceType`): for every code its value, its size, where its bits begin, at which pixel its string begins, and which
code was the first after the last clear code. `CodesOk` says that such a list is one a coder may write: a code
stands for a pixel, or for the string of an earlier one and the pixel after it, as far back as the last clear code
(`Spells`); sizes are those of the highest number in the table (`SizeFor`); a clear code comes when the table is
full.

`TransferInv` adds to `CoderInv` one fact per phase (`Stands`), but for `overrun`, of which nothing is to be known:

- while a save goes on, there is a list of codes for which the coder's table, its prefix, the bits that wait, the
  block in memory and the blocks of the file are what they should be (`HasTrace`). `FirstPixelTrace`,
  `ExtendPrefixTrace`, `EmitCodeTrace` and `FinishLineTrace` give the list after each step; `SendCode` and
  `LearnTrace` are a code going out and a pair learnt;
- when it is over and nothing failed, the blocks hold the codes of the whole picture and the end code (`HasFile`,
  `FinishSaveTrace`); if the medium filled up there is no terminator in the file (`NoEnd`), and the load is refused;
- a load has read a prefix of the codes (`HasLoad`): the bits that wait are those behind it (`Knows`), the decoder's
  strings are the texts the codes stand for (`Strings`), the pixels not yet shown end where the codes taken do, and
  what is shown is the picture before them (`Shows`).

The heart of it is that the decoder's table is one string behind the coder's: it knows the string of code `k` only
when it has code `k + 1`, since the last pixel of that string is the first of the next. `StringAdded` is that step,
the case that code `k + 1` is the one being learnt included; `SizeOfCode` is why both change the size of codes at
the same code all the same, and `LaterDecodes` and `ClearDecodes` carry the table on. `StringKept` covers the code
that is put back since its string finds no room, after the decoder has learnt from it: it learns the same again. The
order of the pixels of an interlaced picture is the function `Place`, and a pixel is before a place exactly if its
row came in an earlier pass, or earlier in this one (`PlaceStep`, `RowStep`); that the order reaches every pixel
fails for short interlaced pictures alone (`BehindTheLast`).

`PictureArrives` says of the pixels that are missing which they are. At the terminator all bytes are taken, so the
bits that wait hold the codes not taken yet and the end code (`AtTheTerminator`). Decoding them one by one
(`AfterCodes`, a recursive function of which only the equations are used: `AfterEquations`) keeps the same facts as a
load does: so many codes taken, so many pixels behind those that are shown (`DecodedTo`). A code that is left uses up
a bit at least (`NextLeft`), so that after as many steps as bits are left there is none (`NothingLeft`), and the
pixels decoded are the rest of the picture (`LeftIsRest`). How many cells come before one in the order of the passes
(`CellsBefore`, closed forms) is the number of steps of `Place` to it (`PlaceNumber`, by induction over the rows:
`RowNumbers`, `NextRowNumber`), so that a cell that is still blank is found in them at its place (`PlacesBetween`,
`RestArrives`).

`DecoderFitsItsInt` needs more, for `Decompress` takes a byte on entry even when a code that found no room still
waits, and only the codes that follow make up for it. `Waits` says how: between two calls less than a code and a
byte waits. A second byte may raise that to less than a code and two bytes, but then the buffer is empty, each code
that follows takes a bit at least and brings no more than `2^s` pixels (`StringShort`), and the buffer has room for
`2^CodeBits`; so when the next code finds no room, the second byte is used up (`CodeWaits`, `NoRoomWaits`), and what
is put back is what was there (`StuffWaits`). A clear code would take bits and bring nothing to fill the buffer
with, but it would be followed by shorter ones: it is never the code that is put back, and behind other codes it
comes with the longest size only (`FullTable`). `Waits` was checked with TLC on the instance of `gif_codec` before
it was proved.

Texts and places are functions on the natural numbers, not recursive operators, so that what they are at every
number is proved by induction over sets of numbers (`Iterates`). The list of codes is not part of the state: each
lemma says that there is one, which is why TLC cannot evaluate `TransferInv`, and why nothing had to be added to the
model for the proof.

The assumptions are those named `...Assumption` in the modules; TLC evaluates them in every run.

Every invariant, every action property and every refinement that a passing run checks is stated by a theorem, some
under the hypotheses given above. Only model-checked are the liveness properties `OperationsEnd`, `CloseEnds`,
`WritesEnd`, `RequestsEnd`, `OthersLetIn`, `LoadEnds`: liveness is out of the prover's reach.

## Assumptions of the models

- Integers: block numbers, page numbers and positions are unbounded. The 32-bit product `nr * BLOCK_SIZE`
  (`CacheFile.cpp:97`) and `size * count` (`FreeImageIO.cpp:96`) may wrap for more than 4 GiB; both are listed as
  hazards without a property. `long` is 64 bits wide, as in the builds for Linux.
- `MultiPage` uses the cache as `BlobStore` promises it, with the numbers `CacheFile` hands out and images of one
  block. The corruptions of the cache are therefore not seen again in `MultiPage`.
- One client, one bitmap: two bitmaps of one directory and stem share cache and spool names (a hazard without a
  property yet). A bitmap opened with `create_new` finds no file of its name.
- The process dies, if at all, while files are written; disk contents survive as they were written.
- A plugin that could not be added leaves its number to the next one; `ListThere` says nothing of such a list (its
  plugins are `starved`), `DetectsByContent` does.
- `assert` is active, as in the default build: a failed assertion (`FindBlockFails`) ends the behaviour, as does
  the use of a NULL pointer (`NullPointer`, `Stop("fault")`).
- Programs join their threads before they return from `main`, and construct an `Image` before they call anything else
  of the wrapper. Code that runs before `main` or in destructors of static objects is not modelled.
- Requests ask for at least one item (asked for none, `ReadProc` reads one all the same if items are larger than a
  byte), and saves write items of at least one byte; the request of a plugin that loads may be for items of no size.
  A stream is written or read, so that one position stands for the two a `stringstream` has. Formats are detected over
  a `FILE`, where the seek back works. A C++ stream has failbit set by a short read, and does not throw (the default).
- The frame that is loaded is the one that was saved. GIF files of other programs, with codes no coder of this kind
  writes, are not modelled. Writes to the file fail for good once they fail.
- Frames of an animation lie within the screen and can be decoded.
- A wrapped user buffer that is handed to `realloc` is shown as moved; what the allocator does with a pointer that
  is not its own is not modelled.

## Not modelled

- `FreeImage_CloseMemory`, the `FILE` procedures (the C library's), `GetLockedPageNumbers` (a query).
- Of the registry: look-up by name, extension or MIME type (queries), external plugins. Of the wrapper: the operations
  on pixels, which forward to FreeImage, and the bitmap's owner, a `unique_ptr`.
- Of the GIF plugin: palettes, metadata and headers.
- Bitmap memory and pixel access, conversions, quantizers, tone mapping, toolkit: arithmetic on one bitmap, no
  state between calls. The other format plugins and metadata: sequential parsers and writers of large data.
- Vendored codecs (zlib, libpng, libjpeg, libtiff, WebP, OpenJPEG, JPEG XR, LibRaw, OpenEXR): third-party code, and more
  than nine tenths of the lines of the tree. The share of lines that is modelled is small for this reason; of the code
  that keeps state between calls, what is not modelled is named in this section.
- The demonstration program `libimagetest`, and the tile extractor (in the plan).

## Plan

Done, in this order: `CacheFile` with its abstract store and structural proofs; `MultiPage` with its abstract
sequence; `MemoryIO` with its abstract file and its refinement proved; `StreamIO`, `PluginList` and their composition,
with its proofs; the GIF codec; playback, with its proofs; the invariants and the refinements of `MultiPage` and
`CacheFile` proved; the coder of the GIF codec proved, and then that its decoder undoes it.

Next, most important first:

1. `Extractor`: tile geometry with the closed rectangle of `image.h:74` against tiles that partition the picture.
2. `TwoBitmaps`: two multi-page bitmaps over one directory, sharing the names of cache and spool file.
3. In `CacheFile`, the swap offset with its width.
