----------------------------- MODULE BlobStore -----------------------------
(***************************************************************************)
(* What a cache file promises to the multi-page layer: a store of blobs.   *)
(* A page's compressed image is written once, under a name of its own, can *)
(* be read back unchanged as often as wanted, and can be discarded.  This  *)
(* is the abstract specification of the class CacheFile: blocks, lists,    *)
(* the swap file and the free list are invisible here.                     *)
(***************************************************************************)
CONSTANTS
  Names,     \* the names under which blobs are written
  Payloads   \* Payloads[w] is the set of contents a client may write as w

VARIABLES
  blobs,     \* the blobs that can be read: a function from names to contents
  answer     \* what the last read returned: a name and a content

blobVars == <<blobs, answer>>

Init ==
  /\ blobs = << >>
  /\ answer = << >>

(* A blob appears complete, with the content its writer gave, in one step. *)
Store(w, c) ==
  /\ w \notin DOMAIN blobs
  /\ blobs' = [x \in DOMAIN blobs \cup {w} |-> IF x = w THEN c ELSE blobs[x]]
  /\ UNCHANGED answer

(* A read returns exactly what was stored.                                 *)
Fetch(w) ==
  /\ w \in DOMAIN blobs
  /\ answer' = <<w, blobs[w]>>
  /\ UNCHANGED blobs

(* Discarding a blob disturbs no other blob.                               *)
Discard(w) ==
  /\ w \in DOMAIN blobs
  /\ blobs' = [x \in DOMAIN blobs \ {w} |-> blobs[x]]
  /\ UNCHANGED answer

(* The store is destroyed with everything in it.                           *)
Destroy ==
  /\ blobs' = << >>
  /\ UNCHANGED answer

Next ==
  \/ \E w \in Names : \E c \in Payloads[w] : Store(w, c)
  \/ \E w \in Names : Fetch(w) \/ Discard(w)
  \/ Destroy

Spec == Init /\ [][Next]_blobVars
=============================================================================
