---------------------------- MODULE PageSequence ----------------------------
(***************************************************************************)
(* What a multi-page bitmap promises its user: a sequence of page images   *)
(* that is edited in place and becomes the document on disk, as a whole or *)
(* not at all, when the bitmap is closed.  The abstract specification of   *)
(* MultiPage.                                                              *)
(*                                                                         *)
(* A step is what the call asks for, with the pages and the image named in *)
(* the call: deleting another page, or putting one elsewhere, is no step.  *)
(***************************************************************************)
EXTENDS Sequences, SequencesExt, Integers

CONSTANTS
  Documents,   \* the page sequences a bitmap may be opened on
  Images,      \* the images that the user may put in
  NoPage       \* stands where a page is missing from a document

VARIABLES
  pages,       \* the pages as the user has edited them
  document,    \* what is on disk; empty when there is nothing
  backed,      \* whether closing saves to disk
  call,        \* the last call that edits, shows, saves or closes
  answer,      \* what the user was last shown: page -1 is the whole bitmap
  result,      \* what closing returned
  unnoticed    \* the places of pages that may be missing without a word

seqVars == <<pages, document, backed, answer, result>>

WholeBitmap == -1
NotClosed == "none"

Init ==
  /\ pages \in Documents
  /\ document \in {pages, << >>}
  /\ backed \in BOOLEAN
  /\ answer = [page |-> WholeBitmap, images |-> << >>]
  /\ result = NotClosed

Edit(edited) == pages' = edited /\ UNCHANGED <<document, backed, answer, result>>

(* Pages are counted from 0.                                               *)
OnPage(c) == c.page \in 0..(Len(pages) - 1)
AppendPage(c) == c.op = "append" /\ c.image \in Images /\ Edit(Append(pages, c.image))
InsertPage(c) ==
  /\ c.op = "insert" /\ OnPage(c) /\ c.image \in Images
  /\ Edit(InsertAt(pages, c.page + 1, c.image))
DeletePage(c) ==
  /\ c.op = "delete" /\ OnPage(c) /\ Len(pages) > 1
  /\ Edit(RemoveAt(pages, c.page + 1))
ReplacePage(c) ==
  /\ c.op = "replace" /\ OnPage(c) /\ c.image \in Images
  /\ Edit(ReplaceAt(pages, c.page + 1, c.image))

(* Moving a page takes it out and puts it back before the page that was at *)
(* the other position.                                                     *)
MovePage(c) ==
  /\ c.op = "move" /\ OnPage(c)
  /\ c.before \in 0..(Len(pages) - 1) \ {c.page}
  /\ Edit(IF c.page < c.before
            THEN InsertAt(RemoveAt(pages, c.page + 1), c.before, pages[c.page + 1])
            ELSE InsertAt(RemoveAt(pages, c.page + 1), c.before + 1, pages[c.page + 1]))

(* All the pages, each in its place, but for the unnoticed ones.           *)
Complete(saved) ==
  /\ Len(saved) = Len(pages)
  /\ \A i \in 1..Len(pages) :
       saved[i] = pages[i] \/ (i \in unnoticed /\ saved[i] = NoPage)

Show == UNCHANGED <<pages, document, backed, result>>
ShowPage(c) ==
  /\ c.op = "lock" /\ OnPage(c)
  /\ answer' = [page |-> c.page, images |-> <<pages[c.page + 1]>>]
  /\ Show
ShowAll(c) ==
  /\ c.op = "save"
  /\ answer'.page = WholeBitmap
  /\ Complete(answer'.images)
  /\ Show

(* The document is replaced at once, before closing returns or when it     *)
(* does, and closing claims success only when it was.                      *)
Commit(c) ==
  /\ c.op = "close" /\ backed
  /\ Complete(document')
  /\ UNCHANGED <<pages, backed, answer, result>>
Return(c, ok) ==
  /\ c.op = "close" /\ result = NotClosed
  /\ document' = document \/ (backed /\ Complete(document'))
  /\ ok => ~backed \/ Complete(document')
  /\ result' = IF ok THEN "success" ELSE "failure"
  /\ UNCHANGED <<pages, backed, answer>>

Does(c) ==
  \/ AppendPage(c) \/ InsertPage(c) \/ DeletePage(c) \/ ReplacePage(c) \/ MovePage(c)
  \/ ShowPage(c) \/ ShowAll(c)
  \/ Commit(c)
  \/ \E ok \in BOOLEAN : Return(c, ok)

(* Saving and closing take their time; what the other calls do is done in  *)
(* the step that makes the call.                                           *)
Begins(c) == c.op \in {"save", "close"} /\ UNCHANGED seqVars
Next == Does(call') \/ Begins(call')

Spec == Init /\ [][Next]_<<seqVars, call>>
=============================================================================
