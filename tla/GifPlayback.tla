----------------------------- MODULE GifPlayback -----------------------------
(***************************************************************************)
(* Load with GIF_PLAYBACK (FreeImage/PluginGIF.cpp): "playback pages to    *)
(* generate what the user would see for this frame".  Instead of playing   *)
(* the animation from its start, Load looks backwards for a frame that     *)
(* hides all before it, and draws from there on, leaving out what will be  *)
(* disposed of anyway.                                                     *)
(*                                                                         *)
(* Frames lie within the screen, and each can be decoded; how is the       *)
(* subject of GifLoad.  A frame without a graphic control extension is     *)
(* marked by control = FALSE; it is disposed of by leaving it.             *)
(***************************************************************************)
EXTENDS Animation

VARIABLES
  animation,  \* the file: its frames
  end,        \* the frame that is asked for
  at,         \* "scan" looks for the first frame to draw, "draw" draws
  start,      \* the first frame to draw, so far
  page,       \* the frame to draw next
  canvas      \* the bitmap that is returned

vars == <<animation, end, at, start, page, canvas>>

-----------------------------------------------------------------------------
(* The loop that looks at the frames reads the flags of a frame one byte   *)
(* behind the offset of its extension.  Without one the offset is 0, and   *)
(* what is read is the I of the GIF header: a transparent colour, and      *)
(* disposal by the background.                                             *)
AsRead(frame) ==
  IF frame.control THEN frame
  ELSE [frame EXCEPT !.transparent = TRUE, !.disposal = "background"]
Info(i) == AsRead(animation[i])
Covers(frame) == DOMAIN frame.paint = Screen

(* a frame before the last one, after which nothing of those before shows *)
ClearsAll_AlsoLast(i) == Covers(Info(i)) /\ Info(i).disposal = "background"
ClearsAll(i) == i # end /\ Covers(Info(i)) /\ Info(i).disposal = "background"
PaintsAll_Transparent(i) ==
  /\ i # end /\ Covers(Info(i))
  /\ Info(i).disposal \notin {"background", "previous"}
PaintsAll(i) ==
  /\ i # end /\ Covers(Info(i))
  /\ Info(i).disposal \notin {"background", "previous"}
  /\ ~Info(i).transparent

-----------------------------------------------------------------------------
IsFile(a) ==
  \A i \in 1..Len(a) :
    a[i].control \/ (~a[i].transparent /\ a[i].disposal = "leave")

Init ==
  /\ animation \in Animations /\ IsFile(animation)
  /\ end \in 1..Len(animation)
  /\ at = "scan" /\ start = end
  /\ page = 0
  /\ canvas = Blank

DrawFrom(i) == at' = "draw" /\ start' = i /\ page' = i

Scan ==
  /\ at = "scan"
  /\ \/ ClearsAll(start) /\ DrawFrom(start + 1)
     \/ PaintsAll(start) /\ DrawFrom(start)
     \/ /\ ~ClearsAll(start) /\ ~PaintsAll(start)
        /\ IF start = 1 THEN DrawFrom(1)
           ELSE start' = start - 1 /\ UNCHANGED <<at, page>>
  /\ UNCHANGED <<animation, end, canvas>>

(* things we can skip having to decode *)
AfterPage_SkipsLast(i, c) ==
  CASE Info(i).disposal = "previous" -> c
    [] Info(i).disposal = "background" -> Erase(Info(i), c)
    [] OTHER -> Draw(animation[i], c)
AfterPage(i, c) ==
  CASE i # end /\ Info(i).disposal = "previous" -> c
    [] i # end /\ Info(i).disposal = "background" -> Erase(Info(i), c)
    [] OTHER -> Draw(animation[i], c)

DrawPage ==
  /\ at = "draw" /\ page <= end
  /\ canvas' = AfterPage(page, canvas)
  /\ page' = page + 1
  /\ UNCHANGED <<animation, end, at, start>>

Return ==
  /\ at = "draw" /\ page > end
  /\ at' = "done"
  /\ UNCHANGED <<animation, end, start, page, canvas>>

Next == Scan \/ DrawPage \/ Return

Spec == Init /\ [][Next]_vars

-----------------------------------------------------------------------------
(* The values the variables may have; what is drawn lies in start..end.    *)
TypeOK ==
  /\ IsFile(animation)
  /\ end \in 1..Len(animation)
  /\ at \in {"scan", "draw", "done"}
  /\ start \in 1..end
  /\ page \in IF at = "scan" THEN {0} ELSE start..end+1
  /\ DOMAIN canvas = Screen

(* The frames before the one asked for have an extension each, as far back *)
(* as the scan looked.  Of a frame that has none the scan misreads the     *)
(* flags: it is erased where the viewer still sees it, and the two         *)
(* properties below say nothing.                                           *)
WellRead ==
  \A i \in 1..end-1 : start <= i + 1 => animation[i].control

(* While the frames are drawn the canvas is what a viewer that plays all of *)
(* them has at that frame, although some were never drawn; no extension is  *)
(* needed of the frame asked for, nor of those that are hidden.             *)
KeepsUp ==
  at = "draw" /\ start < page /\ page <= end /\ WellRead =>
    canvas = Before(animation, page)

(* "playback pages to generate what the user would see for this frame": the *)
(* bitmap is what the viewer sees of it, where the flags were not misread.  *)
ShowsFrame ==
  at = "done" /\ WellRead => canvas = Seen(animation, end)
=============================================================================
