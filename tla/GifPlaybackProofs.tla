-------------------------- MODULE GifPlaybackProofs --------------------------
(***************************************************************************)
(* Playing back one frame of an animated GIF shows what playing all frames *)
(* up to it shows: proved for every screen and all animations, of any      *)
(* number of frames.                                                       *)
(***************************************************************************)
EXTENDS GifPlayback, TLAPS

(* The screen before a frame.                                              *)
Canvas(i) == Before(animation, i)

(* What is known of the canvas: nothing is drawn before the scan has ended; *)
(* then, it is the screen of a viewer, but for the first frame, which may   *)
(* be one that hides whatever was there; and after the last frame, it is    *)
(* what the viewer sees of it.  Frames are shown as they are if the scan    *)
(* read their flags and not something else.                                 *)
Drawn ==
  /\ page = start => canvas = Canvas(page) \/ (canvas = Blank /\ PaintsAll(page))
  /\ start < page /\ page <= end => canvas = Canvas(page)
  /\ page = end + 1 => canvas = Draw(animation[end], Canvas(end))

IInv ==
  /\ animation \in Animations
  /\ TypeOK
  /\ at = "scan" => canvas = Blank
  /\ at # "scan" /\ WellRead => Drawn
  /\ at = "done" => page = end + 1

-----------------------------------------------------------------------------
(* What is drawn or erased is the screen, cell by cell.                    *)
LEMMA Canvases ==
  ASSUME NEW frame, NEW c
  PROVE  /\ DOMAIN Blank = Screen
         /\ DOMAIN Draw(frame, c) = Screen
         /\ DOMAIN Erase(frame, c) = Screen
BY DEF Blank, Draw, Erase

(* The screen of the viewer is blank before the first frame.               *)
LEMMA FirstScreen ==
  ASSUME animation \in Animations
  PROVE  Canvas(1) = Blank /\ Len(animation) \in Nat
BY AnimationAssumption DEF IsAnimation, Canvas

(* From one screen to the next, where the flags were read.                 *)
LEMMA Viewer ==
  ASSUME animation \in Animations, NEW i \in 1..Len(animation), animation[i].control
  PROVE  /\ Info(i) = animation[i]
         /\ Canvas(i + 1) = Dispose(Info(i), Canvas(i))
         /\ ~Info(i).transparent =>
              \A cell \in DOMAIN Info(i).paint : Info(i).paint[cell] # Clear
BY AnimationAssumption DEF IsAnimation, Canvas, Info, AsRead

(* A frame is drawn the same whether its flags were read or not.           *)
LEMMA SamePaint ==
  ASSUME NEW i, NEW c
  PROVE  Draw(animation[i], c) = Draw(Info(i), c)
<1>1. CASE animation[i].control
  BY <1>1 DEF Info, AsRead
<1>2. CASE ~animation[i].control
  <2>1. Info(i) = [animation[i] EXCEPT !.transparent = TRUE, !.disposal = "background"]
    BY <1>2 DEF Info, AsRead
  <2>2. Info(i).paint = animation[i].paint
    BY <2>1
  <2> QED
    BY <2>2 DEF Draw
<1> QED
  BY <1>1, <1>2

(* Erasing a frame that was drawn and erasing it undrawn leave the same.   *)
LEMMA EraseUndrawn ==
  ASSUME NEW frame, NEW c
  PROVE  Erase(frame, Draw(frame, c)) = Erase(frame, c)
BY DEF Erase, Draw

(* A frame before the last, drawn or left out, turns the screen of the     *)
(* viewer before it into the one after it.                                 *)
LEMMA KeepsPace ==
  ASSUME animation \in Animations, NEW i \in 1..Len(animation), animation[i].control, i # end
  PROVE  AfterPage(i, Canvas(i)) = Canvas(i + 1)
<1>1. CASE Info(i).disposal = "previous"
  BY <1>1, Viewer DEF AfterPage, Dispose
<1>2. CASE Info(i).disposal = "background"
  BY <1>2, Viewer, EraseUndrawn DEF AfterPage, Dispose
<1>3. CASE Info(i).disposal \notin {"previous", "background"}
  BY <1>3, Viewer, SamePaint DEF AfterPage, Dispose
<1> QED
  BY <1>1, <1>2, <1>3

(* Behind a frame that covers the screen and is erased nothing is left.    *)
LEMMA NothingBehind ==
  ASSUME animation \in Animations, NEW i \in 1..Len(animation), animation[i].control, ClearsAll(i)
  PROVE  Canvas(i + 1) = Blank
<1>1. Canvas(i + 1) = Erase(Info(i), Draw(Info(i), Canvas(i)))
  BY Viewer DEF ClearsAll, Dispose
<1>2. DOMAIN Info(i).paint = Screen
  BY DEF ClearsAll, Covers
<1> QED
  BY <1>1, <1>2 DEF Erase, Blank

(* A frame that paints the whole screen looks the same over any other.     *)
LEMMA HidesAll ==
  ASSUME animation \in Animations, NEW i \in 1..Len(animation), animation[i].control, PaintsAll(i)
  PROVE  AfterPage(i, Blank) = Canvas(i + 1)
<1>1. AfterPage(i, Blank) = Draw(Info(i), Blank)
  BY SamePaint DEF PaintsAll, AfterPage
<1>2. Canvas(i + 1) = Draw(Info(i), Canvas(i))
  BY Viewer DEF PaintsAll, Dispose
<1>3. /\ DOMAIN Info(i).paint = Screen
      /\ \A cell \in Screen : Info(i).paint[cell] # Clear
  BY Viewer DEF PaintsAll, Covers
<1> QED
  BY <1>1, <1>2, <1>3 DEF Draw

-----------------------------------------------------------------------------
(* Before the scan, no frame is drawn.                                     *)
THEOREM InitInvariant == Init => IInv
<1> SUFFICES ASSUME Init PROVE IInv
  OBVIOUS
<1>1. Len(animation) \in Nat
  BY FirstScreen DEF Init
<1>2. TypeOK
  BY <1>1, Canvases DEF Init, TypeOK
<1> QED
  BY <1>2 DEF Init, IInv

(* The scan ends at a frame whose screen is blank, or at one that hides    *)
(* it; every frame from there on is drawn or left out as it has to be.     *)
THEOREM NextInvariant == IInv /\ [Next]_vars => IInv'
<1> SUFFICES ASSUME IInv, [Next]_vars PROVE IInv'
  OBVIOUS
<1>1. /\ Len(animation) \in Nat /\ end \in 1..Len(animation) /\ start \in 1..end
      /\ IsFile(animation) /\ DOMAIN canvas = Screen
      /\ animation \in Animations
  BY FirstScreen DEF IInv, TypeOK
<1>2. CASE Scan
  <2>1. /\ canvas = Blank /\ canvas' = canvas
        /\ animation' = animation /\ end' = end
    BY <1>2 DEF Scan, IInv
  <2>2. CASE ClearsAll(start) /\ DrawFrom(start + 1)
    <3>1. start + 1 \in 1..end
      BY <1>1, <2>2 DEF ClearsAll
    <3>2. start' = start + 1 /\ page' = start + 1 /\ at' = "draw"
      BY <2>2 DEF DrawFrom
    <3>3. WellRead' => canvas' = Canvas(start + 1)
      <4> SUFFICES ASSUME WellRead' PROVE canvas' = Canvas(start + 1)
        OBVIOUS
      <4>1. start \in 1..end-1 /\ start \in 1..Len(animation)
        BY <1>1, <3>1
      <4>2. animation[start].control
        BY <1>1, <2>1, <3>2, <4>1 DEF WellRead
      <4> QED
        BY <1>1, <2>1, <2>2, <4>1, <4>2, NothingBehind
    <3>4. WellRead' => Drawn'
      BY <1>1, <2>1, <3>1, <3>2, <3>3 DEF Drawn, Canvas
    <3> QED
      BY <1>1, <2>1, <3>1, <3>2, <3>4 DEF IInv, TypeOK
  <2>3. CASE PaintsAll(start) /\ DrawFrom(start)
    <3>1. start' = start /\ page' = start /\ at' = "draw"
      BY <2>3 DEF DrawFrom
    <3>2. PaintsAll(start)'
      BY <2>1, <2>3, <3>1 DEF PaintsAll, Info
    <3>3. Drawn'
      BY <1>1, <2>1, <3>1, <3>2 DEF Drawn, Canvas, PaintsAll, Info
    <3> QED
      BY <1>1, <2>1, <3>1, <3>3 DEF IInv, TypeOK
  <2>4. CASE start = 1 /\ DrawFrom(1)
    <3>1. start' = 1 /\ page' = 1 /\ at' = "draw"
      BY <2>4 DEF DrawFrom
    <3>2. canvas' = Canvas(1)
      BY <1>1, <2>1, FirstScreen
    <3>3. Drawn'
      BY <1>1, <2>1, <3>1, <3>2 DEF Drawn, Canvas
    <3> QED
      BY <1>1, <2>1, <3>1, <3>3 DEF IInv, TypeOK
  <2>5. CASE start # 1 /\ start' = start - 1 /\ UNCHANGED <<at, page>>
    BY <1>1, <1>2, <2>1, <2>5 DEF Scan, IInv, TypeOK
  <2> QED
    BY <1>2, <2>2, <2>3, <2>4, <2>5 DEF Scan
<1>3. CASE DrawPage
  <2>1. /\ page \in start..end /\ page' = page + 1 /\ canvas' = AfterPage(page, canvas)
        /\ UNCHANGED <<animation, end, at, start>> /\ at = "draw" /\ (WellRead => Drawn)
    BY <1>1, <1>3 DEF DrawPage, IInv, TypeOK
  <2>2. DOMAIN canvas' = Screen
    BY <1>1, <2>1, Canvases DEF AfterPage
  <2>3. WellRead /\ page # end => canvas' = Canvas(page + 1)
    <3> SUFFICES ASSUME WellRead, page # end PROVE canvas' = Canvas(page + 1)
      OBVIOUS
    <3>1. page \in 1..Len(animation) /\ page \in 1..end-1 /\ start <= page + 1
      BY <1>1, <2>1
    <3>2. animation[page].control
      BY <3>1 DEF WellRead
    <3>3. canvas = Canvas(page) \/ (canvas = Blank /\ PaintsAll(page))
      BY <1>1, <2>1 DEF Drawn
    <3> QED
      BY <1>1, <2>1, <3>1, <3>2, <3>3, KeepsPace, HidesAll
  <2>4. WellRead /\ page = end => canvas' = Draw(animation[end], Canvas(end))
    <3>1. WellRead /\ page = end => canvas = Canvas(end)
      BY <1>1, <2>1 DEF Drawn, PaintsAll
    <3> QED
      BY <2>1, <3>1 DEF AfterPage
  <2>5. WellRead' => WellRead
    BY <2>1 DEF WellRead
  <2>6. WellRead' => Drawn'
    BY <1>1, <2>1, <2>3, <2>4, <2>5 DEF Drawn, Canvas
  <2> QED
    BY <1>1, <2>1, <2>2, <2>6 DEF IInv, TypeOK
<1>4. CASE Return
  <2>1. page = end + 1
    BY <1>1, <1>4 DEF Return, IInv, TypeOK
  <2>2. WellRead' => Drawn'
    BY <1>1, <1>4, <2>1 DEF Return, IInv, Drawn, Canvas, WellRead
  <2> QED
    BY <1>1, <1>4, <2>1, <2>2 DEF Return, IInv, TypeOK
<1>5. CASE UNCHANGED vars
  BY <1>5 DEF vars, IInv, TypeOK, Drawn, Canvas, PaintsAll, Info, WellRead
<1> QED
  BY <1>2, <1>3, <1>4, <1>5 DEF Next

(* IInv is an invariant for all screens and animations.                    *)
THEOREM Invariance == Spec => []IInv
<1>1. Init => IInv
  BY InitInvariant
<1>2. IInv /\ [Next]_vars => IInv'
  BY NextInvariant
<1> QED
  BY <1>1, <1>2, PTL DEF Spec

(* The frames drawn lie between the first one chosen and the one asked for. *)
THEOREM TypeCorrectness == Spec => []TypeOK
<1>1. IInv => TypeOK
  BY DEF IInv
<1> QED
  BY <1>1, Invariance, PTL

(* Between two frames the canvas is the screen of a viewer that plays all   *)
(* frames, whatever the scan of Load leaves out, unless a frame that it    *)
(* looked at before the last has no extension.                             *)
THEOREM CanvasKeepsUp == Spec => []KeepsUp
<1>1. IInv => KeepsUp
  BY DEF IInv, KeepsUp, Drawn, Canvas
<1> QED
  BY <1>1, Invariance, PTL

(* The bitmap that Load returns is what that viewer sees of the frame, of   *)
(* animations of any length, with the same exception.                      *)
THEOREM PlaybackShowsFrame == Spec => []ShowsFrame
<1>1. IInv => ShowsFrame
  <2> SUFFICES ASSUME IInv, at = "done", WellRead PROVE canvas = Seen(animation, end)
    BY DEF ShowsFrame
  <2>1. canvas = Draw(animation[end], Canvas(end))
    BY DEF IInv, Drawn, TypeOK
  <2> QED
    BY <2>1 DEF Seen, Canvas
<1> QED
  BY <1>1, Invariance, PTL
=============================================================================
