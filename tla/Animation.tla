------------------------------ MODULE Animation ------------------------------
(***************************************************************************)
(* What a viewer sees of an animated GIF that it plays from the first      *)
(* frame on: a frame is drawn over what the ones before it have left, and  *)
(* is disposed of in its own way before the next is drawn.                 *)
(*                                                                         *)
(* A frame's paint gives the cells it covers a colour or Clear;            *)
(* transparent says whether it names a colour that counts as Clear.        *)
(***************************************************************************)
EXTENDS Integers, Sequences

CONSTANTS
  Screen,      \* the cells of the logical screen
  Backdrop,    \* the background colour
  Clear,       \* a pixel that lets show what is below it
  Animations,  \* sequences of frames
  Before(_, _) \* Before(a, i): the screen before frame i of a is drawn

Blank == [cell \in Screen |-> Backdrop]

Draw(frame, canvas) ==
  [cell \in Screen |->
     IF cell \in DOMAIN frame.paint /\ frame.paint[cell] # Clear
     THEN frame.paint[cell] ELSE canvas[cell]]
Erase(frame, canvas) ==
  [cell \in Screen |->
     IF cell \in DOMAIN frame.paint THEN Backdrop ELSE canvas[cell]]

Dispose(frame, canvas) ==
  CASE frame.disposal = "previous" -> canvas
    [] frame.disposal = "background" -> Erase(frame, Draw(frame, canvas))
    [] OTHER -> Draw(frame, canvas)

(* Frames lie within the screen, and Before goes through them in order.    *)
IsAnimation(a) ==
  /\ \A i \in 1..Len(a) :
       /\ DOMAIN a[i].paint \subseteq Screen
       /\ ~a[i].transparent => \A cell \in DOMAIN a[i].paint : a[i].paint[cell] # Clear
  /\ Before(a, 1) = Blank
  /\ \A i \in 1..Len(a) : Before(a, i+1) = Dispose(a[i], Before(a, i))
ASSUME AnimationAssumption == \A a \in Animations : Len(a) \in Nat \ {0} /\ IsAnimation(a)

Seen(a, i) == Draw(a[i], Before(a, i))
=============================================================================
