---------------------------- MODULE MCGifPlayback ----------------------------
(* Animations of up to three frames on a screen of two cells.  Each frame   *)
(* has a colour of its own, its number, so that every cell of the result    *)
(* tells which frame it is from.                                            *)
EXTENDS GifPlayback

Areas == {{1}, {1, 2}}
Frame(paint, transparent, disposal, control) ==
  [paint |-> paint, transparent |-> transparent, disposal |-> disposal,
   control |-> control]
Opaque(area, i) == [cell \in area |-> i]
Frames(i) ==
  UNION {{Frame(p, TRUE, d, TRUE) : p \in [area -> {i, Clear}]} \union
         {Frame(Opaque(area, i), FALSE, d, TRUE)} :
         area \in Areas, d \in {"leave", "background", "previous"}}
  \union {Frame(Opaque(area, i), FALSE, "leave", FALSE) : area \in Areas}
  \union {Frame(Opaque(area, i), TRUE, "background", FALSE) : area \in Areas}

SomeAnimations ==
  {<<f>> : f \in Frames(1)} \union
  {<<f, g>> : f \in Frames(1), g \in Frames(2)} \union
  {<<f, g, h>> : f \in Frames(1), g \in Frames(2), h \in Frames(3)}

(* the screens that playing all the frames goes through *)
ScreenBefore(a, k) ==
  LET screen[i \in 1..k] ==
        IF i = 1 THEN Blank ELSE Dispose(a[i-1], screen[i-1])
  IN screen[k]
=============================================================================
