----------------------------- MODULE MCGifCodec -----------------------------
(* Small pictures of every shape and a few long ones that grow the codes,   *)
(* fill the table and fill the array of Decompress.                         *)
EXTENDS GifCodec

Picture(w, h, bpp, interlaced, f) ==
  [width |-> w, height |-> h, bpp |-> bpp, interlaced |-> interlaced,
   pixel |-> f]
Grid(w, h) == (0..h-1) \X (0..w-1)
Rows(w, h, v(_)) == [c \in Grid(w, h) |-> v(c[1] * w + c[2])]

Small ==
  UNION {{Picture(s[1], s[2], 1, FALSE, f) : f \in [Grid(s[1], s[2]) -> {0, 1}]} :
         s \in {<<7, 1>>, <<2, 3>>}}
Tall == {Picture(1, h, 3, b, Rows(1, h, LAMBDA k : (k + 1) % 8)) :
         h \in 1..11, b \in BOOLEAN}
Ramp(n, v) == Picture(n, 1, 1, FALSE, Rows(n, 1, LAMBDA k : IF k < v THEN 0 ELSE 1))
Ramps == {Ramp(n, v) : n \in {128, 129, 136, 140, 150}, v \in {0, 2, 3, 5, 7, 9}}
(* No string of this one repeats: it ends where the table is full for the   *)
(* sixth time and the bytes just filled a sub-block.                        *)
Stepped == Picture(373, 1, 6, FALSE, Rows(373, 1, LAMBDA k : ((k * (k + 1)) \div 2) % 64))
Mixed ==
  {Picture(7, 20, 3, FALSE, Rows(7, 20, LAMBDA k : (k * k) % 7)),
   Picture(35, 1, 6, FALSE, Rows(35, 1, LAMBDA k : (k * k) % 61)),
   Picture(15, 1, 6, FALSE, Rows(15, 1, LAMBDA k : (k * k) % 61)),
   Picture(39, 1, 6, FALSE, Rows(39, 1, LAMBDA k : (k * k) % 61)),
   Picture(2, 100, 6, FALSE, Rows(2, 100, LAMBDA k : (k * k * 5) % 61)),
   Picture(70, 9, 1, TRUE, Rows(70, 9, LAMBDA k : ((k * k) \div 7) % 2)),
   Picture(199, 4, 2, FALSE, Rows(199, 4, LAMBDA k : ((k * k * 10) \div 13) % 4))}
AllImages == Small \union Tall \union Ramps \union Mixed \union {Stepped}
=============================================================================
