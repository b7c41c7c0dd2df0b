--------------------------- MODULE MCImageStreams ---------------------------
(* A small instance of ImageStreams for TLC: two threads and the loader,   *)
(* three plugins, a stream of a few bytes.                                 *)
EXTENDS ImageStreams

ThreeFormats == <<"bmp", "tiff", "raw">>
Around == {-1, 0, 1}
=============================================================================
