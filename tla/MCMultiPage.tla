---------------------------- MODULE MCMultiPage ----------------------------
(* Small instances of MultiPage for TLC.                                    *)
EXTENDS MultiPage
=============================================================================
