---------------------------- MODULE MCCacheFile ----------------------------
(* Small instances of CacheFile for TLC: the clients' habits that the runs  *)
(* distinguish.                                                             *)
EXTENDS CacheFile

AnythingDeleted == [keep \in BOOLEAN |-> {}]
FirstOrAllKept == [keep \in BOOLEAN |-> IF keep THEN {1} ELSE 1..MaxWrites]
=============================================================================
