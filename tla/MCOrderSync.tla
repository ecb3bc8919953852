---------------------------- MODULE MCOrderSync ----------------------------
(* TLC instances of OrderSync.                                             *)
EXTENDS OrderSync

OneOfEach == [l \in Lead |-> IF l = 1 THEN "EXCLUSIVE" ELSE "LATEST_ORDER"]
============================================================================
