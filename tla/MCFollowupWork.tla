--------------------------- MODULE MCFollowupWork ---------------------------
(* Instances of FollowupWork for TLC.                                      *)
EXTENDS FollowupWork, TLC

(* Requests and commands are interchangeable. *)
WorkerSymmetry == Permutations(Worker)
=============================================================================
