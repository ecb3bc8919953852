--------------------------- MODULE MCImportBatch ---------------------------
(* Finite instances of ImportBatch.                                        *)
EXTENDS ImportBatch, TLC

ImportWorkerSymmetry == Permutations(Worker)
=============================================================================
