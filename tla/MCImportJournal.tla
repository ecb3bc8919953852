-------------------------- MODULE MCImportJournal --------------------------
(* TLC instance of ImportJournal: the users' edits are interchangeable.    *)
EXTENDS ImportJournal, TLC

Alike == Permutations(Edit)
============================================================================
