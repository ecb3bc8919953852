----------------------------- MODULE Backoffice -----------------------------
(***************************************************************************)
(* Uploads add customers while the desk gives them leads: the two parts    *)
(* meet in the customer table.                                             *)
(***************************************************************************)
EXTENDS Uploads, Desk

CONSTANT Existing   \* the customers there are at first: a sequence

ASSUME ExistingFit ==
    /\ Existing \in Seq([phone : Phones, staff : Codes \cup {Blank},
                         last : Nat \cup {Blank}, count : Nat])
    /\ Len(Existing) <= MaxCustomers

vars == <<customers, ops, uploadVars, deskVars>>

Init == customers = Existing /\ ops = 0 /\ UploadsInit /\ DeskInit

Next ==
    \/ UploadsNext /\ UNCHANGED deskVars
    \/ DeskNext /\ UNCHANGED uploadVars

Spec == Init /\ [][Next]_vars
=============================================================================
