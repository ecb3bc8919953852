-------------------------- MODULE OwnershipHistory --------------------------
(***************************************************************************)
(* What the ownership services promise, whatever requests, locks, accounts *)
(* and policies lie behind it: every lead is held by one person or nobody, *)
(* changes hands in one instant, and what is past stays as it was, but for *)
(* the names of deleted accounts (the docstrings of crm/leads/models.py,   *)
(* OwnershipSegment, and of _apply_caretaker in crm/leads/services.py).    *)
(***************************************************************************)
EXTENDS Integers, Sequences

CONSTANTS
    Lead,
    User,
    NoUser,     \* nobody
    Never,      \* the lead has had no ownership yet
    Instant     \* when a lead may change hands

VARIABLES
    holder,     \* holder[l]: who holds the lead
    since,      \* since[l]: since when
    past        \* past[l]: the ownerships that ended, oldest first

vars == <<holder, since, past>>

Init ==
    /\ holder = [l \in Lead |-> NoUser]
    /\ since \in [Lead -> {0, Never}]
    /\ past = [l \in Lead |-> <<>>]

Spell(l, at) == [caretaker |-> holder[l], start |-> since[l], end |-> at]

(* The lead changes hands at an instant not before the last change; a new  *)
(* ownership of the same person is one, too.                               *)
ChangesHands(l) ==
    /\ holder'[l] \in User \cup {NoUser}
    /\ since'[l] \in Instant
    /\ since[l] # Never => since'[l] >= since[l]
    /\ past'[l] = IF since[l] = Never THEN past[l] ELSE Append(past[l], Spell(l, since'[l]))

Stays(l) == UNCHANGED <<holder[l], since[l], past[l]>>

(* Some leads, of one customer or one caretaker, change hands together.    *)
HandOver ==
    /\ \A l \in Lead : Stays(l) \/ ChangesHands(l)
    /\ DOMAIN holder' = Lead /\ DOMAIN since' = Lead /\ DOMAIN past' = Lead

Without(u, name) == IF name = u THEN NoUser ELSE name

(* The account of u is deleted: nobody is named in its place.              *)
Forget(u) ==
    /\ holder' = [l \in Lead |-> Without(u, holder[l])]
    /\ past' = [l \in Lead |-> [i \in DOMAIN past[l] |->
                  [past[l][i] EXCEPT !.caretaker = Without(u, @)]]]
    /\ UNCHANGED since

Next == HandOver \/ \E u \in User : Forget(u)

Spec == Init /\ [][Next]_vars
=============================================================================
