--------------------------- MODULE MissedChannel ---------------------------
(***************************************************************************)
(* The missed-channel counter (crm/domain/missed_channel.py): how many     *)
(* orders of a lead were closed by somebody else since the caretaker last  *)
(* closed one.                                                             *)
(***************************************************************************)
EXTENDS Naturals, FiniteSets

CONSTANT Nobody     \* null caretaker, null closer

DefaultPolicy ==
    [enabled |-> TRUE, countNullCloser |-> TRUE, resetOnCaretakerClose |-> TRUE]

NotASale == {"CANCELLED", "COD_RETURNED"}

(* What one order does to the counter.                                     *)
Verdict(o, baseline, caretaker, policy) ==
    IF o.at < baseline \/ o.status \in NotASale THEN "skip"
    ELSE IF caretaker # Nobody /\ o.closer = caretaker /\ policy.resetOnCaretakerClose
    THEN "reset"
    ELSE IF o.closer = Nobody /\ ~policy.countNullCloser THEN "skip"
    ELSE "count"

(* The primary key is compared as a string: "10" sorts before "9".  Keys   *)
(* of at most two digits.                                                  *)
KeyRank(id) == IF id < 10 THEN 20 * id - 1 ELSE 2 * id

SortsBefore(a, b) == a.at < b.at \/ (a.at = b.at /\ KeyRank(a.id) < KeyRank(b.id))

(* The last row of an order id is the one that counts.                     *)
Latest(rows) ==
    {rows[i] : i \in {j \in DOMAIN rows : \A k \in DOMAIN rows : rows[k].id = rows[j].id => k <= j}}

(* The orders that count and that no later order of the caretaker resets.   *)
Missed(rows, baseline, caretaker, policy) ==
    LET all == Latest(rows)
        says(o) == Verdict(o, baseline, caretaker, policy)
    IN  IF ~policy.enabled THEN 0
        ELSE Cardinality({o \in all : says(o) = "count" /\
                 \A r \in all : says(r) = "reset" => SortsBefore(r, o)})
============================================================================
