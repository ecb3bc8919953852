--------------------------- MODULE ImportJournal ---------------------------
(***************************************************************************)
(* What a commit writes to the rows of one customer, what it journals of   *)
(* it, and what a rollback makes of the journal, while users edit the same *)
(* rows (crm/importv2/services/commit.py, journal.py, rollback.py).        *)
(*                                                                         *)
(* A row's content is the set of edits it contains: the groups (orders of  *)
(* the file) applied to it and the users' edits.  A save of an instance    *)
(* read earlier loses the edits made since.  One chunk is one transaction; *)
(* it holds a row's lock from its first write to the end.                  *)
(*                                                                         *)
(* Group 1 updates an order the customer has; group 2 brings a new order   *)
(* and a team in which the customer has no lead yet.                       *)
(***************************************************************************)
EXTENDS Integers, Sequences

CONSTANTS
    Edit,       \* users' edits
    Absent,     \* content of a row that is not there
    NoEdit,     \* target of an edit not made yet
    ChunkSize,  \* groups per commit chunk
    UndoSize,   \* journal entries per rollback chunk
    MaxAttempts \* bound: commit attempts

Group == 1..2
Row == {"CUSTOMER", "ORDER1", "ORDER2", "LEAD", "NEWLEAD", "NOTE"}

ASSUME EditsAreNoGroups == Edit \cap Group = {}
ASSUME NoEditIsNoRow == NoEdit \notin Row
ASSUME AbsentIsNoContent == \A c \in SUBSET (Group \cup Edit) : c # Absent
ASSUME SizesArePositive == {ChunkSize, UndoSize, MaxAttempts} \subseteq Nat \ {0}

VARIABLES
    status,     \* ImportBatch.status
    attempt,    \* ImportBatch.attempt
    db,         \* the committed rows
    journal,    \* the committed ImportJournalEntry rows, in order
    txn,        \* the commit's or rollback's transaction
    edited,     \* edited[e]: the row a user's edit went to
    raced       \* edits made to a row between a chunk's read and its lock

vars == <<status, attempt, db, journal, txn, edited, raced>>

-----------------------------------------------------------------------------
Content == {Absent} \cup SUBSET (Group \cup Edit)

Entry == [row : Row, op : {"CREATE", "UPDATE"}, before : Content, after : Content,
          undone : BOOLEAN]

(* next: the group to apply; read: rows as the transaction read them       *)
(* before locking; own: rows it has written; seen: leads as captured;      *)
(* entries: what it has journalled.                                        *)
Idle ==
    [pc |-> "idle", group |-> 0, left |-> 0, instance |-> Absent,
     snap |-> Absent, undone |-> {}, seen |-> [r \in {"LEAD", "NEWLEAD"} |-> Absent],
     own |-> [r \in {} |-> Absent], entries |-> <<>>]

Steps == {"idle", "read", "capture", "write", "snapshot", "customer", "lead", "finish", "undo"}

TypeOK ==
    /\ status \in {"READY_TO_CONFIRM", "COMMITTING", "FAILED_RETRYABLE", "COMMITTED",
                   "ROLLING_BACK", "ROLLED_BACK", "ROLLBACK_FAILED"}
    /\ attempt \in 0..MaxAttempts
    /\ db \in [Row -> Content]
    /\ journal \in Seq(Entry)
    /\ txn.pc \in Steps /\ txn.group \in 0..3 /\ txn.left \in Nat
    /\ txn.entries \in Seq(Entry) /\ DOMAIN txn.own \subseteq Row
    /\ edited \in [Edit -> Row \cup {NoEdit}]
    /\ raced \subseteq Edit

Init ==
    /\ status = "READY_TO_CONFIRM"
    /\ attempt = 0
    /\ db = [r \in Row |-> IF r \in {"CUSTOMER", "ORDER1", "LEAD"} THEN {} ELSE Absent]
    /\ journal = <<>>
    /\ txn = Idle
    /\ edited = [e \in Edit |-> NoEdit]
    /\ raced = {}

-----------------------------------------------------------------------------
(* The transaction's view, its writes and its journal.                     *)

View(r) == IF r \in DOMAIN txn.own THEN txn.own[r] ELSE db[r]
Locked(r) == r \in DOMAIN txn.own
OrderOf(g) == IF g = 1 THEN "ORDER1" ELSE "ORDER2"

(* Rows read by the running group and not locked yet.                      *)
InWindow(r) ==
    /\ ~Locked(r)
    /\ \/ r = OrderOf(txn.group) /\ txn.pc \in {"capture", "write"}
       \/ r \in {"LEAD", "NEWLEAD"} /\ txn.pc \in {"write", "snapshot", "customer", "lead", "finish"}
       \/ r = "CUSTOMER" /\ txn.pc = "customer"

Put(t, r, c) ==
    [t EXCEPT !.own = [x \in DOMAIN t.own \cup {r} |-> IF x = r THEN c ELSE t.own[x]]]

Journalled(row, before, after) ==
    [row |-> row, op |-> IF before = Absent THEN "CREATE" ELSE "UPDATE",
     before |-> before, after |-> after, undone |-> FALSE]

(* Instances read or captured are gone when the group is over.             *)
NextGroup(t) ==
    [t EXCEPT !.pc = "read", !.group = @ + 1, !.left = @ - 1, !.instance = Absent,
              !.snap = Absent, !.seen = Idle.seen]

-----------------------------------------------------------------------------
(* Commit.                                                                 *)

(* Also the retry of a failed commit: every group again, under the next    *)
(* attempt number.                                                         *)
StartCommit ==
    /\ status \in {"READY_TO_CONFIRM", "FAILED_RETRYABLE", "COMMITTING"}
    /\ txn = Idle /\ attempt < MaxAttempts
    /\ status' = "COMMITTING"
    /\ attempt' = attempt + 1
    /\ txn' = [Idle EXCEPT !.pc = "read", !.group = 1, !.left = ChunkSize]
    /\ UNCHANGED <<db, journal, edited, raced>>

Do(pc, t) ==
    /\ txn.pc = pc
    /\ txn' = t
    /\ UNCHANGED <<status, attempt, db, journal, edited, raced>>

(* Order.objects.filter(...).first(): no lock.                             *)
ReadOrder ==
    /\ txn.group \in Group /\ txn.left > 0
    /\ Do("read", [txn EXCEPT !.pc = "capture", !.instance = View(OrderOf(txn.group))])

(* LeadTracker.__init__: no lock either.                                   *)
Capture == Do("capture", [txn EXCEPT !.pc = "write", !.seen = [r \in DOMAIN @ |-> View(r)]])

(* _create_order, or _update_order: the before image is the stored row,    *)
(* what is saved is the instance with the file's fields.  An order that    *)
(* has them already is unchanged, and so is everything else.               *)
WriteOrder ==
    LET r == OrderOf(txn.group)
        changed == txn.instance = Absent \/ txn.group \notin txn.instance
        after == IF txn.instance = Absent THEN {txn.group} ELSE txn.instance \cup {txn.group}
    IN  Do("write",
           IF changed
           THEN [Put(txn, r, after) EXCEPT !.pc = "snapshot",
                     !.entries = Append(@, Journalled(r, View(r), after))]
           ELSE [txn EXCEPT !.pc = "finish"])

SnapshotCustomer ==
    Do("snapshot", [txn EXCEPT !.pc = "customer", !.snap = View("CUSTOMER")])

(* _refresh_customer_rollups saves the rollup columns only.                *)
SaveCustomer ==
    LET after == View("CUSTOMER") \cup {txn.group} IN
    Do("customer", [Put(txn, "CUSTOMER", after) EXCEPT !.pc = "lead",
                        !.entries = Append(@, Journalled("CUSTOMER", txn.snap, after))])

(* _ensure_lead_or_intake, then lock_lead and the lead's own writes.       *)
WriteLeads ==
    LET there == {r \in {"LEAD", "NEWLEAD"} : View(r) # Absent}
        leads == there \cup (IF txn.group = 2 THEN {"NEWLEAD"} ELSE {})
        after(r) == IF View(r) = Absent THEN {txn.group} ELSE View(r) \cup {txn.group}
    IN  Do("lead", [txn EXCEPT !.pc = "finish",
                        !.own = [r \in DOMAIN @ \cup leads |-> IF r \in leads THEN after(r) ELSE @[r]]])

(* Mutant: only what the group itself wrote is looked at.                  *)
TrackedUpdatesOnly(t) == {r \in DOMAIN t.seen : t.seen[r] # Absent /\ View(r) # t.seen[r]}

(* LeadTracker.finish: whatever is not as captured.                        *)
Tracked(t) == {r \in DOMAIN t.seen : View(r) # t.seen[r]}

Finish ==
    LET change(r) == IF r \in Tracked(txn)
                     THEN <<Journalled(r, txn.seen[r], View(r))>> ELSE <<>>
    IN  Do("finish", NextGroup([txn EXCEPT !.entries = @ \o change("LEAD") \o change("NEWLEAD")]))

(* The chunk's transaction commits; the next one starts, or the batch is   *)
(* committed.                                                              *)
CommitChunk ==
    /\ txn.pc = "read" /\ (txn.left = 0 \/ txn.group \notin Group)
    /\ db' = [r \in Row |-> View(r)]
    /\ journal' = journal \o txn.entries
    /\ IF txn.group \in Group
       THEN /\ txn' = [Idle EXCEPT !.pc = "read", !.group = txn.group, !.left = ChunkSize]
            /\ UNCHANGED status
       ELSE txn' = Idle /\ status' = "COMMITTED"
    /\ UNCHANGED <<attempt, edited, raced>>

(* An exception in a chunk: its transaction is gone, earlier ones stay.    *)
FailChunk ==
    /\ status = "COMMITTING" /\ txn # Idle
    /\ status' = "FAILED_RETRYABLE"
    /\ txn' = Idle
    /\ UNCHANGED <<attempt, db, journal, edited, raced>>

-----------------------------------------------------------------------------
(* Rollback.                                                               *)

Pending == {i \in DOMAIN journal : ~journal[i].undone}
LatestOf(r) == {i \in Pending : journal[i].row = r /\ \A j \in Pending : journal[j].row = r => j <= i}

Drift == {r \in Row : \E i \in LatestOf(r) : db[r] # journal[i].after}

StartRollback ==
    /\ status \in {"COMMITTING", "COMMITTED", "FAILED_RETRYABLE", "ROLLBACK_FAILED", "ROLLING_BACK"}
    /\ txn = Idle /\ journal # <<>>
    /\ IF Drift = {}
       THEN status' = "ROLLING_BACK" /\ txn' = [Idle EXCEPT !.pc = "undo", !.left = UndoSize]
       ELSE status' = "ROLLBACK_FAILED" /\ UNCHANGED txn
    /\ UNCHANGED <<attempt, db, journal, edited, raced>>

(* A user's note on the lead would be deleted with it.                     *)
ForeignDependents(r) == IF r = "NEWLEAD" /\ db["NOTE"] # Absent THEN {"NOTE"} ELSE {}

(* Newest entry first, those undone by this transaction left out.          *)
NextPending(undone) == {i \in Pending \ undone : \A j \in Pending \ undone : j <= i}


(* Mutant: the row is restored without another look at it.                 *)
UndoUnverified ==
    /\ txn.pc = "undo" /\ txn.left > 0
    /\ \E i \in NextPending(txn.undone) :
        txn' = [Put(txn, journal[i].row, journal[i].before) EXCEPT !.undone = @ \cup {i}, !.left = @ - 1]
    /\ UNCHANGED <<status, attempt, db, journal, edited, raced>>

(* One entry: the row is locked and must still be as the import left it.   *)
Undo ==
    /\ txn.pc = "undo" /\ txn.left > 0
    /\ \E i \in NextPending(txn.undone) :
        LET e == journal[i] IN
        /\ View(e.row) = e.after
        /\ e.op = "CREATE" => ForeignDependents(e.row) = {}
        /\ txn' = [Put(txn, e.row, e.before) EXCEPT !.undone = @ \cup {i}, !.left = @ - 1]
    /\ UNCHANGED <<status, attempt, db, journal, edited, raced>>

(* RollbackBlocked: nothing of this chunk stays.                           *)
BlockUndo ==
    /\ txn.pc = "undo" /\ txn.left > 0
    /\ \E i \in NextPending(txn.undone) :
        LET e == journal[i] IN
        View(e.row) # e.after \/ (e.op = "CREATE" /\ ForeignDependents(e.row) # {})
    /\ status' = "ROLLBACK_FAILED"
    /\ txn' = Idle
    /\ UNCHANGED <<attempt, db, journal, edited, raced>>

CommitUndo ==
    /\ txn.pc = "undo" /\ (txn.left = 0 \/ Pending \subseteq txn.undone)
    /\ db' = [r \in Row |-> View(r)]
    /\ journal' = [i \in DOMAIN journal |->
           [journal[i] EXCEPT !.undone = @ \/ i \in txn.undone]]
    /\ IF Pending \subseteq txn.undone
       THEN txn' = Idle /\ status' = "ROLLED_BACK"
       ELSE txn' = [Idle EXCEPT !.pc = "undo", !.left = UndoSize] /\ UNCHANGED status
    /\ UNCHANGED <<attempt, edited, raced>>

(* The process dies: the status stays, the transaction does not.           *)
Crash ==
    /\ txn # Idle
    /\ txn' = Idle
    /\ UNCHANGED <<status, attempt, db, journal, edited, raced>>

-----------------------------------------------------------------------------
(* Users.                                                                  *)

UserChanges(e, r, c) ==
    /\ edited[e] = NoEdit
    /\ db' = [db EXCEPT ![r] = c]
    /\ edited' = [edited EXCEPT ![e] = r]
    /\ raced' = IF InWindow(r) THEN raced \cup {e} ELSE raced
    /\ UNCHANGED <<status, attempt, journal, txn>>

(* Another service saves a row: it waits for the row's lock.               *)
EditRow(e, r) ==
    /\ db[r] # Absent /\ r # "NOTE" /\ ~Locked(r)
    /\ UserChanges(e, r, db[r] \cup {e})

(* A note on the new lead: its foreign key waits for the lead's row.       *)
AddNote(e) ==
    /\ db["NEWLEAD"] # Absent /\ db["NOTE"] = Absent /\ ~Locked("NEWLEAD")
    /\ UserChanges(e, "NOTE", {e})

Next ==
    \/ StartCommit \/ ReadOrder \/ Capture \/ WriteOrder \/ SnapshotCustomer
    \/ SaveCustomer \/ WriteLeads \/ Finish \/ CommitChunk \/ FailChunk
    \/ StartRollback \/ Undo \/ BlockUndo \/ CommitUndo \/ Crash
    \/ \E e \in Edit : AddNote(e) \/ \E r \in Row : EditRow(e, r)

Spec == Init /\ [][Next]_vars

-----------------------------------------------------------------------------
(* Properties.                                                             *)

(* A user's edit is lost, at the import or at its rollback, only if it was *)
(* made between a chunk's reading of the row and its locking of it: every  *)
(* other one stays, whatever retries, failures and rollbacks follow        *)
(* (rollback._undo re-verifies each row under its lock), and no row is     *)
(* deleted under a note written for it (rollback.foreign_dependents).      *)
EditsStay ==
    /\ \A e \in Edit :
          (edited[e] # NoEdit /\ e \notin raced) =>
              db[edited[e]] # Absent /\ e \in db[edited[e]]
    /\ db["NOTE"] # Absent => db["NEWLEAD"] # Absent

(* A rolled-back batch leaves nothing of itself: no row contains a group,  *)
(* so no row it created is left.                                           *)
NothingOfTheBatchIsLeft ==
    status = "ROLLED_BACK" => \A r \in Row : db[r] = Absent \/ db[r] \cap Group = {}

(* Whatever a group changed in a row is in a journal entry still to be     *)
(* undone, over failed attempts and half-done rollbacks: the journal is    *)
(* the only thing rollback trusts (journal.py).                            *)
ChangesAreJournalled ==
    \A r \in Row : db[r] # Absent =>
        \A g \in db[r] \cap Group :
            \E i \in Pending :
                /\ journal[i].row = r /\ g \in journal[i].after
                /\ journal[i].before = Absent \/ g \notin journal[i].before

(* The journal and the rows agree over failed attempts, crashes and half-  *)
(* done rollbacks: nothing of the batch is unaccounted for while it is     *)
(* there, and nothing is left once it is gone (commit.py, rollback.py).    *)
JournalIsComplete == TypeOK /\ ChangesAreJournalled /\ NothingOfTheBatchIsLeft
============================================================================
