---------------------------- MODULE ImportBatch ----------------------------
(***************************************************************************)
(* The life of one import batch: crm/importv2/services (preview, conflicts,*)
(* decisions, commit, cancel, rollback, state, locks) over the machine of  *)
(* crm/domain/import_state.py and the gate of crm/domain/import_confirm.py.*)
(*                                                                         *)
(* Preview, resolve, confirm and cancel are one transaction each, under    *)
(* the lock of the batch row.  Commit and rollback take many transactions  *)
(* under an advisory lock instead, and change the status by reading the    *)
(* row without its lock and saving the whole instance afterwards.          *)
(*                                                                         *)
(* The file, its profile and its validation do not change after upload: a  *)
(* batch they block is never confirmed and is left out, and with it the    *)
(* source that requires a business date (no supported one does).  So are   *)
(* operation keys: replaying one returns the stored result and changes     *)
(* nothing, and PAUSED_QUOTA: no write path raises QuotaExceededError.     *)
(***************************************************************************)
EXTENDS Naturals, FiniteSets

CONSTANTS
    Worker,         \* web requests and shells working on the batch
    Nobody,         \* the advisory lock is free
    NoDigest,       \* a batch without a preview hash
    NoPlan,         \* a batch without row plans
    NoEntry,        \* a chunk without journal entries
    Chunks,         \* chunks of the file; the first holds the contested order
    MaxDate,        \* bound: business dates an operator may enter
    MaxDecision,    \* bound: revisions of the migration decision consumed
    MaxEdits        \* bound: ownership changes users make to the lead

ASSUME NobodyIsFree == Nobody \notin Worker
ASSUME ChunksArePositive == Chunks \in Nat \ {0}
ASSUME ImportBoundsAreNat == {MaxDate, MaxDecision, MaxEdits} \subseteq Nat

VARIABLES
    row,        \* the ImportBatch row
    plan,       \* the row plans: decision revision and lead state they used
    decision,   \* live revision of the migration decision
    choice,     \* resolution of the blocking OWNERSHIP conflict
    approved,   \* what confirmed_by approved: the digest of the confirm
    lead,       \* ownership of the contested lead
    edits,      \* ownership changes users made so far
    journal,    \* journal[c]: what chunk c wrote and nobody undid
    lock,       \* holder of the advisory lock
    run         \* run[w]: the call w runs, with its batch instance

staged == <<plan, decision, choice, approved>>
business == <<lead, edits, journal>>
vars == <<row, staged, business, lock, run>>

-----------------------------------------------------------------------------
Status == {"PREVIEW", "AWAITING_RESOLUTION", "COMMITTING", "COMMITTED", "FAILED_RETRYABLE",
           "ROLLING_BACK", "ROLLED_BACK", "ROLLBACK_FAILED", "CANCELLED"}
NoDate == 0
Imported == MaxEdits + 1     \* the caretaker the import assigns
Ownership == 0..Imported
Plan == [decision : 0..MaxDecision, lead : Ownership] \cup {NoPlan}
Choice == {"", "REASSIGN", "KEEP_CURRENT"}
Digest == [plan : Plan, decision : 0..MaxDecision, choice : Choice, date : 0..MaxDate]
Row == [status : Status, hash : Digest \cup {NoDigest}, date : 0..MaxDate]
Content == [plan : Plan, choice : Choice]
Entry == [content : Content, before : Ownership, after : Ownership]

(* step: what comes next; to: the status a transition leads to; mine: the  *)
(* batch instance; content: plans and resolutions loaded; next: the chunk. *)
Run == [op : {"idle", "date", "commit", "rollback", "retry"},
        step : {"", "digest", "save", "read", "write", "load", "chunk", "drift", "undo"},
        to : Status, mine : Row, content : Content, next : Nat]

NewRow == [status |-> "PREVIEW", hash |-> NoDigest, date |-> NoDate]
Staged == [plan |-> plan, choice |-> choice]
Idle == [op |-> "idle", step |-> "", to |-> "PREVIEW", mine |-> NewRow,
         content |-> [plan |-> NoPlan, choice |-> ""], next |-> 1]

ASSUME NullsAreNoValues == NoDigest \notin Digest /\ NoEntry \notin Entry

Written == {c \in 1..Chunks : journal[c] # NoEntry}

TypeOK ==
    /\ row \in Row
    /\ plan \in Plan
    /\ decision \in 0..MaxDecision
    /\ choice \in Choice
    /\ approved \in Digest \cup {NoDigest}
    /\ lead \in Ownership
    /\ edits \in 0..MaxEdits
    /\ journal \in [1..Chunks -> Entry \cup {NoEntry}]
    /\ lock \in Worker \cup {Nobody}
    /\ run \in [Worker -> Run]

Init ==
    /\ row = NewRow
    /\ plan = NoPlan
    /\ decision = 0
    /\ choice = ""
    /\ approved = NoDigest
    /\ lead = 0
    /\ edits = 0
    /\ journal = [c \in 1..Chunks |-> NoEntry]
    /\ lock = Nobody
    /\ run = [w \in Worker |-> Idle]

-----------------------------------------------------------------------------
(* Rules.                                                                  *)

(* recompute_preview_hash: what is staged now, with the instance's date.   *)
Recompute(date) == [plan |-> plan, decision |-> decision, choice |-> choice, date |-> date]

(* IMPORT_TRANSITIONS and the guards of assert_transition: COMMITTING      *)
(* needs a confirmation and no open blocking conflict.                     *)
Edges ==
    [PREVIEW |-> {"AWAITING_RESOLUTION", "CANCELLED"},
     AWAITING_RESOLUTION |-> {"AWAITING_RESOLUTION", "COMMITTING", "CANCELLED"},
     COMMITTING |-> {"COMMITTED", "FAILED_RETRYABLE", "ROLLING_BACK"},
     COMMITTED |-> {"ROLLING_BACK"},
     FAILED_RETRYABLE |-> {"COMMITTING", "ROLLING_BACK", "CANCELLED"},
     ROLLING_BACK |-> {"ROLLED_BACK", "ROLLBACK_FAILED", "FAILED_RETRYABLE"},
     ROLLED_BACK |-> {}, ROLLBACK_FAILED |-> {}, CANCELLED |-> {}]

Allowed(from, to) ==
    /\ to \in Edges[from]
    /\ to = "COMMITTING" => choice # "" /\ approved # NoDigest

AdminRetry(op, from, to) ==
    op = "retry" /\ from = "ROLLBACK_FAILED" /\ to = "ROLLING_BACK"

NeedsRollback == {"COMMITTING", "COMMITTED", "FAILED_RETRYABLE"}

(* Mutant: nobody asks for the advisory lock.                              *)
LockIgnored == TRUE
LockIsFree == lock = Nobody

(* Drift: the lead no longer looks the way the batch left it.              *)
Drifted(c) == journal[c] # NoEntry /\ c = 1 /\ lead # journal[c].after

-----------------------------------------------------------------------------
(* Calls that are one transaction under the lock of the batch row.         *)

(* Mutant: a failed batch may be previewed again.                          *)
PreviewableAgain == {"PREVIEW", "AWAITING_RESOLUTION", "FAILED_RETRYABLE"}
Previewable == {"PREVIEW", "AWAITING_RESOLUTION"}

(* Plans and conflicts are replaced: earlier resolutions are gone.         *)
BuildPreview ==
    /\ row.status \in Previewable
    /\ plan' = [decision |-> decision, lead |-> lead]
    /\ choice' = ""
    /\ row' = [row EXCEPT !.status = "AWAITING_RESOLUTION",
                          !.hash = [Recompute(row.date) EXCEPT !.plan = plan', !.choice = ""]]
    /\ UNCHANGED <<decision, approved, business, lock, run>>

ResolveConflict(c) ==
    /\ row.status = "AWAITING_RESOLUTION"
    /\ choice = ""
    /\ choice' = c
    /\ row' = [row EXCEPT !.hash = [Recompute(row.date) EXCEPT !.choice = c]]
    /\ UNCHANGED <<plan, decision, approved, business, lock, run>>

(* The page posts the hash it showed; only the stored one passes, and it   *)
(* must still be the digest of what is staged.                             *)
Confirm ==
    /\ row.status \in {"AWAITING_RESOLUTION", "FAILED_RETRYABLE"}
    /\ choice # ""
    /\ row.hash = Recompute(row.date)
    /\ row' = [row EXCEPT !.status = "COMMITTING"]
    /\ approved' = row.hash
    /\ UNCHANGED <<plan, decision, choice, business, lock, run>>

Cancellable == {"PREVIEW", "AWAITING_RESOLUTION", "FAILED_RETRYABLE"}

(* Undone entries stay in the table, but only a rollback undoes and a      *)
(* batch never comes back from one.  Mutant: the journal is not looked at. *)
JournalIgnored == TRUE
NothingJournalled == Written = {}

Cancel ==
    /\ row.status \in Cancellable
    /\ NothingJournalled
    /\ row' = [row EXCEPT !.status = "CANCELLED"]
    /\ UNCHANGED <<staged, business, lock, run>>

-----------------------------------------------------------------------------
(* What others do meanwhile.                                               *)

(* Resolving or reopening a decision: each takes the next revision.        *)
MoveDecision ==
    /\ decision < MaxDecision
    /\ decision' = decision + 1
    /\ UNCHANGED <<row, plan, choice, approved, business, lock, run>>

EditLead ==
    /\ edits < MaxEdits
    /\ edits' = edits + 1
    /\ lead' = edits'
    /\ UNCHANGED <<row, staged, journal, lock, run>>

(* After a failed rollback a person puts the lead back as the import left  *)
(* it, before asking for the retry.                                        *)
Reconcile ==
    /\ row.status = "ROLLBACK_FAILED"
    /\ Drifted(1)
    /\ lead' = journal[1].after
    /\ UNCHANGED <<row, staged, edits, journal, lock, run>>

-----------------------------------------------------------------------------
(* set_batch_business_date: no lock, the status checked on the instance    *)
(* the view loaded.                                                        *)

LoadForDate(w, d) ==
    /\ run[w] = Idle
    /\ row.status \in Previewable
    /\ run' = [run EXCEPT ![w] = [Idle EXCEPT !.op = "date", !.step = "digest",
                                              !.mine = [row EXCEPT !.date = d]]]
    /\ UNCHANGED <<row, staged, business, lock>>

DigestDate(w) ==
    /\ run[w].step = "digest"
    /\ run[w].op = "date"
    /\ run' = [run EXCEPT ![w].step = "save",
                          ![w].mine.hash = Recompute(run[w].mine.date)]
    /\ UNCHANGED <<row, staged, business, lock>>

SaveDate(w) ==
    /\ run[w].step = "save"
    /\ row' = [row EXCEPT !.hash = run[w].mine.hash, !.date = run[w].mine.date]
    /\ run' = [run EXCEPT ![w] = Idle]
    /\ UNCHANGED <<staged, business, lock>>

-----------------------------------------------------------------------------
(* Commit and rollback: one call at a time holds the advisory lock, from   *)
(* its start to its end, its exception or the death of its connection.     *)

Start(w, op, step, to) ==
    /\ run[w] = Idle
    /\ LockIsFree
    /\ lock' = w
    /\ run' = [run EXCEPT ![w] = [Idle EXCEPT !.op = op, !.step = step, !.to = to, !.mine = row]]
    /\ UNCHANGED <<row, staged, business>>

End(w) == lock' = Nobody /\ run' = [run EXCEPT ![w] = Idle]

Goto(w, step) == run' = [run EXCEPT ![w].step = step] /\ UNCHANGED lock
Transition(w, to) == run' = [run EXCEPT ![w].step = "read", ![w].to = to] /\ UNCHANGED lock

StartCommit(w) ==
    \/ row.status = "FAILED_RETRYABLE" /\ Start(w, "commit", "read", "COMMITTING")
    \/ row.status = "COMMITTING" /\ Start(w, "commit", "digest", "COMMITTING")

StartRollback(w) ==
    \/ row.status = "ROLLING_BACK" /\ Start(w, "rollback", "drift", "ROLLING_BACK")
    \/ row.status \in NeedsRollback /\ Start(w, "rollback", "read", "ROLLING_BACK")

RetryRollback(w) ==
    row.status = "ROLLBACK_FAILED" /\ Start(w, "retry", "read", "ROLLING_BACK")

(* transition: re-read the status without a lock; raise, or decide ...     *)
ReadStatus(w) ==
    /\ run[w].step = "read"
    /\ LET ok == \/ AdminRetry(run[w].op, row.status, run[w].to)
                 \/ Allowed(row.status, run[w].to)
       IN IF ok THEN run' = [run EXCEPT ![w].step = "write", ![w].mine.status = run[w].to]
                     /\ UNCHANGED lock
                ELSE End(w)
    /\ UNCHANGED <<row, staged, business>>

(* ... and save every field of the instance.                               *)
SaveStatus(w) ==
    /\ run[w].step = "write"
    /\ row' = run[w].mine
    /\ CASE run[w].to = "COMMITTING" -> Goto(w, "digest")
         [] run[w].to = "ROLLING_BACK" -> Goto(w, "drift")
         [] OTHER -> End(w)
    /\ UNCHANGED <<staged, business>>

(* Stale preview: the staged digest is not the one on the instance.        *)
CheckDigest(w) ==
    /\ run[w].op = "commit"
    /\ run[w].step = "digest"
    /\ IF Recompute(run[w].mine.date) = run[w].mine.hash THEN Goto(w, "load")
       ELSE Transition(w, "FAILED_RETRYABLE")
    /\ UNCHANGED <<row, staged, business>>

(* Stale resolution: the lead is not as it was when the plan was made.     *)
LoadContent(w) ==
    /\ run[w].step = "load"
    /\ IF lead = plan.lead
       THEN /\ run' = [run EXCEPT ![w].step = "chunk", ![w].content = Staged]
            /\ UNCHANGED lock
       ELSE Transition(w, "FAILED_RETRYABLE")
    /\ UNCHANGED <<row, staged, business>>

(* One chunk, one transaction.  A chunk written by an earlier attempt      *)
(* finds its orders unchanged and writes nothing.                          *)
CommitChunk(w) ==
    LET c == run[w].next
        moved == IF c = 1 /\ run[w].content.choice = "REASSIGN" THEN Imported ELSE lead
    IN  /\ run[w].step = "chunk"
        /\ c <= Chunks
        /\ run' = [run EXCEPT ![w].next = c + 1]
        /\ IF c \in Written THEN UNCHANGED <<lead, journal>>
           ELSE /\ lead' = moved
                /\ journal' = [journal EXCEPT ![c] =
                       [content |-> run[w].content, before |-> lead, after |-> moved]]
        /\ UNCHANGED <<row, staged, edits, lock>>

(* The chunk's transaction fails as a whole.                               *)
FailChunk(w) ==
    /\ run[w].step = "chunk"
    /\ run[w].next <= Chunks
    /\ Transition(w, "FAILED_RETRYABLE")
    /\ UNCHANGED <<row, staged, business>>

EndCommit(w) ==
    /\ run[w].step = "chunk"
    /\ run[w].next > Chunks
    /\ Transition(w, "COMMITTED")
    /\ UNCHANGED <<row, staged, business>>

FindDrift(w) ==
    /\ run[w].step = "drift"
    /\ IF \E c \in Written : Drifted(c) THEN Transition(w, "ROLLBACK_FAILED")
       ELSE Goto(w, "undo")
    /\ UNCHANGED <<row, staged, business>>

Last == CHOOSE c \in Written : \A d \in Written : d <= c

Restore(c) ==
    /\ lead' = IF c = 1 THEN journal[c].before ELSE lead
    /\ journal' = [journal EXCEPT ![c] = NoEntry]

(* Undo the latest chunk; every entry is compared again under its lock.    *)
Undo(w) ==
    /\ run[w].step = "undo"
    /\ Written # {}
    /\ IF Drifted(Last) THEN Transition(w, "ROLLBACK_FAILED") /\ UNCHANGED <<lead, journal>>
       ELSE Restore(Last) /\ UNCHANGED <<lock, run>>
    /\ UNCHANGED <<row, staged, edits>>

EndRollback(w) ==
    /\ run[w].step = "undo"
    /\ Written = {}
    /\ Transition(w, "ROLLED_BACK")
    /\ UNCHANGED <<row, staged, business>>

(* The process dies: its connection releases the advisory lock.            *)
Crash(w) ==
    /\ run[w] # Idle
    /\ run' = [run EXCEPT ![w] = Idle]
    /\ lock' = IF lock = w THEN Nobody ELSE lock
    /\ UNCHANGED <<row, staged, business>>

-----------------------------------------------------------------------------
Next ==
    \/ BuildPreview
    \/ \E c \in Choice \ {""} : ResolveConflict(c)
    \/ Confirm
    \/ Cancel
    \/ MoveDecision
    \/ EditLead
    \/ Reconcile
    \/ \E w \in Worker :
          \/ \E d \in 1..MaxDate : LoadForDate(w, d)
          \/ DigestDate(w)
          \/ SaveDate(w)
          \/ StartCommit(w)
          \/ StartRollback(w)
          \/ RetryRollback(w)
          \/ ReadStatus(w)
          \/ SaveStatus(w)
          \/ CheckDigest(w)
          \/ LoadContent(w)
          \/ CommitChunk(w)
          \/ FailChunk(w)
          \/ EndCommit(w)
          \/ FindDrift(w)
          \/ Undo(w)
          \/ EndRollback(w)
          \/ Crash(w)

Spec == Init /\ [][Next]_vars

-----------------------------------------------------------------------------
(* Safety.                                                                 *)

(* COMMITTED means every chunk is in the database, and ROLLED_BACK,        *)
(* CANCELLED and the states before a confirmation that none is, whatever   *)
(* failed, crashed, was retried or ran at the same time (_commit_locked,   *)
(* _rollback_locked, cancel_batch under batch_running).                    *)
StatusTellsTheTruth ==
    /\ row.status = "COMMITTED" => Written = 1..Chunks
    /\ row.status \in {"PREVIEW", "AWAITING_RESOLUTION", "ROLLED_BACK", "CANCELLED"} => Written = {}

(* What a chunk wrote is what the last confirmation approved: the plans    *)
(* and the resolution whose digest the operator saw (_confirm_locked).     *)
WritesAreApproved ==
    \A c \in Written :
        /\ approved # NoDigest
        /\ journal[c].content = [plan |-> approved.plan, choice |-> approved.choice]

(* The batch's mark on the lead is always covered by a journal entry that  *)
(* can take it back (journal.py, LeadTracker and _undo).                   *)
EffectIsJournalled == lead = Imported => journal[1] # NoEntry

(* The batch's row, what its chunks have written and what the journal can  *)
(* take back agree in every state, also between two chunks and after a     *)
(* crash (commit._commit_locked, rollback._rollback_locked).               *)
BatchIsConsistent == TypeOK /\ StatusTellsTheTruth /\ EffectIsJournalled

(* Business rows are written only while the batch is COMMITTING and taken  *)
(* back only while it is ROLLING_BACK: no call that lost its turn writes.  *)
(* A user's change of the lead is replaced only by a later one, a running  *)
(* commit or a person reconciling (find_drift, _undo under the row lock).  *)
WritesNeedTheirStatus ==
    [][/\ \A c \in 1..Chunks :
             /\ journal[c] = NoEntry /\ journal'[c] # NoEntry => row.status = "COMMITTING"
             /\ journal[c] # NoEntry /\ journal'[c] = NoEntry => row.status = "ROLLING_BACK"
       /\ lead # Imported /\ lead' # lead =>
             \/ lead' = edits' /\ edits' = edits + 1
             \/ row.status = "COMMITTING" /\ lead' = Imported
             \/ row.status = "ROLLBACK_FAILED"]_vars

(* What the documents say and the code does not do.                        *)

(* crm/importv2/services/cancel.py: CANCELLED means "nothing was written"; *)
(* the machine has no edge out of it (IMPORT_TRANSITIONS), and every       *)
(* change of the status goes through transition, whoever asks.             *)
CancelledIsFinal == [][row.status = "CANCELLED" => row'.status = "CANCELLED"]_vars
=============================================================================
