------------------------- MODULE ImportBatchProofs -------------------------
(***************************************************************************)
(* Proofs about ImportBatch, for every set of workers, every number of     *)
(* chunks and every bound.                                                 *)
(***************************************************************************)
EXTENDS ImportBatch, WellFoundedInduction, TLAPS

-----------------------------------------------------------------------------
(* The inductive invariant.                                                *)

Unwritten == {"PREVIEW", "AWAITING_RESOLUTION", "ROLLED_BACK", "CANCELLED"}
Holding == {"commit", "rollback", "retry"}     \* calls under the advisory lock

(* What is staged is what the last confirmation approved.                  *)
Fits == approved # NoDigest /\ approved.plan = plan /\ approved.choice = choice

(* A call under the lock goes through its steps in order, and while it is  *)
(* past its first transition nobody else moves the status.                 *)
StepSound(r) ==
    /\ r.op = "idle" => r = Idle
    /\ r.op = "date" => r.step \in {"digest", "save"}
    /\ r.op = "commit" => /\ r.step \in {"read", "write", "digest", "load", "chunk"}
                          /\ r.to \in {"COMMITTING", "FAILED_RETRYABLE", "COMMITTED"}
                          /\ r.step \in {"digest", "load", "chunk"} => r.to = "COMMITTING"
    /\ r.op \in {"rollback", "retry"} =>
          /\ r.step \in {"read", "write", "drift", "undo"}
          /\ r.to \in {"ROLLING_BACK", "ROLLBACK_FAILED", "ROLLED_BACK"}

HoldSound(r) ==
    /\ row.status \notin Previewable /\ Fits
    /\ r.step \in {"digest", "load", "chunk"} \/ r.to \in {"FAILED_RETRYABLE", "COMMITTED"}
          => row.status = "COMMITTING"
    /\ r.step \in {"drift", "undo"} \/ r.to \in {"ROLLBACK_FAILED", "ROLLED_BACK"}
          => row.status = "ROLLING_BACK"
    /\ r.step = "chunk" => /\ r.content = Staged
                           /\ r.next \in 1..(Chunks + 1) /\ 1..(r.next - 1) \subseteq Written
    /\ r.to = "COMMITTING" /\ r.step # "chunk" => r.next = 1
    /\ r.step = "write" => r.mine.status = r.to
    /\ r.to = "COMMITTED" => Written = 1..Chunks
    /\ r.to = "ROLLED_BACK" => Written = {}

RunsAreSound ==
    \A w \in Worker : /\ StepSound(run[w])
                      /\ run[w].op \in Holding => lock = w /\ HoldSound(run[w])

RowIsSound == row.status \notin Previewable \cup {"CANCELLED"} => Fits

(* What a chunk wrote is what is staged, and the entry of the contested    *)
(* order can take the import's mark back.                                  *)
JournalIsSound ==
    /\ \A c \in Written : journal[c].content = Staged
    /\ journal[1] # NoEntry => /\ journal[1].before # Imported
                               /\ journal[1].after \in {Imported, journal[1].before}

IInv ==
    /\ TypeOK /\ StatusTellsTheTruth /\ EffectIsJournalled
    /\ RunsAreSound /\ RowIsSound /\ JournalIsSound

-----------------------------------------------------------------------------
(* Types.                                                                  *)

(* The marks of the import are instants no user's change can take.         *)
LEMMA ImportedIsOwnership ==
    Imported \in Ownership /\ 0 \in Ownership /\ Imported \in Nat /\ 1 \in 1..Chunks
  BY ImportBoundsAreNat, ChunksArePositive DEF Imported, Ownership

(* No call at all.                                                         *)
LEMMA IdleIsARun == Idle \in Run /\ Idle.op = "idle" /\ NewRow \in Row /\ StepSound(Idle)
<1>1. NewRow \in Row
  BY ImportBoundsAreNat DEF NewRow, Row, Status, NoDate
<1>2. [plan |-> NoPlan, choice |-> ""] \in Content
  BY DEF Content, Plan, Choice
<1>3. Idle \in Run /\ Idle.op = "idle"
  BY <1>1, <1>2 DEF Idle, Run, Status
<1> QED
  BY <1>1, <1>3 DEF StepSound

(* The digest of what is staged.                                           *)
LEMMA RecomputeIsDigest ==
    ASSUME TypeOK, NEW d \in 0..MaxDate
    PROVE  /\ Recompute(d) \in Digest /\ Recompute(d) # NoDigest
           /\ Recompute(d).plan = plan /\ Recompute(d).choice = choice
<1>1. Recompute(d) \in Digest
  BY DEF TypeOK, Recompute, Digest
<1> QED
  BY <1>1, NullsAreNoValues DEF Recompute

(* The advisory lock has one holder.                                       *)
LEMMA HolderIsAlone ==
    ASSUME IInv, NEW w \in Worker, lock \in {w, Nobody}, NEW v \in Worker, v # w
    PROVE  run[v].op \notin Holding
  BY NobodyIsFree DEF IInv, RunsAreSound

(* A batch that may be previewed is nobody's yet.                          *)
LEMMA PreviewableIsFree ==
    ASSUME IInv, row.status \in Previewable, NEW v \in Worker
    PROVE  run[v].op \notin Holding
  BY DEF IInv, RunsAreSound, HoldSound

-----------------------------------------------------------------------------
(* Calls that are one transaction.                                         *)

(* What such a call must establish: the runs and the lock stay, and what   *)
(* the holder relies on still holds.                                       *)
LEMMA CallPreserves ==
    ASSUME IInv, UNCHANGED <<lock, run>>, TypeOK',
           StatusTellsTheTruth', EffectIsJournalled', RowIsSound', JournalIsSound',
           \A r \in Run : HoldSound(r) => HoldSound(r)'
    PROVE  IInv'
<1>1. RunsAreSound'
  <2> SUFFICES ASSUME NEW w \in Worker
               PROVE  /\ StepSound(run[w])
                      /\ run[w].op \in Holding => lock = w /\ HoldSound(run[w])'
    BY DEF RunsAreSound
  <2>1. run[w] \in Run
    BY DEF IInv, TypeOK
  <2>2. StepSound(run[w]) /\ (run[w].op \in Holding => lock = w /\ HoldSound(run[w]))
    BY DEF IInv, RunsAreSound
  <2>3. PICK r \in Run : r = run[w]
    BY <2>1
  <2> QED
    BY <2>2, <2>3 DEF HoldSound
<1> QED
  BY <1>1 DEF IInv

(* The preview: nothing is written yet, nobody holds the batch.            *)
LEMMA BuildPreviewPreserves == ASSUME IInv, BuildPreview PROVE IInv'
<1> DEFINE p == [decision |-> decision, lead |-> lead]
           h == [Recompute(row.date) EXCEPT !.plan = p, !.choice = ""]
<1>1. /\ row.status \in Previewable /\ plan' = p /\ choice' = ""
      /\ row' = [row EXCEPT !.status = "AWAITING_RESOLUTION", !.hash = h]
      /\ UNCHANGED <<decision, approved, lead, edits, journal, lock, run>>
  BY DEF BuildPreview, business
<1>2. p \in Plan /\ row \in Row
  BY DEF IInv, TypeOK, Plan
<1>3. h \in Digest
  <2>1. Recompute(row.date) \in Digest
    BY <1>2, RecomputeIsDigest DEF IInv, Row
  <2> QED
    BY <1>2, <2>1 DEF Digest, Choice
<1> HIDE DEF p, h
<1>4. row' \in Row /\ row'.status = "AWAITING_RESOLUTION"
  BY <1>1, <1>2, <1>3 DEF Row, Status
<1>5. TypeOK'
  BY <1>1, <1>2, <1>4 DEF IInv, TypeOK, Choice
<1>6. Written = {} /\ Written' = {}
  BY <1>1 DEF IInv, StatusTellsTheTruth, Previewable, Written
<1>7. StatusTellsTheTruth' /\ RowIsSound'
  BY <1>4, <1>6 DEF StatusTellsTheTruth, RowIsSound, Previewable
<1>8. EffectIsJournalled' /\ JournalIsSound'
  BY <1>1, <1>6, ImportedIsOwnership DEF IInv, EffectIsJournalled, JournalIsSound, Written
<1>9. \A r \in Run : ~ HoldSound(r)
  BY <1>1 DEF HoldSound
<1> QED
  BY <1>1, <1>5, <1>7, <1>8, <1>9, CallPreserves

(* So with the resolution of a conflict.                                   *)
LEMMA ResolveConflictPreserves ==
    ASSUME IInv, NEW c \in Choice, ResolveConflict(c) PROVE IInv'
<1> DEFINE h == [Recompute(row.date) EXCEPT !.choice = c]
<1>1. /\ row.status = "AWAITING_RESOLUTION" /\ choice' = c
      /\ row' = [row EXCEPT !.hash = h]
      /\ UNCHANGED <<plan, decision, approved, lead, edits, journal, lock, run>>
  BY DEF ResolveConflict, business
<1>2. row \in Row /\ h \in Digest
  <2>1. row \in Row /\ Recompute(row.date) \in Digest
    BY RecomputeIsDigest DEF IInv, Row, TypeOK
  <2> QED
    BY <2>1 DEF Digest
<1> HIDE DEF h
<1>3. row' \in Row /\ row'.status = "AWAITING_RESOLUTION"
  BY <1>1, <1>2 DEF Row
<1>4. TypeOK'
  BY <1>1, <1>3 DEF IInv, TypeOK
<1>5. Written = {} /\ Written' = {}
  BY <1>1 DEF IInv, StatusTellsTheTruth, Written
<1>6. StatusTellsTheTruth' /\ RowIsSound'
  BY <1>3, <1>5 DEF StatusTellsTheTruth, RowIsSound, Previewable
<1>7. EffectIsJournalled' /\ JournalIsSound'
  BY <1>1, <1>5, ImportedIsOwnership DEF IInv, EffectIsJournalled, JournalIsSound, Written
<1>8. \A r \in Run : ~ HoldSound(r)
  BY <1>1 DEF HoldSound, Previewable
<1> QED
  BY <1>1, <1>4, <1>6, <1>7, <1>8, CallPreserves

(* The confirmation: what it approves is what is staged, and what earlier  *)
(* attempts wrote was staged already.                                      *)
LEMMA ConfirmPreserves == ASSUME IInv, Confirm PROVE IInv'
<1>1. /\ row.status \in {"AWAITING_RESOLUTION", "FAILED_RETRYABLE"}
      /\ row.hash = Recompute(row.date) /\ approved' = row.hash
      /\ row' = [row EXCEPT !.status = "COMMITTING"]
      /\ UNCHANGED <<plan, decision, choice, lead, edits, journal, lock, run>>
  BY DEF Confirm, business
<1>2. row \in Row
  BY DEF IInv, TypeOK
<1>3. row' \in Row /\ row'.status = "COMMITTING"
  BY <1>1, <1>2 DEF Row, Status
<1>4. /\ Recompute(row.date) \in Digest /\ Recompute(row.date) # NoDigest
      /\ Recompute(row.date).plan = plan /\ Recompute(row.date).choice = choice
  BY <1>2, RecomputeIsDigest DEF IInv, Row
<1>5. TypeOK'
  BY <1>1, <1>3, <1>4 DEF IInv, TypeOK
<1>6. Fits'
  BY <1>1, <1>4 DEF Fits
<1>7. Written' = Written
  BY <1>1 DEF Written
<1>8. StatusTellsTheTruth' /\ RowIsSound'
  BY <1>3, <1>6 DEF StatusTellsTheTruth, RowIsSound
<1>9. EffectIsJournalled' /\ JournalIsSound'
  BY <1>1, <1>7 DEF IInv, EffectIsJournalled, JournalIsSound, Staged
<1>10. ASSUME NEW r \in Run, HoldSound(r) PROVE HoldSound(r)'
  <2>1. row'.status \notin Previewable
    BY <1>3 DEF Previewable
  <2>2. /\ r.step \notin {"digest", "load", "chunk", "drift", "undo"}
        /\ r.to \notin {"FAILED_RETRYABLE", "COMMITTED", "ROLLBACK_FAILED", "ROLLED_BACK"}
    BY <1>1, <1>10 DEF HoldSound
  <2> QED
    BY <1>6, <1>10, <2>1, <2>2 DEF HoldSound
<1> QED
  BY <1>1, <1>5, <1>8, <1>9, <1>10, CallPreserves

(* The cancellation: nothing is written.                                   *)
LEMMA CancelPreserves == ASSUME IInv, Cancel PROVE IInv'
<1>1. /\ row.status \in Cancellable /\ Written = {}
      /\ row' = [row EXCEPT !.status = "CANCELLED"]
      /\ UNCHANGED <<plan, decision, choice, approved, lead, edits, journal, lock, run>>
  BY DEF Cancel, staged, business, NothingJournalled
<1>2. row \in Row
  BY DEF IInv, TypeOK
<1>3. row' \in Row /\ row'.status = "CANCELLED"
  BY <1>1, <1>2 DEF Row, Status
<1>4. TypeOK'
  BY <1>1, <1>3 DEF IInv, TypeOK
<1>5. Written' = {}
  BY <1>1 DEF Written
<1>6. StatusTellsTheTruth' /\ RowIsSound'
  BY <1>3, <1>5 DEF StatusTellsTheTruth, RowIsSound
<1>7. EffectIsJournalled' /\ JournalIsSound'
  BY <1>1, <1>5 DEF IInv, EffectIsJournalled, JournalIsSound, Written
<1>8. ASSUME NEW r \in Run, HoldSound(r) PROVE HoldSound(r)'
  <2>1. row'.status \notin Previewable /\ Fits'
    BY <1>1, <1>3, <1>8 DEF Previewable, Fits, HoldSound
  <2>2. /\ r.step \notin {"digest", "load", "chunk", "drift", "undo"}
        /\ r.to \notin {"FAILED_RETRYABLE", "COMMITTED", "ROLLBACK_FAILED"}
    BY <1>1, <1>8 DEF HoldSound, Cancellable
  <2>3. r.to # "ROLLED_BACK"
    BY <1>1, <1>8 DEF HoldSound, Cancellable
  <2> QED
    BY <1>8, <2>1, <2>2, <2>3 DEF HoldSound
<1> QED
  BY <1>1, <1>4, <1>6, <1>7, <1>8, CallPreserves

(* The decision moves on, a user changes the lead or a person reconciles   *)
(* it: neither touches the batch.                                          *)
LEMMA OthersPreserve ==
    ASSUME IInv, MoveDecision \/ EditLead \/ Reconcile PROVE IInv'
<1>1. UNCHANGED <<row, plan, choice, approved, journal, lock, run>>
  BY DEF MoveDecision, EditLead, Reconcile, staged, business
<1>2. /\ decision' \in 0..MaxDecision /\ lead' \in Ownership /\ edits' \in 0..MaxEdits
      /\ lead' = Imported => journal[1] # NoEntry
  <2>1. CASE MoveDecision
    <3>1. decision \in 0..MaxDecision /\ decision < MaxDecision /\ decision' = decision + 1
      BY <2>1 DEF MoveDecision, IInv, TypeOK
    <3>2. decision' \in 0..MaxDecision
      BY <3>1, ImportBoundsAreNat
    <3>3. UNCHANGED <<lead, edits>>
      BY <2>1 DEF MoveDecision, business
    <3> QED
      BY <3>2, <3>3 DEF IInv, TypeOK, EffectIsJournalled
  <2>2. CASE EditLead
    <3>1. edits \in 0..MaxEdits /\ edits < MaxEdits /\ edits' = edits + 1 /\ lead' = edits'
      BY <2>2 DEF EditLead, IInv, TypeOK
    <3>2. edits' \in 0..MaxEdits /\ lead' \in Ownership /\ lead' # Imported
      BY <3>1, ImportBoundsAreNat DEF Ownership, Imported
    <3>3. UNCHANGED decision
      BY <2>2 DEF EditLead, staged
    <3> QED
      BY <3>2, <3>3 DEF IInv, TypeOK
  <2>3. CASE Reconcile
    <3>1. /\ journal[1] # NoEntry /\ lead' = journal[1].after
          /\ UNCHANGED <<decision, edits>>
      BY <2>3 DEF Reconcile, Drifted, staged
    <3>2. journal[1] \in Entry
      BY <3>1, ImportedIsOwnership DEF IInv, TypeOK
    <3> QED
      BY <3>1, <3>2 DEF IInv, TypeOK, Entry
  <2> QED
    BY <2>1, <2>2, <2>3
<1>3. TypeOK'
  BY <1>1, <1>2 DEF IInv, TypeOK
<1>4. Written' = Written /\ Fits' = Fits /\ Staged' = Staged
  BY <1>1 DEF Written, Fits, Staged
<1>5. StatusTellsTheTruth' /\ RowIsSound' /\ JournalIsSound'
  BY <1>1, <1>4 DEF IInv, StatusTellsTheTruth, RowIsSound, JournalIsSound
<1>6. EffectIsJournalled'
  BY <1>1, <1>2 DEF EffectIsJournalled
<1>7. \A r \in Run : HoldSound(r) => HoldSound(r)'
  BY <1>1, <1>4 DEF HoldSound
<1> QED
  BY <1>1, <1>3, <1>5, <1>6, <1>7, CallPreserves

-----------------------------------------------------------------------------
(* Steps of a call.                                                        *)

Step == {"", "digest", "save", "read", "write", "load", "chunk", "drift", "undo"}

(* A call that goes on to another step ...                                 *)
LEMMA StepGoesOn ==
    ASSUME NEW q \in Run, NEW s \in Step, NEW r, r = [q EXCEPT !.step = s]
    PROVE  /\ r \in Run /\ r.op = q.op /\ r.step = s /\ r.to = q.to
           /\ r.mine = q.mine /\ r.content = q.content /\ r.next = q.next
  BY DEF Run, Step

(* ... or to another transition.                                           *)
LEMMA TransitionGoesOn ==
    ASSUME NEW q \in Run, NEW t \in Status, NEW r, r = [q EXCEPT !.step = "read", !.to = t]
    PROVE  r \in Run /\ r.op = q.op /\ r.step = "read" /\ r.to = t
  BY DEF Run

(* What a step of one call must establish for the calls to stay sound.     *)
LEMMA RunsStaySound ==
    ASSUME IInv, NEW w \in Worker, NEW r \in Run, run' = [run EXCEPT ![w] = r],
           StepSound(r), r.op \in Holding => lock' = w /\ HoldSound(r)',
           \/ lock \in {w, Nobody}
           \/ lock' = lock /\ \A q \in Run : HoldSound(q) => HoldSound(q)'
    PROVE  RunsAreSound' /\ run' \in [Worker -> Run]
<1>1. run \in [Worker -> Run]
  BY DEF IInv, TypeOK
<1>2. ASSUME NEW v \in Worker
      PROVE  StepSound(run'[v]) /\ (run'[v].op \in Holding => lock' = v /\ HoldSound(run[v])')
  <2>1. CASE v = w
    BY <1>1, <2>1 DEF HoldSound
  <2>2. CASE v # w
    <3>1. run'[v] = run[v] /\ StepSound(run[v])
      BY <1>1, <2>2 DEF IInv, RunsAreSound
    <3>2. CASE lock \in {w, Nobody}
      BY <2>2, <3>1, <3>2, HolderIsAlone
    <3>3. CASE lock' = lock /\ \A q \in Run : HoldSound(q) => HoldSound(q)'
      <4>1. run[v] \in Run /\ (run[v].op \in Holding => lock = v /\ HoldSound(run[v]))
        BY <1>1 DEF IInv, RunsAreSound
      <4>2. PICK q \in Run : q = run[v]
        BY <4>1
      <4> QED
        BY <3>1, <3>3, <4>1, <4>2 DEF HoldSound
    <3> QED
      BY <3>2, <3>3
  <2> QED
    BY <2>1, <2>2
<1> QED
  BY <1>1, <1>2 DEF RunsAreSound

(* A step that changes the calls and the lock only.                        *)
LEMMA StepPreserves ==
    ASSUME IInv, NEW w \in Worker, NEW r \in Run, run' = [run EXCEPT ![w] = r],
           UNCHANGED <<row, staged, business>>, lock' \in Worker \cup {Nobody},
           StepSound(r), r.op \in Holding => lock' = w /\ HoldSound(r),
           lock \in {w, Nobody} \/ lock' = lock
    PROVE  IInv'
<1>1. UNCHANGED <<row, plan, decision, choice, approved, lead, edits, journal>>
  BY DEF staged, business
<1>2. Written' = Written /\ Fits' = Fits /\ Staged' = Staged
  BY <1>1 DEF Written, Fits, Staged
<1>3. \A q \in Run : HoldSound(q) => HoldSound(q)'
  BY <1>1, <1>2 DEF HoldSound
<1>4. RunsAreSound' /\ run' \in [Worker -> Run]
  BY <1>3, RunsStaySound
<1>5. TypeOK'
  BY <1>1, <1>4 DEF IInv, TypeOK
<1>6. StatusTellsTheTruth' /\ RowIsSound' /\ JournalIsSound' /\ EffectIsJournalled'
  BY <1>1, <1>2 DEF IInv, StatusTellsTheTruth, RowIsSound, JournalIsSound, EffectIsJournalled
<1> QED
  BY <1>4, <1>5, <1>6 DEF IInv

(* What the invariant says of a call at work.                              *)
LEMMA RunFacts ==
    ASSUME IInv, NEW w \in Worker
    PROVE  /\ run[w] \in Run /\ StepSound(run[w]) /\ run \in [Worker -> Run]
           /\ lock \in Worker \cup {Nobody}
           /\ run[w].step \in {"read", "write", "load", "chunk", "drift", "undo"}
                 => run[w].op \in Holding
           /\ run[w].op \in Holding => lock = w /\ HoldSound(run[w])
<1>1. /\ run[w] \in Run /\ StepSound(run[w]) /\ run \in [Worker -> Run]
      /\ lock \in Worker \cup {Nobody}
      /\ run[w].op \in Holding => lock = w /\ HoldSound(run[w])
  BY DEF IInv, TypeOK, RunsAreSound
<1>2. run[w].op \in {"idle", "date", "commit", "rollback", "retry"}
  BY <1>1 DEF Run
<1>3. Idle.step = ""
  BY DEF Idle
<1> QED
  BY <1>1, <1>2, <1>3 DEF StepSound, Holding

(* The end of a call: its exception, its return or its death.              *)
LEMMA EndPreserves ==
    ASSUME IInv, NEW w \in Worker, run' = [run EXCEPT ![w] = Idle],
           \/ lock' = Nobody /\ lock = w
           \/ lock' = lock /\ lock # w,
           UNCHANGED <<row, staged, business>>
    PROVE  IInv'
<1>1. lock' \in Worker \cup {Nobody}
  BY RunFacts
<1>2. Idle.op \notin Holding
  BY IdleIsARun DEF Holding
<1> QED
  BY <1>1, <1>2, IdleIsARun, StepPreserves

(* set_batch_business_date, up to its save.                                *)
LEMMA DatePreserves ==
    ASSUME IInv, NEW w \in Worker,
           (\E d \in 1..MaxDate : LoadForDate(w, d)) \/ DigestDate(w)
    PROVE  IInv'
<1>1. UNCHANGED <<row, staged, business, lock>>
  BY DEF LoadForDate, DigestDate
<1>2. ASSUME NEW r \in Run, r.op = "date", r.step \in {"digest", "save"},
             run' = [run EXCEPT ![w] = r]
      PROVE  IInv'
  <2>1. StepSound(r) /\ r.op \notin Holding
    BY <1>2 DEF StepSound, Holding
  <2>2. lock' \in Worker \cup {Nobody}
    BY <1>1, RunFacts
  <2> QED
    BY <1>1, <1>2, <2>1, <2>2, StepPreserves
<1>3. CASE \E d \in 1..MaxDate : LoadForDate(w, d)
  <2>1. PICK d \in 1..MaxDate : LoadForDate(w, d)
    BY <1>3
  <2> DEFINE m == [row EXCEPT !.date = d]
             r == [Idle EXCEPT !.op = "date", !.step = "digest", !.mine = m]
  <2>2. run' = [run EXCEPT ![w] = r]
    BY <2>1 DEF LoadForDate
  <2>3. m \in Row
    BY ImportBoundsAreNat DEF IInv, TypeOK, Row
  <2> HIDE DEF m
  <2>4. r \in Run /\ r.op = "date" /\ r.step = "digest"
    BY <2>3, IdleIsARun DEF Run
  <2> HIDE DEF r
  <2> QED
    BY <1>2, <2>2, <2>4
<1>4. CASE DigestDate(w)
  <2> DEFINE h == Recompute(run[w].mine.date)
             r == [run[w] EXCEPT !.step = "save", !.mine.hash = h]
  <2>1. run' = [run EXCEPT ![w] = r] /\ run[w].op = "date"
    BY <1>4, RunFacts DEF DigestDate
  <2>2. run[w] \in Run /\ run[w].mine \in Row
    BY RunFacts DEF Run
  <2>3. h \in Digest
    BY <2>2, RecomputeIsDigest DEF IInv, Row
  <2> HIDE DEF h
  <2>4. [run[w].mine EXCEPT !.hash = h] \in Row
    BY <2>2, <2>3 DEF Row
  <2>5. r \in Run /\ r.op = "date" /\ r.step = "save"
    BY <2>1, <2>2, <2>4 DEF Run
  <2> HIDE DEF r
  <2> QED
    BY <1>2, <2>1, <2>5
<1> QED
  BY <1>3, <1>4

(* Its save takes hash and date from the instance, the status stays.       *)
LEMMA SaveDatePreserves == ASSUME IInv, NEW w \in Worker, SaveDate(w) PROVE IInv'
<1>1. /\ run[w].step = "save"
      /\ row' = [row EXCEPT !.hash = run[w].mine.hash, !.date = run[w].mine.date]
      /\ run' = [run EXCEPT ![w] = Idle]
      /\ UNCHANGED <<plan, decision, choice, approved, lead, edits, journal, lock>>
  BY DEF SaveDate, staged, business
<1>2. run[w].mine \in Row /\ row \in Row
  BY RunFacts DEF Run, IInv, TypeOK
<1>3. row' \in Row /\ row'.status = row.status
  BY <1>1, <1>2 DEF Row
<1>4. Written' = Written /\ Fits' = Fits /\ Staged' = Staged
  BY <1>1 DEF Written, Fits, Staged
<1>5. \A q \in Run : HoldSound(q) => HoldSound(q)'
  BY <1>3, <1>4 DEF HoldSound
<1>6. Idle.op \notin Holding
  BY IdleIsARun DEF Holding
<1>7. RunsAreSound' /\ run' \in [Worker -> Run]
  BY <1>1, <1>5, <1>6, IdleIsARun, RunsStaySound
<1>8. TypeOK'
  BY <1>1, <1>3, <1>7 DEF IInv, TypeOK
<1>9. StatusTellsTheTruth' /\ RowIsSound' /\ JournalIsSound' /\ EffectIsJournalled'
  BY <1>1, <1>3, <1>4
  DEF IInv, StatusTellsTheTruth, RowIsSound, JournalIsSound, EffectIsJournalled
<1> QED
  BY <1>7, <1>8, <1>9 DEF IInv

(* A commit, a rollback or its retry takes the advisory lock.              *)
LEMMA StartPreserves ==
    ASSUME IInv, NEW w \in Worker, StartCommit(w) \/ StartRollback(w) \/ RetryRollback(w)
    PROVE  IInv'
<1>1. PICK op \in Holding, step \in {"read", "digest", "drift"}, to \in {"COMMITTING", "ROLLING_BACK"} :
         /\ Start(w, op, step, to)
         /\ row.status \in {"COMMITTING", "COMMITTED", "FAILED_RETRYABLE", "ROLLING_BACK",
                            "ROLLBACK_FAILED"}
         /\ op = "commit" => step \in {"read", "digest"} /\ to = "COMMITTING"
         /\ op # "commit" => step \in {"read", "drift"} /\ to = "ROLLING_BACK"
         /\ step = "digest" => row.status = "COMMITTING"
         /\ step = "drift" => row.status = "ROLLING_BACK"
  BY DEF StartCommit, StartRollback, RetryRollback, Holding, NeedsRollback
<1> DEFINE r == [Idle EXCEPT !.op = op, !.step = step, !.to = to, !.mine = row]
<1>2. /\ run[w] = Idle /\ lock = Nobody /\ lock' = w /\ run' = [run EXCEPT ![w] = r]
      /\ UNCHANGED <<row, staged, business>>
  BY <1>1 DEF Start, LockIsFree
<1>3. row \in Row
  BY DEF IInv, TypeOK
<1>4. r \in Run /\ r.op = op /\ r.step = step /\ r.to = to /\ r.next = 1
  <2>1. Idle.next = 1
    BY DEF Idle
  <2> QED
    BY <1>3, <2>1, IdleIsARun DEF Run, Holding, Status
<1> HIDE DEF r
<1>5. Fits /\ row.status \notin Previewable
  BY <1>1 DEF IInv, RowIsSound, Previewable
<1>6. StepSound(r) /\ HoldSound(r)
  BY <1>1, <1>4, <1>5 DEF StepSound, HoldSound, Holding
<1> QED
  BY <1>2, <1>4, <1>6, StepPreserves

(* A step to another step, or to another transition, of a call that holds  *)
(* the lock and keeps it.                                                  *)
LEMMA HolderGoesOn ==
    ASSUME IInv, NEW w \in Worker, run[w].op \in Holding,
           UNCHANGED <<row, staged, business, lock>>,
           NEW r \in Run, run' = [run EXCEPT ![w] = r], StepSound(r), HoldSound(r)
    PROVE  IInv'
  BY RunFacts, StepPreserves

(* transition re-reads the status.                                         *)
LEMMA ReadStatusPreserves == ASSUME IInv, NEW w \in Worker, ReadStatus(w) PROVE IInv'
<1>1. run[w].step = "read" /\ UNCHANGED <<row, staged, business>>
  BY DEF ReadStatus
<1>2. run[w] \in Run /\ run[w].op \in Holding /\ lock = w /\ StepSound(run[w]) /\ HoldSound(run[w])
  BY <1>1, RunFacts
<1>3. CASE End(w)
  BY <1>1, <1>2, <1>3, EndPreserves DEF End
<1>4. CASE run' = [run EXCEPT ![w].step = "write", ![w].mine.status = run[w].to] /\ UNCHANGED lock
  <2> DEFINE q == run[w]
             r == [q EXCEPT !.step = "write", !.mine.status = q.to]
  <2>1. run' = [run EXCEPT ![w] = r]
    BY <1>4, RunFacts
  <2>2. q \in Run /\ q.mine \in Row /\ q.to \in Status
    BY <1>2 DEF Run
  <2>3. [q.mine EXCEPT !.status = q.to] \in Row /\ [q.mine EXCEPT !.status = q.to].status = q.to
    BY <2>2 DEF Row
  <2>7. q.op \in Holding
    BY <1>2
  <2> HIDE DEF q
  <2>4. /\ r \in Run /\ r.op = q.op /\ r.step = "write" /\ r.to = q.to
        /\ r.mine.status = q.to /\ r.next = q.next
    BY <2>2, <2>3 DEF Run
  <2> HIDE DEF r
  <2>5. StepSound(q) /\ HoldSound(q) /\ q.step = "read"
    BY <1>1, <1>2 DEF q
  <2>6. StepSound(r) /\ HoldSound(r)
    BY <2>4, <2>5, <2>7 DEF StepSound, HoldSound, Holding
  <2> QED
    BY <1>1, <1>2, <1>4, <2>1, <2>4, <2>6, HolderGoesOn
<1> QED
  BY <1>3, <1>4 DEF ReadStatus

(* ... and saves the instance: what the status then says is true, because  *)
(* nobody else wrote since the call counted its chunks.                    *)
LEMMA SaveStatusPreserves == ASSUME IInv, NEW w \in Worker, SaveStatus(w) PROVE IInv'
<1> DEFINE q == run[w]
<1>1. /\ q.step = "write" /\ row' = q.mine
      /\ UNCHANGED <<plan, decision, choice, approved, lead, edits, journal>>
  BY DEF SaveStatus, staged, business
<1>2. q \in Run /\ q.op \in Holding /\ lock = w /\ StepSound(q) /\ HoldSound(q)
  BY <1>1, RunFacts
<1>3. row' \in Row /\ row'.status = q.to
  BY <1>1, <1>2 DEF Run, HoldSound
<1>4. Written' = Written /\ Fits' = Fits /\ Staged' = Staged /\ Fits
  BY <1>1, <1>2 DEF Written, Fits, Staged, HoldSound
<1>5. q.to \in {"COMMITTING", "FAILED_RETRYABLE", "COMMITTED",
                "ROLLING_BACK", "ROLLBACK_FAILED", "ROLLED_BACK"}
  BY <1>2 DEF StepSound, Holding
<1>6. StatusTellsTheTruth' /\ RowIsSound'
  BY <1>2, <1>3, <1>4, <1>5 DEF StatusTellsTheTruth, RowIsSound, HoldSound
<1>7. JournalIsSound' /\ EffectIsJournalled'
  BY <1>1, <1>4 DEF IInv, JournalIsSound, EffectIsJournalled
<1>8. ASSUME NEW r \in Run, run' = [run EXCEPT ![w] = r], StepSound(r),
             lock' \in Worker \cup {Nobody}, r.op \in Holding => lock' = w /\ HoldSound(r)'
      PROVE  IInv'
  <2>1. RunsAreSound' /\ run' \in [Worker -> Run]
    BY <1>2, <1>8, RunsStaySound
  <2>2. TypeOK'
    BY <1>1, <1>3, <1>8, <2>1 DEF IInv, TypeOK
  <2> QED
    BY <1>6, <1>7, <2>1, <2>2 DEF IInv
<1>9. CASE q.to = "COMMITTING" \/ q.to = "ROLLING_BACK"
  <2>1. PICK s \in {"digest", "drift"} :
            /\ Goto(w, s)
            /\ s = "digest" <=> q.to = "COMMITTING"
    BY <1>9 DEF SaveStatus
  <2>2. PICK r \in Run : r = [q EXCEPT !.step = s]
    <3>1. s \in Step
      BY DEF Step
    <3> QED
      BY <1>2, <3>1, StepGoesOn
  <2>3. r.op = q.op /\ r.step = s /\ r.to = q.to /\ r.next = q.next
    <3>1. s \in Step
      BY DEF Step
    <3> QED
      BY <1>2, <2>2, <3>1, StepGoesOn
  <2>6. run' = [run EXCEPT ![w] = r] /\ lock' = w
    BY <1>2, <2>1, <2>2, RunFacts DEF Goto
  <2> HIDE DEF q
  <2>4. StepSound(r)
    BY <1>2, <1>9, <2>1, <2>3 DEF StepSound, Holding
  <2>5. HoldSound(r)'
    BY <1>1, <1>2, <1>3, <1>4, <1>9, <2>1, <2>3 DEF HoldSound, Previewable
  <2> QED
    BY <1>8, <2>4, <2>5, <2>6
<1>10. CASE q.to \notin {"COMMITTING", "ROLLING_BACK"}
  <2>1. End(w)
    BY <1>10 DEF SaveStatus
  <2>2. Idle.op \notin Holding
    BY IdleIsARun DEF Holding
  <2> QED
    BY <1>8, <2>1, <2>2, IdleIsARun DEF End
<1> QED
  BY <1>9, <1>10

(* The digest is compared, the content loaded.                             *)
LEMMA CheckPreserves ==
    ASSUME IInv, NEW w \in Worker, CheckDigest(w) \/ LoadContent(w) PROVE IInv'
<1> DEFINE q == run[w]
<1>1. /\ q.op = "commit" /\ q.step \in {"digest", "load"}
      /\ UNCHANGED <<row, staged, business>>
  <2>1. q.step \in {"digest", "load"} /\ UNCHANGED <<row, staged, business>>
    BY DEF CheckDigest, LoadContent
  <2>2. CASE LoadContent(w)
    <3>1. q.step = "load" /\ q.op \in Holding /\ StepSound(q)
      BY <2>2, RunFacts DEF LoadContent
    <3> QED
      BY <2>1, <3>1 DEF StepSound, Holding
  <2> QED
    BY <2>1, <2>2 DEF CheckDigest
<1>2. q \in Run /\ q.op \in Holding /\ lock = w /\ StepSound(q) /\ HoldSound(q)
  BY <1>1, RunFacts DEF Holding
<1>3. row.status = "COMMITTING" /\ row.status \notin Previewable /\ Fits
  BY <1>1, <1>2 DEF HoldSound
<1>4. CASE Transition(w, "FAILED_RETRYABLE")
  <2> DEFINE r == [q EXCEPT !.step = "read", !.to = "FAILED_RETRYABLE"]
  <2>1. run' = [run EXCEPT ![w] = r] /\ UNCHANGED lock
    BY <1>4, RunFacts DEF Transition
  <2>2. r \in Run /\ r.op = q.op /\ r.step = "read" /\ r.to = "FAILED_RETRYABLE"
    <3>1. "FAILED_RETRYABLE" \in Status
      BY DEF Status
    <3> QED
      BY <1>2, <3>1 DEF Run
  <2> HIDE DEF r
  <2>3. StepSound(r) /\ HoldSound(r)
    BY <1>1, <1>3, <2>2 DEF StepSound, HoldSound
  <2> QED
    BY <1>1, <1>2, <2>1, <2>2, <2>3, HolderGoesOn
<1>5. CASE CheckDigest(w) /\ Goto(w, "load")
  <2> DEFINE r == [q EXCEPT !.step = "load"]
  <2>1. run' = [run EXCEPT ![w] = r] /\ UNCHANGED lock
    BY <1>5, RunFacts DEF Goto
  <2>2. r \in Run /\ r.op = q.op /\ r.step = "load" /\ r.to = q.to /\ r.next = q.next
    <3>1. "load" \in Step
      BY DEF Step
    <3> QED
      BY <1>2, <3>1, StepGoesOn
  <2> HIDE DEF r
  <2>3. StepSound(r) /\ HoldSound(r)
    BY <1>1, <1>2, <1>3, <2>2 DEF StepSound, HoldSound
  <2> QED
    BY <1>1, <1>2, <2>1, <2>2, <2>3, HolderGoesOn
<1>6. CASE LoadContent(w) /\ ~ Transition(w, "FAILED_RETRYABLE")
  <2> DEFINE r == [q EXCEPT !.step = "chunk", !.content = Staged]
  <2>1. run' = [run EXCEPT ![w] = r] /\ UNCHANGED lock
    BY <1>6, RunFacts DEF LoadContent
  <2>2. Staged \in Content
    BY DEF IInv, TypeOK, Staged, Content
  <2>3. /\ r \in Run /\ r.op = q.op /\ r.step = "chunk" /\ r.to = q.to
        /\ r.content = Staged /\ r.next = q.next
    BY <1>2, <2>2 DEF Run
  <2> HIDE DEF r
  <2>4. q.next = 1
    BY <1>1, <1>2, <1>6 DEF StepSound, HoldSound, LoadContent
  <2>5. StepSound(r) /\ HoldSound(r)
    BY <1>1, <1>2, <1>3, <2>3, <2>4, ChunksArePositive DEF StepSound, HoldSound
  <2> QED
    BY <1>1, <1>2, <2>1, <2>3, <2>5, HolderGoesOn
<1> QED
  BY <1>4, <1>5, <1>6 DEF CheckDigest

(* The transitions that end a call's work: what the status will say is     *)
(* true when the transition is asked for.                                  *)
LEMMA TransitionPreserves ==
    ASSUME IInv, NEW w \in Worker, NEW to \in Status, Transition(w, to),
           UNCHANGED <<row, staged, business>>,
           \/ /\ run[w].step = "chunk"
              /\ to = "FAILED_RETRYABLE" \/ (to = "COMMITTED" /\ Written = 1..Chunks)
           \/ /\ run[w].step \in {"drift", "undo"}
              /\ to = "ROLLBACK_FAILED" \/ (to = "ROLLED_BACK" /\ Written = {})
    PROVE  IInv'
<1> DEFINE q == run[w]
           r == [q EXCEPT !.step = "read", !.to = to]
<1>1. q \in Run /\ q.op \in Holding /\ lock = w /\ StepSound(q) /\ HoldSound(q)
  BY RunFacts
<1>2. run' = [run EXCEPT ![w] = r] /\ UNCHANGED lock
  BY RunFacts DEF Transition
<1>3. r \in Run /\ r.op = q.op /\ r.step = "read" /\ r.to = to
  BY <1>1 DEF Run
<1>4. q.step \in {"chunk", "drift", "undo"}
  OBVIOUS
<1>5. q.op = "commit" <=> q.step = "chunk"
  BY <1>1, <1>4 DEF StepSound, Holding
<1> HIDE DEF r
<1>6. StepSound(r)
  BY <1>1, <1>3, <1>5 DEF StepSound, Holding
<1>7. HoldSound(r)
  BY <1>1, <1>3 DEF HoldSound
<1> QED
  BY <1>1, <1>2, <1>3, <1>6, <1>7, HolderGoesOn

(* A chunk: it is written while the batch is COMMITTING, with the content  *)
(* that was approved, or was written before.                               *)
LEMMA ChunkFacts ==
    ASSUME IInv, NEW w \in Worker, run[w].step = "chunk"
    PROVE  /\ run[w] \in Run /\ run[w].op = "commit" /\ lock = w /\ HoldSound(run[w])
           /\ row.status = "COMMITTING" /\ Fits /\ run[w].content = Staged
           /\ run[w].next \in 1..(Chunks + 1) /\ 1..(run[w].next - 1) \subseteq Written
           /\ run[w].to = "COMMITTING"
<1>1. /\ run[w] \in Run /\ run[w].op \in Holding /\ lock = w
      /\ StepSound(run[w]) /\ HoldSound(run[w])
  BY RunFacts
<1> QED
  BY <1>1 DEF StepSound, HoldSound, Holding

(* ... and the chunk's transaction preserves the invariant.                *)
LEMMA CommitChunkPreserves == ASSUME IInv, NEW w \in Worker, CommitChunk(w) PROVE IInv'
<1> DEFINE q == run[w]
           c == q.next
           moved == IF c = 1 /\ q.content.choice = "REASSIGN" THEN Imported ELSE lead
           e == [content |-> q.content, before |-> lead, after |-> moved]
           r == [q EXCEPT !.next = c + 1]
<1>1. /\ q \in Run /\ q.op = "commit" /\ lock = w /\ HoldSound(q) /\ q.step = "chunk"
      /\ row.status = "COMMITTING" /\ Fits /\ q.content = Staged
      /\ c \in 1..(Chunks + 1) /\ 1..(c - 1) \subseteq Written /\ q.to = "COMMITTING"
  BY ChunkFacts DEF CommitChunk
<1>2. /\ c <= Chunks /\ run' = [run EXCEPT ![w] = r]
      /\ UNCHANGED <<row, plan, decision, choice, approved, edits, lock>>
  BY RunFacts DEF CommitChunk, staged
<1>3. /\ c \in 1..Chunks /\ c + 1 \in 1..(Chunks + 1) /\ c + 1 \in Nat
      /\ \A i \in 1..(c + 1 - 1) : i \in 1..(c - 1) \/ i = c
  <2>1. c \in 1..(Chunks + 1) /\ c <= Chunks
    BY <1>1, <1>2
  <2> HIDE DEF c
  <2> QED
    BY <2>1, ChunksArePositive
<1>4. /\ r \in Run /\ r.op = "commit" /\ r.step = "chunk" /\ r.to = "COMMITTING"
      /\ r.content = Staged /\ r.next = c + 1
  <2> HIDE DEF c
  <2> QED
    BY <1>1, <1>3 DEF Run
<1>5. StepSound(r)
  BY <1>4 DEF StepSound
<1>6. /\ e \in Entry /\ e # NoEntry /\ moved \in Ownership /\ e.content = Staged
      /\ e.before = lead /\ e.after = moved
  <2>1. moved \in Ownership /\ Staged \in Content /\ lead \in Ownership
    BY ImportedIsOwnership DEF IInv, TypeOK, Staged, Content
  <2> HIDE DEF moved
  <2>2. e \in Entry
    BY <1>1, <2>1 DEF Entry
  <2> QED
    BY <1>1, <2>1, <2>2, NullsAreNoValues
<1>7. journal \in [1..Chunks -> Entry \cup {NoEntry}]
  BY DEF IInv, TypeOK
<1>8. /\ journal' \in [1..Chunks -> Entry \cup {NoEntry}] /\ lead' \in Ownership
      /\ Written' = Written \cup {c}
  <2>1. CASE c \in Written
    <3>1. UNCHANGED <<lead, journal>>
      BY <2>1 DEF CommitChunk
    <3> QED
      BY <1>7, <2>1, <3>1 DEF IInv, TypeOK, Written
  <2>2. CASE c \notin Written
    <3>1. lead' = moved /\ journal' = [journal EXCEPT ![c] = e]
      BY <2>2 DEF CommitChunk
    <3> HIDE DEF c, e, moved
    <3> QED
      BY <1>3, <1>6, <1>7, <3>1 DEF Written
  <2> QED
    BY <2>1, <2>2
<1>9. Fits' /\ Staged' = Staged
  BY <1>1, <1>2 DEF Fits, Staged
<1>10. PICK rr \in Run : rr = r
  BY <1>4
<1>11. HoldSound(rr)'
  <2>1. 1..(c + 1 - 1) \subseteq Written'
    BY <1>1, <1>3, <1>8
  <2> HIDE DEF c, r
  <2> QED
    BY <1>1, <1>2, <1>3, <1>4, <1>9, <1>10, <2>1 DEF HoldSound, Previewable
<1>12. RunsAreSound' /\ run' \in [Worker -> Run]
  BY <1>1, <1>2, <1>5, <1>10, <1>11, RunsStaySound
<1>13. TypeOK'
  BY <1>2, <1>8, <1>12 DEF IInv, TypeOK
<1>14. StatusTellsTheTruth' /\ RowIsSound'
  BY <1>1, <1>2, <1>9 DEF StatusTellsTheTruth, RowIsSound
<1>15. EffectIsJournalled' /\ JournalIsSound'
  <2>1. CASE c \in Written
    <3>1. UNCHANGED <<lead, journal>> /\ Written' = Written
      BY <1>8, <2>1 DEF CommitChunk
    <3> QED
      BY <1>9, <3>1 DEF IInv, EffectIsJournalled, JournalIsSound
  <2>2. CASE c \notin Written
    <3>1. lead' = moved /\ journal' = [journal EXCEPT ![c] = e]
      BY <2>2 DEF CommitChunk
    <3>2. \A d \in 1..Chunks : journal'[d] = IF d = c THEN e ELSE journal[d]
      BY <1>7, <3>1
    <3>3. \A d \in Written' : journal'[d].content = Staged'
      BY <1>6, <1>8, <1>9, <3>2 DEF IInv, JournalIsSound, Written
    <3>4. CASE c = 1
      <4>1. lead # Imported
        BY <1>3, <2>2, <3>4 DEF IInv, EffectIsJournalled, Written
      <4>2. journal'[1] = e /\ e.after \in {Imported, lead}
        BY <1>3, <1>6, <3>2, <3>4
      <4> QED
        BY <1>6, <3>3, <4>1, <4>2 DEF EffectIsJournalled, JournalIsSound
    <3>5. CASE c # 1
      <4>1. lead' = lead /\ journal'[1] = journal[1]
        BY <3>1, <3>2, <3>5, ImportedIsOwnership
      <4> QED
        BY <3>3, <4>1 DEF IInv, EffectIsJournalled, JournalIsSound
    <3> QED
      BY <3>4, <3>5
  <2> QED
    BY <2>1, <2>2
<1> QED
  BY <1>12, <1>13, <1>14, <1>15 DEF IInv

(* A commit ends when every chunk is written, or fails between two.        *)
LEMMA CommitEndsPreserve ==
    ASSUME IInv, NEW w \in Worker, FailChunk(w) \/ EndCommit(w) PROVE IInv'
<1>1. /\ run[w].step = "chunk" /\ UNCHANGED <<row, staged, business>>
      /\ "FAILED_RETRYABLE" \in Status /\ "COMMITTED" \in Status
  BY DEF FailChunk, EndCommit, Status
<1>2. CASE FailChunk(w)
  BY <1>1, <1>2, TransitionPreserves DEF FailChunk
<1>3. CASE EndCommit(w)
  <2> DEFINE n == run[w].next
  <2>1. n > Chunks /\ n \in 1..(Chunks + 1) /\ 1..(n - 1) \subseteq Written
    BY <1>1, <1>3, ChunkFacts DEF EndCommit
  <2>2. Written \subseteq 1..Chunks
    BY DEF Written
  <2> HIDE DEF n
  <2>3. n - 1 = Chunks
    BY <2>1, ChunksArePositive
  <2>4. Written = 1..Chunks
    BY <2>1, <2>2, <2>3
  <2> QED
    BY <1>1, <1>3, <2>4, TransitionPreserves DEF EndCommit
<1> QED
  BY <1>2, <1>3

(* Of the chunks that are written one is the last.                         *)
LEMMA LastIsWritten == Written # {} => Last \in Written
<1> SUFFICES ASSUME Written # {} PROVE Last \in Written
  OBVIOUS
<1> DEFINE S == {Chunks - c : c \in Written}
<1>1. Written \subseteq 1..Chunks
  BY DEF Written
<1> HIDE DEF Written
<1>2. S \subseteq Nat /\ S # {}
  <2>1. \A c \in 1..Chunks : Chunks - c \in Nat
    BY ChunksArePositive
  <2> QED
    BY <1>1, <2>1
<1>3. IsWellFoundedOn(OpToRel(<, Nat), Nat)
  BY NatLessThanWellFounded
<1> HIDE DEF S
<1>4. PICK m \in S : \A n \in S : ~ (<<n, m>> \in OpToRel(<, Nat))
  BY <1>2, <1>3, WFMin
<1>5. ASSUME NEW n \in S PROVE ~ (n < m)
  <2>1. <<n, m>> \notin {ss \in Nat \X Nat : ss[1] < ss[2]}
    BY <1>4 DEF OpToRel
  <2> QED
    BY <1>2, <2>1
<1>6. PICK c \in Written : m = Chunks - c
  BY DEF S
<1>7. ASSUME NEW d \in Written PROVE d <= c
  <2>1. ~ (Chunks - d < Chunks - c)
    BY <1>5, <1>6 DEF S
  <2>2. c \in 1..Chunks /\ d \in 1..Chunks
    BY <1>1
  <2> QED
    BY <2>1, <2>2, ChunksArePositive
<1> QED
  BY <1>7 DEF Last

(* The drift pass, and the undo of the last chunk or the end of it.        *)
LEMMA RollbackPreserves ==
    ASSUME IInv, NEW w \in Worker, FindDrift(w) \/ Undo(w) \/ EndRollback(w) PROVE IInv'
<1> DEFINE q == run[w]
<1>1. /\ q.step \in {"drift", "undo"}
      /\ "ROLLBACK_FAILED" \in Status /\ "ROLLED_BACK" \in Status
  BY DEF FindDrift, Undo, EndRollback, Status
<1>2. q \in Run /\ q.op \in Holding /\ lock = w /\ StepSound(q) /\ HoldSound(q)
  BY <1>1, RunFacts
<1>3. row.status = "ROLLING_BACK"
  BY <1>1, <1>2 DEF HoldSound
<1>4. CASE UNCHANGED <<row, staged, business>> /\ Transition(w, "ROLLBACK_FAILED")
  BY <1>1, <1>4, TransitionPreserves
<1>5. CASE EndRollback(w)
  BY <1>1, <1>5, TransitionPreserves DEF EndRollback
<1>6. CASE FindDrift(w) /\ Goto(w, "undo")
  <2> DEFINE r == [q EXCEPT !.step = "undo"]
  <2>1. /\ run' = [run EXCEPT ![w] = r] /\ UNCHANGED lock
        /\ UNCHANGED <<row, staged, business>>
    BY <1>6, RunFacts DEF Goto, FindDrift
  <2>2. r \in Run /\ r.op = q.op /\ r.step = "undo" /\ r.to = q.to /\ r.next = q.next
    <3>1. "undo" \in Step
      BY DEF Step
    <3> QED
      BY <1>2, <3>1, StepGoesOn
  <2>3. q.step = "drift"
    BY <1>6 DEF FindDrift
  <2> HIDE DEF r
  <2>4. StepSound(r) /\ HoldSound(r)
    BY <1>2, <1>3, <2>2, <2>3 DEF StepSound, HoldSound, Holding
  <2> QED
    BY <1>2, <2>1, <2>2, <2>4, HolderGoesOn
<1>7. CASE Undo(w) /\ Restore(Last) /\ UNCHANGED <<lock, run>>
  <2> DEFINE c == Last
  <2>1. c \in Written
    BY <1>7, LastIsWritten DEF Undo
  <2> HIDE DEF c
  <2>2. /\ c \in 1..Chunks /\ journal[c] \in Entry
        /\ journal \in [1..Chunks -> Entry \cup {NoEntry}]
    BY <2>1 DEF IInv, TypeOK, Written
  <2>3. /\ lead' = IF c = 1 THEN journal[c].before ELSE lead
        /\ journal' = [journal EXCEPT ![c] = NoEntry]
        /\ UNCHANGED <<row, plan, decision, choice, approved, edits, lock, run>>
    BY <1>7 DEF c, Restore, Undo, staged
  <2>4. journal[c].before \in Ownership
    BY <2>2 DEF Entry
  <2>5. TypeOK'
    BY <2>2, <2>3, <2>4 DEF IInv, TypeOK
  <2>6. \A d \in 1..Chunks : journal'[d] = IF d = c THEN NoEntry ELSE journal[d]
    BY <2>2, <2>3
  <2>7. Written' = Written \ {c}
    BY <2>6 DEF Written
  <2>8. Fits' = Fits /\ Staged' = Staged
    BY <2>3 DEF Fits, Staged
  <2>9. StatusTellsTheTruth' /\ RowIsSound'
    BY <1>3, <2>3, <2>8 DEF IInv, StatusTellsTheTruth, RowIsSound
  <2>10. JournalIsSound'
    BY <2>6, <2>7, <2>8, ImportedIsOwnership DEF IInv, JournalIsSound, Written
  <2>11. EffectIsJournalled'
    BY <2>1, <2>3, <2>6, ImportedIsOwnership
    DEF IInv, EffectIsJournalled, JournalIsSound, Written
  <2>12. RunsAreSound'
    <3> SUFFICES ASSUME NEW v \in Worker
                 PROVE  /\ StepSound(run'[v])
                        /\ run'[v].op \in Holding => lock' = v /\ HoldSound(run[v])'
      BY DEF RunsAreSound
    <3>1. CASE v # w
      <4>1. StepSound(run[v]) /\ run[v].op \notin Holding
        BY <1>2, <3>1, HolderIsAlone, RunFacts
      <4> QED
        BY <2>3, <4>1
    <3>2. CASE v = w
      <4>1. run' = run /\ lock' = w
        BY <1>2, <2>3
      <4>2. q.step \notin {"digest", "load", "chunk", "write"}
        BY <1>1
      <4>3. q.to \notin {"FAILED_RETRYABLE", "COMMITTED"}
        BY <1>2, <1>3 DEF HoldSound
      <4>4. q.to = "ROLLED_BACK" => Written' = {}
        BY <1>2, <2>7 DEF HoldSound
      <4>5. PICK r \in Run : r = q
        BY <1>2
      <4>6. HoldSound(r)'
        BY <1>2, <1>3, <2>3, <2>8, <4>2, <4>3, <4>4, <4>5 DEF HoldSound
      <4> QED
        BY <1>2, <3>2, <4>1, <4>5, <4>6 DEF HoldSound
    <3> QED
      BY <3>1, <3>2
  <2> QED
    BY <2>5, <2>9, <2>10, <2>11, <2>12 DEF IInv
<1> QED
  BY <1>4, <1>5, <1>6, <1>7 DEF FindDrift, Undo, business

(* The process dies.                                                       *)
LEMMA CrashPreserves == ASSUME IInv, NEW w \in Worker, Crash(w) PROVE IInv'
  BY EndPreserves DEF Crash

-----------------------------------------------------------------------------
(* The theorems.                                                           *)

(* A batch that was just uploaded.                                         *)
LEMMA InitIsSound == Init => IInv
<1> SUFFICES ASSUME Init PROVE IInv
  OBVIOUS
<1>1. TypeOK
  <2>1. 0 \in 0..MaxDecision /\ 0 \in 0..MaxEdits /\ 0 \in Ownership
    BY ImportBoundsAreNat, ImportedIsOwnership
  <2> QED
    BY <2>1, IdleIsARun DEF Init, TypeOK, Plan, Choice
<1>2. Written = {}
  BY DEF Init, Written
<1>3. StatusTellsTheTruth /\ EffectIsJournalled /\ JournalIsSound
  <2>1. journal[1] = NoEntry /\ lead # Imported /\ row.status = "PREVIEW"
    <3>1. 0 # Imported
      BY ImportBoundsAreNat DEF Imported
    <3> QED
      BY <3>1, ImportedIsOwnership DEF Init, NewRow
  <2> QED
    BY <1>2, <2>1 DEF StatusTellsTheTruth, EffectIsJournalled, JournalIsSound
<1>4. RunsAreSound
  BY IdleIsARun DEF Init, RunsAreSound, Holding
<1>5. RowIsSound
  BY DEF Init, RowIsSound, NewRow, Previewable
<1> QED
  BY <1>1, <1>3, <1>4, <1>5 DEF IInv

(* Every step preserves the invariant.                                     *)
LEMMA NextPreserves == IInv /\ [Next]_vars => IInv'
<1> SUFFICES ASSUME IInv, [Next]_vars PROVE IInv'
  OBVIOUS
<1>1. CASE UNCHANGED vars
  <2>1. UNCHANGED <<row, plan, decision, choice, approved, lead, edits, journal, lock, run>>
    BY <1>1 DEF vars, staged, business
  <2>2. Written' = Written /\ Fits' = Fits /\ Staged' = Staged
    BY <2>1 DEF Written, Fits, Staged
  <2>3. TypeOK'
    BY <2>1 DEF IInv, TypeOK
  <2>4. StatusTellsTheTruth' /\ RowIsSound' /\ JournalIsSound' /\ EffectIsJournalled'
    BY <2>1, <2>2 DEF IInv, StatusTellsTheTruth, RowIsSound, JournalIsSound, EffectIsJournalled
  <2>5. \A r \in Run : HoldSound(r) => HoldSound(r)'
    BY <2>1, <2>2 DEF HoldSound
  <2> QED
    BY <2>1, <2>3, <2>4, <2>5, CallPreserves
<1>2. CASE BuildPreview \/ Confirm \/ Cancel \/ MoveDecision \/ EditLead \/ Reconcile
  BY <1>2, BuildPreviewPreserves, ConfirmPreserves, CancelPreserves, OthersPreserve
<1>3. ASSUME NEW c \in Choice \ {""}, ResolveConflict(c) PROVE IInv'
  BY <1>3, ResolveConflictPreserves
<1>4. ASSUME NEW w \in Worker, (\E d \in 1..MaxDate : LoadForDate(w, d)) \/ DigestDate(w)
                               \/ SaveDate(w)
      PROVE  IInv'
  BY <1>4, DatePreserves, SaveDatePreserves
<1>5. ASSUME NEW w \in Worker, StartCommit(w) \/ StartRollback(w) \/ RetryRollback(w)
                               \/ ReadStatus(w) \/ SaveStatus(w)
      PROVE  IInv'
  BY <1>5, StartPreserves, ReadStatusPreserves, SaveStatusPreserves
<1>6. ASSUME NEW w \in Worker, CheckDigest(w) \/ LoadContent(w) \/ CommitChunk(w)
                               \/ FailChunk(w) \/ EndCommit(w)
      PROVE  IInv'
  BY <1>6, CheckPreserves, CommitChunkPreserves, CommitEndsPreserve
<1>7. ASSUME NEW w \in Worker, FindDrift(w) \/ Undo(w) \/ EndRollback(w) \/ Crash(w)
      PROVE  IInv'
  BY <1>7, RollbackPreserves, CrashPreserves
<1> QED
  BY <1>1, <1>2, <1>3, <1>4, <1>5, <1>6, <1>7 DEF Next

(* The status of a batch tells the truth about what its chunks wrote, and  *)
(* the journal covers the batch's mark on the lead, whatever failed,       *)
(* crashed, was retried or ran at the same time.                           *)
THEOREM BatchStaysConsistent == Spec => []BatchIsConsistent
<1>1. IInv => BatchIsConsistent
  BY DEF IInv, BatchIsConsistent
<1> QED
  BY <1>1, InitIsSound, NextPreserves, PTL DEF Spec

(* What a chunk wrote is what the last confirmation approved.              *)
THEOREM OnlyApprovedIsWritten == Spec => []WritesAreApproved
<1>1. IInv => WritesAreApproved
  <2> SUFFICES ASSUME IInv, NEW c \in Written
               PROVE  /\ approved # NoDigest
                      /\ journal[c].content = [plan |-> approved.plan,
                                               choice |-> approved.choice]
    BY DEF WritesAreApproved
  <2>1. Fits
    BY DEF IInv, StatusTellsTheTruth, RowIsSound, Previewable
  <2> QED
    BY <2>1 DEF IInv, JournalIsSound, Fits, Staged
<1> QED
  BY <1>1, InitIsSound, NextPreserves, PTL DEF Spec

(* Business rows are written only while the batch is COMMITTING and taken  *)
(* back only while it is ROLLING_BACK; a user's change of the lead gives   *)
(* way to a later one, to a running commit or to a person reconciling.     *)
THEOREM WritesHaveTheirStatus == Spec => WritesNeedTheirStatus
<1> DEFINE Due == /\ \A c \in 1..Chunks :
                         /\ journal[c] = NoEntry /\ journal'[c] # NoEntry
                               => row.status = "COMMITTING"
                         /\ journal[c] # NoEntry /\ journal'[c] = NoEntry
                               => row.status = "ROLLING_BACK"
                  /\ lead # Imported /\ lead' # lead =>
                         \/ lead' = edits' /\ edits' = edits + 1
                         \/ row.status = "COMMITTING" /\ lead' = Imported
                         \/ row.status = "ROLLBACK_FAILED"
<1>1. ASSUME IInv, UNCHANGED <<lead, journal>> PROVE Due
  BY <1>1
<1>2. ASSUME IInv, EditLead \/ Reconcile PROVE Due
  BY <1>2 DEF EditLead, Reconcile
<1>3. ASSUME IInv, NEW w \in Worker, CommitChunk(w) PROVE Due
  <2> DEFINE c == run[w].next
             e == [content |-> run[w].content, before |-> lead, after |-> lead']
  <2>1. row.status = "COMMITTING"
    BY <1>3, ChunkFacts DEF CommitChunk
  <2>2. CASE UNCHANGED <<lead, journal>>
    BY <2>2
  <2>3. CASE /\ c \notin Written /\ lead' \in {Imported, lead}
             /\ journal' = [journal EXCEPT ![c] = e]
    <3>1. journal \in [1..Chunks -> Entry \cup {NoEntry}]
      BY <1>3 DEF IInv, TypeOK
    <3>2. c \in 1..Chunks
      <4>1. c \in 1..(Chunks + 1) /\ c <= Chunks
        BY <1>3, ChunkFacts DEF CommitChunk
      <4> HIDE DEF c
      <4> QED
        BY <4>1, ChunksArePositive
    <3>3. journal[c] = NoEntry
      BY <2>3, <3>2 DEF Written
    <3> HIDE DEF c, e
    <3>4. \A d \in 1..Chunks : d # c => journal'[d] = journal[d]
      BY <2>3, <3>1
    <3> QED
      BY <2>1, <2>3, <3>3, <3>4
  <2> QED
    BY <1>3, <2>2, <2>3 DEF CommitChunk
<1>4. ASSUME IInv, NEW w \in Worker, Undo(w) PROVE Due
  <2>1. row.status = "ROLLING_BACK"
    BY <1>4, RunFacts DEF Undo, HoldSound
  <2>2. CASE UNCHANGED <<lead, journal>>
    BY <2>2
  <2>3. CASE ~ Drifted(Last) /\ Restore(Last)
    <3> DEFINE c == Last
    <3>1. c \in Written
      BY <1>4, LastIsWritten DEF Undo
    <3>2. /\ lead' = IF c = 1 THEN journal[c].before ELSE lead
          /\ journal' = [journal EXCEPT ![c] = NoEntry]
          /\ c = 1 => lead = journal[c].after
      BY <2>3, <3>1 DEF Restore, Drifted, Written
    <3> HIDE DEF c
    <3>3. journal \in [1..Chunks -> Entry \cup {NoEntry}] /\ c \in 1..Chunks
      BY <1>4, <3>1 DEF IInv, TypeOK, Written
    <3>4. journal[1] # NoEntry => journal[1].after \in {Imported, journal[1].before}
      BY <1>4 DEF IInv, JournalIsSound
    <3>5. lead # Imported => lead' = lead
      BY <3>1, <3>2, <3>4 DEF Written
    <3>6. \A d \in 1..Chunks : journal'[d] = IF d = c THEN NoEntry ELSE journal[d]
      BY <3>2, <3>3
    <3> QED
      BY <2>1, <3>5, <3>6
  <2> QED
    BY <1>4, <2>2, <2>3 DEF Undo
<1>5. ASSUME IInv, [Next]_vars PROVE Due
  <2> HIDE DEF Due
  <2>1. \/ UNCHANGED <<lead, journal>> \/ EditLead \/ Reconcile
        \/ \E w \in Worker : CommitChunk(w) \/ Undo(w)
    BY <1>5 DEF Next, vars, business, staged, BuildPreview, ResolveConflict, Confirm, Cancel,
       MoveDecision, LoadForDate, DigestDate, SaveDate, StartCommit, StartRollback,
       RetryRollback, Start, ReadStatus, SaveStatus, CheckDigest, LoadContent, FailChunk,
       EndCommit, FindDrift, EndRollback, Crash
  <2> QED
    BY <1>1, <1>2, <1>3, <1>4, <1>5, <2>1
<1>6. IInv /\ [Next]_vars => Due
  BY <1>5
<1> QED
  BY <1>6, InitIsSound, NextPreserves, PTL DEF Spec, WritesNeedTheirStatus
=============================================================================
