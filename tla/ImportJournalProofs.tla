------------------------ MODULE ImportJournalProofs ------------------------
(***************************************************************************)
(* Proofs about ImportJournal, for every set of users' edits and every     *)
(* size of the chunks.                                                     *)
(***************************************************************************)
EXTENDS ImportJournal, TLAPS

Leads == {"LEAD", "NEWLEAD"}

(* Rows the customer had before the import.                                *)
Kept == {"CUSTOMER", "ORDER1", "LEAD"}

-----------------------------------------------------------------------------
(* The inductive invariant: the transaction.                               *)

Txn ==
    [pc : Steps, group : 0..3, left : Nat, instance : Content, snap : Content,
     undone : SUBSET Nat, seen : [Leads -> Content],
     own : UNION {[S -> Content] : S \in SUBSET Row}, entries : Seq(Entry)]

(* Which steps go with which status, and what they have not used yet.      *)
PhaseIsSound ==
    /\ txn.pc = "idle" => txn = Idle
    /\ txn.pc \in Steps \ {"idle", "undo"} =>
          status = "COMMITTING" /\ txn.undone = {} /\ txn.group \in 1..3
    /\ txn.pc \in Steps \ {"idle", "undo", "read"} => txn.group \in Group /\ txn.left > 0
    /\ txn.pc = "undo" => status = "ROLLING_BACK" /\ txn.entries = <<>>

-----------------------------------------------------------------------------
(* The rows.                                                               *)

(* The users' edits in a content of row r went to r.                       *)
EditedAt(c, r) == c # Absent => \A e \in c \cap Edit : edited[e] = r

(* Content c of row r has every edit to r but those that raced, and the    *)
(* row is there if the customer had it or a note needs it.                 *)
Sound(r, c) ==
    /\ EditedAt(c, r)
    /\ \A e \in Edit : edited[e] = r /\ e \notin raced => c # Absent /\ e \in c
    /\ r \in Kept \/ (r = "NEWLEAD" /\ db["NOTE"] # Absent) => c # Absent

RowsAreSound ==
    /\ "NOTE" \notin DOMAIN txn.own
    /\ \A r \in Row : Sound(r, db[r]) /\ Sound(r, View(r))

(* c is row r as read before, but for the edits that raced and for what    *)
(* the group itself (in S) has done.                                       *)
ReadOf(r, c, S) ==
    /\ c # Absent => View(r) # Absent /\ c \subseteq View(r)
    /\ View(r) # Absent => \A x \in View(r) : (c # Absent /\ x \in c) \/ x \in raced \/ x \in S
    /\ r \in Kept => c # Absent

ReadsAreSound ==
    /\ txn.pc \in {"capture", "write"} => ReadOf(OrderOf(txn.group), txn.instance, {})
    /\ txn.pc = "customer" => ReadOf("CUSTOMER", txn.snap, {})
    /\ txn.pc \in {"write", "snapshot", "customer", "lead"} =>
          \A r \in Leads : ReadOf(r, txn.seen[r], {})
    /\ txn.pc = "finish" => \A r \in Leads : ReadOf(r, txn.seen[r], {txn.group})

-----------------------------------------------------------------------------
(* The journal.                                                            *)

(* An entry's before image keeps what its after image has of the edits     *)
(* that did not race.                                                      *)
EntryIsSound(x) ==
    /\ x.row # "NOTE"
    /\ x.before = Absent => x.op = "CREATE"
    /\ x.row \in Kept => x.before # Absent
    /\ EditedAt(x.before, x.row) /\ EditedAt(x.after, x.row)
    /\ x.after # Absent =>
          \A e \in x.after \cap Edit : e \in raced \/ (x.before # Absent /\ e \in x.before)

(* The entry is the one that brought group g to row r.                     *)
Brings(x, r, g) ==
    /\ x.row = r /\ g \in x.after
    /\ x.before = Absent \/ g \notin x.before

(* The entries of a log still to be undone, and what they account for.     *)
Still(L) == {i \in DOMAIN L : ~L[i].undone}
Has(L, r, g) == \E i \in Still(L) : Brings(L[i], r, g)

(* What an entry would restore came with older entries.                    *)
Chained(L) ==
    \A k \in Still(L) : L[k].before # Absent =>
        \A g \in L[k].before \cap Group : \E i \in Still(L) : i < k /\ Brings(L[i], L[k].row, g)

GoodLog(L) == (\A i \in DOMAIN L : EntryIsSound(L[i])) /\ Chained(L)

(* The journal as the running transaction sees it.                         *)
Log == journal \o txn.entries

(* A lead the group has written and LeadTracker.finish has not seen yet.   *)
Unjournalled(r, g) ==
    /\ txn.pc = "finish" /\ r \in Leads
    /\ txn.seen[r] = Absent \/ g \notin txn.seen[r]

JournalIsSound ==
    /\ GoodLog(journal)
    /\ \A r \in Row : db[r] # Absent => \A g \in db[r] \cap Group : Has(journal, r, g)

LogIsSound ==
    /\ GoodLog(Log)
    /\ txn.pc # "undo" =>
          \A r \in Row : View(r) # Absent =>
              \A g \in View(r) \cap Group : Has(Log, r, g) \/ Unjournalled(r, g)

(* A rollback's transaction has undone the newest entries, and the others  *)
(* account for what it has left.                                           *)
UndoIsSound ==
    txn.pc = "undo" =>
        /\ txn.undone \subseteq Pending
        /\ \A i \in txn.undone : \A j \in Pending \ txn.undone : j < i
        /\ \A r \in Row : View(r) # Absent =>
              \A g \in View(r) \cap Group :
                  \E i \in Pending \ txn.undone : Brings(journal[i], r, g)

IInv ==
    /\ TypeOK /\ txn \in Txn
    /\ PhaseIsSound /\ RowsAreSound /\ ReadsAreSound
    /\ JournalIsSound /\ LogIsSound /\ UndoIsSound
    /\ NothingOfTheBatchIsLeft

-----------------------------------------------------------------------------
(* Logs.                                                                   *)

(* An empty log of a transaction adds nothing to the journal.              *)
LEMMA NothingAdded ==
    ASSUME NEW J \in Seq(Entry)
    PROVE  J \o <<>> = J /\ <<>> \in Seq(Entry)
  OBVIOUS

(* An entry appended to a log comes last, and the others keep their place. *)
LEMMA AppendedEntry ==
    ASSUME NEW L \in Seq(Entry), NEW x \in Entry, ~x.undone
    PROVE  /\ Append(L, x) \in Seq(Entry)
           /\ Len(L) \in Nat /\ DOMAIN L = 1..Len(L)
           /\ \A i \in DOMAIN L : i \in DOMAIN Append(L, x) /\ Append(L, x)[i] = L[i]
           /\ DOMAIN Append(L, x) = 1..(Len(L) + 1) /\ Append(L, x)[Len(L) + 1] = x
           /\ Still(Append(L, x)) = Still(L) \cup {Len(L) + 1}
<1> DEFINE M == Append(L, x)
<1>1. /\ M \in Seq(Entry) /\ Len(L) \in Nat /\ DOMAIN L = 1..Len(L)
      /\ DOMAIN M = 1..(Len(L) + 1) /\ M[Len(L) + 1] = x
  OBVIOUS
<1>2. \A i \in DOMAIN L : i \in DOMAIN M /\ M[i] = L[i]
  OBVIOUS
<1> HIDE DEF M
<1>3. Still(M) = Still(L) \cup {Len(L) + 1}
  BY <1>1, <1>2 DEF Still
<1> QED
  BY <1>1, <1>2, <1>3 DEF M

(* A sound entry whose before image is accounted for keeps a log good, and *)
(* what it brings is accounted for from then on.                           *)
LEMMA GoodLogGrows ==
    ASSUME NEW L \in Seq(Entry), NEW x \in Entry, ~x.undone,
           GoodLog(L), EntryIsSound(x),
           x.before # Absent => \A g \in x.before \cap Group : Has(L, x.row, g)
    PROVE  /\ GoodLog(Append(L, x))
           /\ \A r \in Row, g \in Group : Has(L, r, g) => Has(Append(L, x), r, g)
           /\ \A g \in Group : Brings(x, x.row, g) => Has(Append(L, x), x.row, g)
<1> DEFINE M == Append(L, x)
           n == Len(L) + 1
<1>1. /\ n \in Nat /\ DOMAIN L = 1..(n - 1) /\ DOMAIN M = 1..n /\ M[n] = x
      /\ \A i \in DOMAIN L : M[i] = L[i]
      /\ Still(M) = Still(L) \cup {n}
  BY AppendedEntry
<1>2. Still(L) \subseteq DOMAIN L
  BY DEF Still
<1> HIDE DEF M, n
<1>3. \A i \in Still(L) : i \in Still(M) /\ M[i] = L[i] /\ i < n
  BY <1>1, <1>2
<1>4. \A r \in Row, g \in Group : Has(L, r, g) => Has(M, r, g)
  BY <1>3 DEF Has
<1>5. \A g \in Group : Brings(x, x.row, g) => Has(M, x.row, g)
  BY <1>1 DEF Has
<1>6. ASSUME NEW i \in DOMAIN M PROVE EntryIsSound(M[i])
  <2>1. i = n \/ i \in DOMAIN L
    BY <1>1
  <2> QED
    BY <1>1, <2>1 DEF GoodLog
<1>7. ASSUME NEW k \in Still(M), M[k].before # Absent, NEW g \in M[k].before \cap Group
      PROVE  \E i \in Still(M) : i < k /\ Brings(M[i], M[k].row, g)
  <2>1. CASE k \in Still(L)
    <3>1. PICK i \in Still(L) : i < k /\ Brings(L[i], L[k].row, g)
      BY <1>3, <1>7, <2>1 DEF GoodLog, Chained
    <3> QED
      BY <1>3, <2>1, <3>1
  <2>2. CASE k = n
    <3>1. Has(L, x.row, g)
      BY <1>1, <1>7, <2>2
    <3>2. PICK i \in Still(L) : Brings(L[i], x.row, g)
      BY <3>1 DEF Has
    <3> QED
      BY <1>1, <1>3, <2>2, <3>2
  <2> QED
    BY <1>1, <1>7, <2>1, <2>2
<1>8. GoodLog(M)
  BY <1>6, <1>7 DEF GoodLog, Chained
<1> QED
  BY <1>4, <1>5, <1>8 DEF M

(* What a transaction appends comes last in the journal as it sees it.     *)
LEMMA LogAppended ==
    ASSUME NEW J \in Seq(Entry), NEW s \in Seq(Entry), NEW x \in Entry
    PROVE  /\ J \o Append(s, x) = Append(J \o s, x)
           /\ J \o s \in Seq(Entry) /\ Append(s, x) \in Seq(Entry)
           /\ s \o <<x>> = Append(s, x)
  OBVIOUS

(* Nor does it matter in how many parts it is appended.                    *)
LEMMA TwoAppended ==
    ASSUME NEW J \in Seq(Entry), NEW s \in Seq(Entry), NEW c \in Seq(Entry), NEW d \in Seq(Entry)
    PROVE  /\ s \o c \in Seq(Entry) /\ (s \o c) \o d \in Seq(Entry)
           /\ J \o ((s \o c) \o d) = ((J \o s) \o c) \o d
<1>1. s \o c \in Seq(Entry) /\ (s \o c) \o d \in Seq(Entry) /\ J \o s \in Seq(Entry)
  OBVIOUS
<1>2. J \o ((s \o c) \o d) = (J \o (s \o c)) \o d
  OBVIOUS
<1>3. J \o (s \o c) = (J \o s) \o c
  OBVIOUS
<1> QED
  BY <1>1, <1>2, <1>3

-----------------------------------------------------------------------------
(* Transactions.                                                           *)

Busy == Steps \ {"idle", "undo"}    \* the steps of a commit

(* No transaction is one of the type.                                      *)
LEMMA IdleIsATxn ==
    /\ Idle \in Txn /\ Idle.pc = "idle" /\ Idle.own = [r \in {} |-> Absent]
    /\ DOMAIN Idle.own = {} /\ Idle.entries = <<>> /\ Idle.undone = {}
    /\ Idle.seen \in [Leads -> Content] /\ Idle.seen = [r \in Leads |-> Absent]
<1>1. [r \in {} |-> Absent] \in UNION {[S -> Content] : S \in SUBSET Row}
  <2>1. [r \in {} |-> Absent] \in [{} -> Content]
    OBVIOUS
  <2> QED
    BY <2>1
<1>2. [r \in {"LEAD", "NEWLEAD"} |-> Absent] \in [Leads -> Content]
  BY DEF Leads, Content
<1>3. <<>> \in Seq(Entry) /\ Absent \in Content /\ "idle" \in Steps
  BY DEF Content, Steps
<1>4. Idle \in Txn
  BY <1>1, <1>2, <1>3 DEF Idle, Txn
<1> QED
  BY <1>2, <1>4 DEF Idle, Leads

(* What the invariant says of the types of transaction and journal.        *)
LEMMA TxnFacts ==
    ASSUME IInv
    PROVE  /\ txn.pc \in Steps /\ txn.group \in 0..3 /\ txn.left \in Nat
           /\ txn.instance \in Content /\ txn.snap \in Content
           /\ txn.seen \in [Leads -> Content] /\ DOMAIN txn.own \subseteq Row
           /\ txn.own \in [DOMAIN txn.own -> Content]
           /\ txn.entries \in Seq(Entry) /\ journal \in Seq(Entry) /\ Log \in Seq(Entry)
           /\ \A r \in Row : db[r] \in Content /\ View(r) \in Content
<1>1. txn \in Txn /\ TypeOK
  BY DEF IInv
<1>2. /\ txn.pc \in Steps /\ txn.group \in 0..3 /\ txn.left \in Nat
      /\ txn.instance \in Content /\ txn.snap \in Content
      /\ txn.seen \in [Leads -> Content] /\ txn.entries \in Seq(Entry)
      /\ txn.own \in UNION {[S -> Content] : S \in SUBSET Row}
  BY <1>1 DEF Txn
<1>3. DOMAIN txn.own \subseteq Row /\ txn.own \in [DOMAIN txn.own -> Content]
  <2>1. PICK S \in SUBSET Row : txn.own \in [S -> Content]
    BY <1>2
  <2> QED
    BY <2>1
<1>4. journal \in Seq(Entry) /\ db \in [Row -> Content]
  BY <1>1 DEF TypeOK
<1>5. Log \in Seq(Entry)
  BY <1>2, <1>4 DEF Log
<1>6. \A r \in Row : db[r] \in Content /\ View(r) \in Content
  BY <1>3, <1>4 DEF View
<1> QED
  BY <1>2, <1>3, <1>4, <1>5, <1>6

(* A transaction that begins, and one that ends without a commit, leave    *)
(* the rows and the journal as they are committed.                         *)
LEMMA FreshPreserves ==
    ASSUME IInv, UNCHANGED <<db, journal, edited, raced>>,
           txn' \in Txn, txn'.own = Idle.own, txn'.entries = <<>>, txn'.undone = {},
           txn'.pc \in {"idle", "read", "undo"}, PhaseIsSound', TypeOK',
           status' # "ROLLED_BACK" \/ status' = status
    PROVE  IInv'
<1>1. \A r \in Row : View(r)' = db[r]
  BY IdleIsATxn DEF View
<1>2. journal \in Seq(Entry) /\ journal \o <<>> = journal
  BY TxnFacts, NothingAdded
<1>3. Log' = journal
  BY <1>2 DEF Log
<1>4. RowsAreSound'
  BY <1>1, IdleIsATxn DEF RowsAreSound, Sound, EditedAt, IInv
<1>5. ReadsAreSound'
  BY DEF ReadsAreSound
<1>6. JournalIsSound'
  BY DEF IInv, JournalIsSound, GoodLog, Chained, Has, Still, EntryIsSound, EditedAt, Brings
<1>7. LogIsSound'
  <2>1. GoodLog(Log)' /\ \A r \in Row, g \in Group : Has(Log, r, g)' <=> Has(journal, r, g)
    BY <1>3, <1>6 DEF JournalIsSound, GoodLog, Chained, Has, Still, EntryIsSound, EditedAt, Brings
  <2> QED
    BY <1>1, <2>1 DEF IInv, JournalIsSound, LogIsSound
<1>8. UndoIsSound'
  <2>1. Still(journal) = Pending' /\ Pending' \ {} = Pending'
    BY DEF Still, Pending
  <2>2. \A r \in Row : View(r)' # Absent =>
            \A g \in View(r)' \cap Group : \E i \in Pending' \ {} : Brings(journal[i], r, g)
    BY <1>1, <2>1 DEF IInv, JournalIsSound, Has
  <2> QED
    BY <2>2 DEF UndoIsSound, Brings
<1>9. NothingOfTheBatchIsLeft'
  BY DEF IInv, NothingOfTheBatchIsLeft
<1> QED
  BY <1>4, <1>5, <1>6, <1>7, <1>8, <1>9 DEF IInv

(* StartCommit, FailChunk, StartRollback, BlockUndo and Crash.             *)
LEMMA EndsPreserve ==
    ASSUME IInv, StartCommit \/ FailChunk \/ StartRollback \/ BlockUndo \/ Crash
    PROVE  IInv'
<1>1. /\ TypeOK /\ txn \in Txn /\ PhaseIsSound
      /\ ChunkSize \in Nat \ {0} /\ UndoSize \in Nat \ {0} /\ MaxAttempts \in Nat
  BY SizesArePositive DEF IInv
<1>2. ASSUME txn' = Idle, UNCHANGED <<db, journal, edited, raced, attempt>>,
             status' \in {status, "FAILED_RETRYABLE", "ROLLBACK_FAILED"}
      PROVE  IInv'
  <2>1. PhaseIsSound'
    BY <1>2, IdleIsATxn DEF PhaseIsSound
  <2>2. TypeOK'
    BY <1>1, <1>2, IdleIsATxn DEF TypeOK, Txn
  <2> QED
    BY <1>2, <2>1, <2>2, IdleIsATxn, FreshPreserves
<1>3. ASSUME NEW p \in {"read", "undo"}, NEW g \in {0, 1}, NEW n \in Nat,
             txn' = [Idle EXCEPT !.pc = p, !.group = g, !.left = n],
             UNCHANGED <<db, journal, edited, raced>>, attempt' \in 0..MaxAttempts,
             \/ p = "read" /\ g = 1 /\ status' = "COMMITTING"
             \/ p = "undo" /\ status' = "ROLLING_BACK"
      PROVE  IInv'
  <2>0. p \in Steps /\ g \in 0..3
    BY DEF Steps
  <2>1. /\ txn' \in Txn /\ txn'.pc = p /\ txn'.own = Idle.own /\ txn'.entries = <<>>
        /\ txn'.undone = {} /\ txn'.group = g
    BY <1>3, <2>0, IdleIsATxn DEF Txn
  <2>2. PhaseIsSound'
    BY <1>3, <2>1 DEF PhaseIsSound
  <2>3. TypeOK'
    BY <1>1, <1>3, <2>1, IdleIsATxn DEF TypeOK, Txn
  <2> QED
    BY <1>3, <2>1, <2>2, <2>3, FreshPreserves
<1>4. CASE StartCommit
  <2>1. txn' = [Idle EXCEPT !.pc = "read", !.group = 1, !.left = ChunkSize]
        /\ attempt' \in 0..MaxAttempts /\ status' = "COMMITTING"
    BY <1>1, <1>4 DEF StartCommit, TypeOK
  <2> QED
    BY <1>1, <1>3, <1>4, <2>1 DEF StartCommit
<1>5. CASE FailChunk \/ BlockUndo \/ Crash
  BY <1>2, <1>5 DEF FailChunk, BlockUndo, Crash
<1>6. CASE StartRollback
  <2>1. CASE Drift = {}
    <3>1. Idle.group = 0
      BY DEF Idle
    <3>2. txn' = [Idle EXCEPT !.pc = "undo", !.group = 0, !.left = UndoSize]
      BY <1>6, <2>1, <3>1 DEF StartRollback, Idle
    <3> QED
      BY <1>1, <1>3, <1>6, <2>1, <3>2 DEF StartRollback, TypeOK
  <2>2. CASE Drift # {}
    BY <1>2, <1>6, <2>2 DEF StartRollback
  <2> QED
    BY <2>1, <2>2
<1> QED
  BY <1>4, <1>5, <1>6

-----------------------------------------------------------------------------
(* A commit reads.                                                         *)

(* A step that only reads leaves the rows and the log as they are.         *)
LEMMA ReadingPreserves ==
    ASSUME IInv, UNCHANGED <<status, attempt, db, journal, edited, raced>>,
           txn.pc \in Busy \ {"finish"}, txn'.pc \in Busy \ {"read"}, txn' \in Txn,
           txn'.own = txn.own, txn'.entries = txn.entries, txn'.undone = txn.undone,
           txn'.group = txn.group, txn'.left = txn.left,
           txn.group \in Group, txn.left > 0, ReadsAreSound'
    PROVE  IInv'
<1>1. \A r \in Row : View(r)' = View(r)
  BY DEF View
<1>2. Log' = Log
  BY DEF Log
<1>3. PhaseIsSound'
  BY DEF IInv, PhaseIsSound, Busy, Group
<1>4. TypeOK'
  BY TxnFacts DEF IInv, TypeOK, Txn
<1>5. RowsAreSound'
  BY <1>1 DEF IInv, RowsAreSound, Sound, EditedAt
<1>6. JournalIsSound' /\ GoodLog(Log)' /\ \A r \in Row, g \in Group : Has(Log, r, g)' <=> Has(Log, r, g)
  BY <1>2 DEF IInv, JournalIsSound, LogIsSound, GoodLog, Chained, Has, Still, EntryIsSound, EditedAt, Brings
<1>7. LogIsSound'
  <2>1. \A r \in Row : View(r) # Absent => \A g \in View(r) \cap Group : Has(Log, r, g)
    BY DEF IInv, LogIsSound, Unjournalled, Busy
  <2> QED
    BY <1>1, <1>6, <2>1 DEF LogIsSound
<1>8. UndoIsSound' /\ NothingOfTheBatchIsLeft'
  BY DEF IInv, UndoIsSound, NothingOfTheBatchIsLeft, Busy
<1> QED
  BY <1>3, <1>4, <1>5, <1>6, <1>7, <1>8 DEF IInv

(* A row read now is as read.                                              *)
LEMMA ReadIsNow ==
    ASSUME IInv, NEW r \in Row PROVE ReadOf(r, View(r), {})
  BY DEF ReadOf, IInv, RowsAreSound, Sound

(* ReadOrder, Capture and SnapshotCustomer.                                *)
LEMMA ReadsPreserve ==
    ASSUME IInv, ReadOrder \/ Capture \/ SnapshotCustomer PROVE IInv'
<1>1. txn \in Txn /\ PhaseIsSound
  BY DEF IInv
<1>2. ASSUME NEW r \in Row, NEW c, NEW S, ReadOf(r, c, S), UNCHANGED <<db, raced>>,
             txn'.own = txn.own
      PROVE  ReadOf(r, c, S)'
  BY <1>2 DEF ReadOf, View
<1>3. OrderOf(txn.group) \in Row /\ Leads \subseteq Row /\ "CUSTOMER" \in Row
  BY DEF OrderOf, Leads, Row
<1>4. "capture" \in Steps /\ "write" \in Steps /\ "customer" \in Steps
  BY DEF Steps
<1>5. CASE ReadOrder
  <2>1. PICK v \in Content, r \in Row : r = OrderOf(txn.group) /\ v = View(r)
    BY <1>3, TxnFacts
  <2>2. /\ txn' = [txn EXCEPT !.pc = "capture", !.instance = v]
        /\ txn.pc = "read" /\ txn.group \in Group /\ txn.left > 0
        /\ UNCHANGED <<status, attempt, db, journal, edited, raced>>
    BY <1>5, <2>1 DEF ReadOrder, Do
  <2>3. /\ txn' \in Txn /\ txn'.own = txn.own /\ txn'.entries = txn.entries
        /\ txn'.undone = txn.undone /\ txn'.group = txn.group /\ txn'.left = txn.left
        /\ txn'.pc = "capture" /\ txn'.instance = v
    BY <1>1, <1>4, <2>2 DEF Txn
  <2>4. ReadOf(r, v, {})'
    BY <1>2, <2>1, <2>2, <2>3, ReadIsNow
  <2>5. OrderOf(txn'.group) = r
    BY <2>1, <2>3
  <2>6. ReadsAreSound'
    BY <2>3, <2>4, <2>5 DEF ReadsAreSound, OrderOf
  <2> QED
    BY <2>2, <2>3, <2>6, ReadingPreserves DEF Busy, Steps
<1>6. CASE Capture
  <2>1. PICK s \in [Leads -> Content] : s = [r \in Leads |-> View(r)]
    BY <1>3, TxnFacts
  <2>2. DOMAIN txn.seen = Leads
    BY TxnFacts
  <2>3. /\ txn' = [txn EXCEPT !.pc = "write", !.seen = s]
        /\ txn.pc = "capture" /\ UNCHANGED <<status, attempt, db, journal, edited, raced>>
    BY <1>6, <2>1, <2>2 DEF Capture, Do
  <2>4. /\ txn' \in Txn /\ txn'.own = txn.own /\ txn'.entries = txn.entries
        /\ txn'.undone = txn.undone /\ txn'.group = txn.group /\ txn'.left = txn.left
        /\ txn'.pc = "write" /\ txn'.instance = txn.instance /\ txn'.seen = s
    BY <1>1, <1>4, <2>3 DEF Txn
  <2>5. txn.group \in Group /\ txn.left > 0
    BY <1>1, <2>3 DEF PhaseIsSound, Steps
  <2>6. PICK o \in Row, c \in Content : o = OrderOf(txn.group) /\ c = txn.instance
    BY <1>3, TxnFacts
  <2>7. ReadOf(o, c, {})'
    BY <1>2, <2>3, <2>4, <2>6 DEF IInv, ReadsAreSound
  <2>8. ASSUME NEW r \in Leads PROVE ReadOf(r, s[r], {})'
    BY <1>2, <1>3, <2>1, <2>3, <2>4, ReadIsNow
  <2>9. ReadsAreSound'
    BY <2>4, <2>6, <2>7, <2>8 DEF ReadsAreSound, OrderOf
  <2> QED
    BY <2>3, <2>4, <2>5, <2>9, ReadingPreserves DEF Busy, Steps
<1>7. CASE SnapshotCustomer
  <2>1. PICK v \in Content : v = View("CUSTOMER")
    BY <1>3, TxnFacts
  <2>2. /\ txn' = [txn EXCEPT !.pc = "customer", !.snap = v]
        /\ txn.pc = "snapshot" /\ UNCHANGED <<status, attempt, db, journal, edited, raced>>
    BY <1>7, <2>1 DEF SnapshotCustomer, Do
  <2>3. /\ txn' \in Txn /\ txn'.own = txn.own /\ txn'.entries = txn.entries
        /\ txn'.undone = txn.undone /\ txn'.group = txn.group /\ txn'.left = txn.left
        /\ txn'.pc = "customer" /\ txn'.snap = v /\ txn'.seen = txn.seen
    BY <1>1, <1>4, <2>2 DEF Txn
  <2>4. txn.group \in Group /\ txn.left > 0
    BY <1>1, <2>2 DEF PhaseIsSound, Steps
  <2>5. PICK s \in [Leads -> Content] : s = txn.seen
    BY TxnFacts
  <2>6. ASSUME NEW r \in Leads PROVE ReadOf(r, s[r], {})'
    BY <1>2, <1>3, <2>2, <2>3, <2>5 DEF IInv, ReadsAreSound
  <2>7. ReadOf("CUSTOMER", v, {})'
    BY <1>2, <1>3, <2>1, <2>2, <2>3, ReadIsNow
  <2>8. ReadsAreSound'
    BY <2>3, <2>5, <2>6, <2>7 DEF ReadsAreSound
  <2> QED
    BY <2>2, <2>3, <2>4, <2>8, ReadingPreserves DEF Busy, Steps
<1> QED
  BY <1>5, <1>6, <1>7

-----------------------------------------------------------------------------
(* A commit writes.                                                        *)

(* A content with the group added to it is a content.                      *)
LEMMA GroupAdded ==
    ASSUME NEW c \in Content, NEW g \in Group
    PROVE  /\ {g} \in Content /\ {g} # Absent /\ g \notin Edit
           /\ c # Absent => c \cup {g} \in Content /\ c \cup {g} # Absent
                            /\ c \subseteq Group \cup Edit
<1>1. {g} \in SUBSET (Group \cup Edit) /\ g \notin Edit
  BY EditsAreNoGroups
<1>2. c # Absent => c \in SUBSET (Group \cup Edit)
  BY DEF Content
<1>3. c # Absent => c \cup {g} \in SUBSET (Group \cup Edit)
  BY <1>2
<1> QED
  BY <1>1, <1>2, <1>3, AbsentIsNoContent DEF Content

(* Putting a content into a row locks the row and changes no other.        *)
LEMMA PutView ==
    ASSUME NEW r \in Row, NEW c \in Content, UNCHANGED db, IInv,
           txn'.own = [x \in DOMAIN txn.own \cup {r} |-> IF x = r THEN c ELSE txn.own[x]]
    PROVE  /\ View(r)' = c /\ \A q \in Row \ {r} : View(q)' = View(q)
           /\ DOMAIN txn'.own = DOMAIN txn.own \cup {r}
           /\ txn'.own \in UNION {[S -> Content] : S \in SUBSET Row}
<1>1. DOMAIN txn.own \subseteq Row /\ \A q \in DOMAIN txn.own : txn.own[q] \in Content
  BY TxnFacts
<1>2. txn'.own \in [DOMAIN txn.own \cup {r} -> Content]
  BY <1>1
<1> QED
  BY <1>1, <1>2 DEF View

(* A sound content that replaces a row's, journalled by a sound entry.     *)
LEMMA WritingPreserves ==
    ASSUME IInv, UNCHANGED <<status, attempt, db, journal, edited, raced>>,
           txn.pc \in {"write", "customer"}, txn'.pc \in {"snapshot", "lead"}, txn' \in Txn,
           txn'.undone = txn.undone, txn'.group = txn.group, txn'.left = txn.left,
           txn'.seen = txn.seen,
           NEW r \in {"ORDER1", "ORDER2", "CUSTOMER"}, NEW b \in Content, NEW c \in Content,
           NEW x \in Entry, x.row = r, x.before = b, ~x.undone,
           txn'.own = [y \in DOMAIN txn.own \cup {r} |-> IF y = r THEN c ELSE txn.own[y]],
           txn'.entries = Append(txn.entries, x),
           c # Absent, Sound(r, c), EntryIsSound(x),
           b # Absent => \A g \in b \cap Group : Has(Log, r, g),
           \A g \in c \cap Group : Has(Log, r, g) \/ Brings(x, r, g)
    PROVE  IInv'
<1>1. /\ r \in Row /\ r \notin Leads /\ Leads \subseteq Row
      /\ View(r)' = c /\ \A q \in Row \ {r} : View(q)' = View(q)
      /\ DOMAIN txn'.own = DOMAIN txn.own \cup {r} /\ r # "NOTE"
  <2>1. r \in Row /\ r \notin Leads /\ Leads \subseteq Row /\ r # "NOTE"
    BY DEF Row, Leads
  <2> QED
    BY <2>1, PutView
<1>2. Log' = Append(Log, x) /\ Log \in Seq(Entry)
  BY LogAppended, TxnFacts DEF Log
<1>3. PhaseIsSound'
  BY DEF IInv, PhaseIsSound, Steps
<1>4. TypeOK'
  BY <1>1, TxnFacts DEF IInv, TypeOK, Txn
<1>5. RowsAreSound'
  <2>1. ASSUME NEW q \in Row, NEW v \in Content, Sound(q, v) PROVE Sound(q, v)'
    BY <2>1 DEF Sound, EditedAt
  <2>2. ASSUME NEW q \in Row PROVE Sound(q, db[q])' /\ Sound(q, View(q))'
    <3>1. PICK d \in Content, v \in Content : d = db[q] /\ v = View(q)
      BY TxnFacts
    <3>2. Sound(q, d)' /\ Sound(q, v)' /\ Sound(r, c)'
      BY <1>1, <2>1, <3>1 DEF IInv, RowsAreSound
    <3>3. db'[q] = d /\ View(q)' = IF q = r THEN c ELSE v
      BY <1>1, <3>1
    <3> QED
      BY <3>2, <3>3 DEF Sound, EditedAt
  <2> QED
    BY <1>1, <2>2 DEF IInv, RowsAreSound
<1>6. ReadsAreSound'
  <2>1. \A q \in Leads : ReadOf(q, txn.seen[q], {})
    BY DEF IInv, ReadsAreSound
  <2>2. \A q \in Leads : ReadOf(q, txn.seen[q], {})'
    BY <1>1, <2>1 DEF ReadOf
  <2> QED
    BY <2>2 DEF ReadsAreSound
<1>7. JournalIsSound'
  BY DEF IInv, JournalIsSound, GoodLog, Chained, Has, Still, EntryIsSound, EditedAt, Brings
<1>8. /\ GoodLog(Append(Log, x))
      /\ \A q \in Row, g \in Group : Has(Log, q, g) => Has(Append(Log, x), q, g)
      /\ \A g \in Group : Brings(x, r, g) => Has(Append(Log, x), r, g)
  BY <1>2, GoodLogGrows DEF IInv, LogIsSound
<1>9. LogIsSound'
  <2>1. \A q \in Row : View(q) # Absent => \A g \in View(q) \cap Group : Has(Log, q, g)
    BY DEF IInv, LogIsSound, Unjournalled
  <2>2. \A q \in Row : View(q)' # Absent => \A g \in View(q)' \cap Group : Has(Append(Log, x), q, g)
    BY <1>1, <1>8, <2>1
  <2>3. PICK L \in Seq(Entry) : L = Append(Log, x)
    <3>1. Append(Log, x) \in Seq(Entry)
      BY <1>2, AppendedEntry
    <3> QED
      BY <3>1
  <2>4. Log' = L /\ GoodLog(L)' /\ \A q \in Row, g \in Group : Has(L, q, g)' <=> Has(L, q, g)
    BY <1>2, <1>8, <2>3 DEF GoodLog, Chained, Has, Still, EntryIsSound, EditedAt, Brings
  <2>5. \A q \in Row : View(q)' # Absent => \A g \in View(q)' \cap Group : Has(Log, q, g)'
    BY <2>2, <2>3, <2>4
  <2> QED
    BY <2>4, <2>5 DEF LogIsSound
<1>10. UndoIsSound' /\ NothingOfTheBatchIsLeft'
  BY DEF IInv, UndoIsSound, NothingOfTheBatchIsLeft
<1> QED
  BY <1>3, <1>4, <1>5, <1>6, <1>7, <1>9, <1>10 DEF IInv

(* An entry has the row, the images and the mark it was made with.         *)
LEMMA JournalledIsAnEntry ==
    ASSUME NEW r \in Row, NEW b \in Content, NEW c \in Content
    PROVE  \E x \in Entry :
              /\ x = Journalled(r, b, c) /\ x.row = r /\ x.before = b /\ x.after = c
              /\ ~x.undone /\ (b = Absent => x.op = "CREATE")
<1>1. PICK p \in {"CREATE", "UPDATE"} : p = IF b = Absent THEN "CREATE" ELSE "UPDATE"
  OBVIOUS
<1>2. Journalled(r, b, c) =
          [row |-> r, op |-> p, before |-> b, after |-> c, undone |-> FALSE]
  BY <1>1 DEF Journalled
<1>3. Journalled(r, b, c) \in Entry
  BY <1>2 DEF Entry
<1> QED
  BY <1>1, <1>2, <1>3

(* The fields of a transaction that has written and journalled a row.      *)
LEMMA PutFields ==
    ASSUME IInv, NEW r \in Row, NEW c \in Content, NEW x \in Entry, NEW p \in Steps,
           txn' = [Put(txn, r, c) EXCEPT !.pc = p, !.entries = Append(@, x)], UNCHANGED db
    PROVE  /\ txn' \in Txn /\ txn'.pc = p /\ txn'.entries = Append(txn.entries, x)
           /\ txn'.own = [y \in DOMAIN txn.own \cup {r} |-> IF y = r THEN c ELSE txn.own[y]]
           /\ txn'.undone = txn.undone /\ txn'.group = txn.group /\ txn'.left = txn.left
           /\ txn'.seen = txn.seen
<1> DEFINE o == [y \in DOMAIN txn.own \cup {r} |-> IF y = r THEN c ELSE txn.own[y]]
           s == Append(txn.entries, x)
<1>1. DOMAIN txn.own \subseteq Row /\ \A q \in DOMAIN txn.own : txn.own[q] \in Content
  BY TxnFacts
<1>2. o \in [DOMAIN txn.own \cup {r} -> Content]
  BY <1>1
<1>3. o \in UNION {[S -> Content] : S \in SUBSET Row}
  BY <1>1, <1>2
<1>4. s \in Seq(Entry)
  BY TxnFacts
<1>5. txn \in Txn /\ txn' = [txn EXCEPT !.own = o, !.pc = p, !.entries = s]
  <2> DEFINE t == [txn EXCEPT !.own = o]
  <2>1. txn \in Txn /\ txn' = [t EXCEPT !.pc = p, !.entries = Append(t.entries, x)]
    BY DEF IInv, Put
  <2>2. t.entries = txn.entries
    BY <2>1 DEF Txn
  <2> QED
    BY <2>1, <2>2
<1> HIDE DEF o, s
<1>6. /\ txn' \in Txn /\ txn'.pc = p /\ txn'.entries = s /\ txn'.own = o
      /\ txn'.undone = txn.undone /\ txn'.group = txn.group /\ txn'.left = txn.left
      /\ txn'.seen = txn.seen
  BY <1>3, <1>4, <1>5 DEF Txn
<1> QED
  BY <1>6 DEF o, s

(* An order is journalled as stored and saved as read.                     *)
LEMMA WriteOrderPreserves == ASSUME IInv, WriteOrder PROVE IInv'
<1>1. /\ txn \in Txn /\ txn.pc = "write" /\ txn.group \in Group /\ txn.left > 0
      /\ UNCHANGED <<status, attempt, db, journal, edited, raced>>
  BY DEF IInv, PhaseIsSound, WriteOrder, Do, Steps
<1>2. PICK r \in {"ORDER1", "ORDER2"}, i \in Content, b \in Content, g \in Group :
          r = OrderOf(txn.group) /\ i = txn.instance /\ b = View(r) /\ g = txn.group
  BY <1>1, TxnFacts DEF OrderOf, Row
<1>3. r \in Row /\ Sound(r, b) /\ ReadOf(r, i, {}) /\ (r \in Kept => r = "ORDER1")
  BY <1>1, <1>2 DEF IInv, RowsAreSound, ReadsAreSound, Kept, Row
<1>4. PICK c \in Content : c = IF i = Absent THEN {g} ELSE i \cup {g}
  BY GroupAdded
<1>5. c # Absent /\ g \notin Edit /\ g \in c /\ (i # Absent => i \subseteq Group \cup Edit)
  BY <1>4, GroupAdded
<1>6. CASE i = Absent \/ g \notin i
  <2>1. PICK x \in Entry :
            /\ x = Journalled(r, b, c) /\ x.row = r /\ x.before = b /\ x.after = c
            /\ ~x.undone /\ (b = Absent => x.op = "CREATE")
    BY <1>3, JournalledIsAnEntry
  <2>2. /\ x.row = r /\ x.before = b /\ x.after = c /\ ~x.undone
        /\ b = Absent => x.op = "CREATE"
    BY <2>1
  <2>3. txn' = [Put(txn, r, c) EXCEPT !.pc = "snapshot", !.entries = Append(@, x)]
    BY <1>2, <1>4, <1>6, <2>1 DEF WriteOrder, Do
  <2>4. "snapshot" \in Steps /\ r # "NOTE" /\ r # "NEWLEAD"
    BY <1>2 DEF Steps
  <2>5. /\ i # Absent => b # Absent /\ i \subseteq b
        /\ b # Absent => \A y \in b : (i # Absent /\ y \in i) \/ y \in raced
        /\ r \in Kept => i # Absent
    BY <1>2, <1>3 DEF ReadOf
  <2>6. Sound(r, c)
    BY <1>3, <1>4, <1>5, <2>4, <2>5 DEF Sound, EditedAt
  <2>7. EntryIsSound(x)
    BY <1>3, <1>4, <1>5, <2>2, <2>4, <2>5, <2>6 DEF EntryIsSound, Sound, EditedAt
  <2>8. b # Absent => \A h \in b \cap Group : Has(Log, r, h)
    BY <1>1, <1>2, <1>3 DEF IInv, LogIsSound, Unjournalled
  <2>9. \A h \in c \cap Group : Has(Log, r, h) \/ Brings(x, r, h)
    BY <1>4, <2>2, <2>5, <2>8 DEF Brings
  <2>10. /\ txn' \in Txn /\ txn'.pc = "snapshot" /\ txn'.entries = Append(txn.entries, x)
         /\ txn'.own = [y \in DOMAIN txn.own \cup {r} |-> IF y = r THEN c ELSE txn.own[y]]
         /\ txn'.undone = txn.undone /\ txn'.group = txn.group /\ txn'.left = txn.left
         /\ txn'.seen = txn.seen
    BY <1>1, <1>3, <2>3, <2>4, PutFields
  <2> QED
    BY <1>1, <1>5, <2>2, <2>6, <2>7, <2>8, <2>9, <2>10, WritingPreserves
<1>7. CASE i # Absent /\ g \in i
  <2>1. txn' = [txn EXCEPT !.pc = "finish"]
    BY <1>2, <1>7 DEF WriteOrder, Do
  <2>2. /\ txn' \in Txn /\ txn'.own = txn.own /\ txn'.entries = txn.entries
        /\ txn'.undone = txn.undone /\ txn'.group = txn.group /\ txn'.left = txn.left
        /\ txn'.pc = "finish" /\ txn'.seen = txn.seen
    BY <1>1, <2>1 DEF Txn, Steps
  <2>3. PICK s \in [Leads -> Content] : s = txn.seen
    BY TxnFacts
  <2>4. \A q \in Leads : ReadOf(q, s[q], {})
    BY <1>1, <2>3 DEF IInv, ReadsAreSound
  <2>5. \A q \in Leads : ReadOf(q, s[q], {g})'
    BY <1>1, <2>2, <2>4 DEF ReadOf, View
  <2>6. ReadsAreSound'
    BY <1>2, <2>2, <2>3, <2>5 DEF ReadsAreSound
  <2> QED
    BY <1>1, <2>2, <2>6, ReadingPreserves DEF Busy, Steps
<1> QED
  BY <1>6, <1>7

(* The customer is journalled as it was before its orders were counted.    *)
LEMMA SaveCustomerPreserves == ASSUME IInv, SaveCustomer PROVE IInv'
<1>1. /\ txn \in Txn /\ txn.pc = "customer" /\ txn.group \in Group /\ txn.left > 0
      /\ UNCHANGED <<status, attempt, db, journal, edited, raced>>
  BY DEF IInv, PhaseIsSound, SaveCustomer, Do, Steps
<1>2. /\ "CUSTOMER" \in Row /\ "CUSTOMER" \in Kept /\ "lead" \in Steps
      /\ "CUSTOMER" \in {"ORDER1", "ORDER2", "CUSTOMER"}
  BY DEF Row, Kept, Steps
<1>3. PICK v \in Content, b \in Content, g \in Group, r \in {"ORDER1", "ORDER2", "CUSTOMER"} :
          r = "CUSTOMER" /\ b = txn.snap /\ v = View(r) /\ g = txn.group
  BY <1>1, <1>2, TxnFacts
<1>4. Sound(r, v) /\ ReadOf(r, b, {}) /\ r \in Row /\ r \in Kept
  BY <1>1, <1>2, <1>3 DEF IInv, RowsAreSound, ReadsAreSound
<1>5. v # Absent /\ b # Absent /\ b \subseteq v /\ \A y \in v : y \in b \/ y \in raced
  BY <1>3, <1>4 DEF ReadOf, Sound
<1>6. PICK c \in Content : c = v \cup {g} /\ c # Absent /\ g \notin Edit
  BY <1>5, GroupAdded
<1>7. PICK x \in Entry : /\ x = Journalled(r, b, c) /\ x.row = r /\ x.before = b
                        /\ x.after = c /\ ~x.undone
  BY <1>4, JournalledIsAnEntry
<1>8. /\ x.row = r /\ x.before = b /\ x.after = c /\ ~x.undone
  BY <1>7
<1>9. txn' = [Put(txn, r, c) EXCEPT !.pc = "lead", !.entries = Append(@, x)]
  BY <1>3, <1>6, <1>7 DEF SaveCustomer, Do
<1>10. Sound(r, c)
  BY <1>3, <1>4, <1>5, <1>6 DEF Sound, EditedAt
<1>11. EntryIsSound(x)
  BY <1>3, <1>4, <1>5, <1>6, <1>8, <1>10 DEF EntryIsSound, Sound, EditedAt
<1>12. \A h \in v \cap Group : Has(Log, r, h)
  BY <1>1, <1>3, <1>4, <1>5 DEF IInv, LogIsSound, Unjournalled
<1>13. \A h \in c \cap Group : Has(Log, r, h) \/ Brings(x, r, h)
  BY <1>5, <1>6, <1>8, <1>12 DEF Brings
<1>14. /\ txn' \in Txn /\ txn'.pc = "lead" /\ txn'.entries = Append(txn.entries, x)
       /\ txn'.own = [y \in DOMAIN txn.own \cup {r} |-> IF y = r THEN c ELSE txn.own[y]]
       /\ txn'.undone = txn.undone /\ txn'.group = txn.group /\ txn'.left = txn.left
       /\ txn'.seen = txn.seen
  BY <1>1, <1>2, <1>4, <1>9, PutFields
<1>15. \A h \in b \cap Group : Has(Log, r, h)
  BY <1>5, <1>12
<1> QED
  BY <1>1, <1>6, <1>8, <1>10, <1>11, <1>13, <1>14, <1>15, WritingPreserves

(* The leads get the group, and LeadTracker.finish has yet to see it.      *)
LEMMA WriteLeadsPreserves == ASSUME IInv, WriteLeads PROVE IInv'
<1>1. /\ txn \in Txn /\ txn.pc = "lead" /\ txn.group \in Group /\ txn.left > 0
      /\ UNCHANGED <<status, attempt, db, journal, edited, raced>>
  BY DEF IInv, PhaseIsSound, WriteLeads, Do, Steps
<1>2. Leads \subseteq Row /\ "finish" \in Steps /\ Leads = {"LEAD", "NEWLEAD"}
  BY DEF Leads, Row, Steps
<1>3. PICK v \in [Row -> Content] : \A r \in Row : v[r] = View(r)
  <2> DEFINE w == [r \in Row |-> View(r)]
  <2>1. w \in [Row -> Content] /\ \A r \in Row : w[r] = View(r)
    BY TxnFacts
  <2> QED
    BY <2>1
<1>4. PICK g \in Group, s \in [Leads -> Content] : g = txn.group /\ s = txn.seen
  BY <1>1, TxnFacts
<1>5. \A r \in Row : Sound(r, v[r])
  BY <1>3 DEF IInv, RowsAreSound
<1>6. \A r \in Leads : /\ s[r] # Absent => v[r] # Absent /\ s[r] \subseteq v[r]
                       /\ v[r] # Absent => \A y \in v[r] : (s[r] # Absent /\ y \in s[r]) \/ y \in raced
                       /\ r \in Kept => s[r] # Absent
  BY <1>1, <1>2, <1>3, <1>4 DEF IInv, ReadsAreSound, ReadOf
<1>7. PICK S \in SUBSET Leads :
          S = {r \in Leads : View(r) # Absent} \cup (IF txn.group = 2 THEN {"NEWLEAD"} ELSE {})
  <2>1. \A T : T = {r \in Leads : View(r) # Absent} \cup (IF txn.group = 2 THEN {"NEWLEAD"} ELSE {})
               => T \in SUBSET Leads
    BY <1>2
  <2> QED
    BY <2>1
<1>8. \A r \in Leads : v[r] # Absent => r \in S
  BY <1>2, <1>3, <1>7
<1>9. PICK a \in [Row -> Content] :
          \A r \in Row : a[r] = IF v[r] = Absent THEN {g} ELSE v[r] \cup {g}
  <2>1. \A r \in Row : (IF v[r] = Absent THEN {g} ELSE v[r] \cup {g}) \in Content
    BY GroupAdded
  <2>2. [r \in Row |-> IF v[r] = Absent THEN {g} ELSE v[r] \cup {g}] \in [Row -> Content]
    BY <2>1
  <2> QED
    BY <2>2
<1>10. \A r \in Row : a[r] # Absent /\ g \notin Edit
  BY <1>9, GroupAdded
<1>11. PICK o \in UNION {[T -> Content] : T \in SUBSET Row} :
          o = [r \in DOMAIN txn.own \cup S |-> IF r \in S THEN a[r] ELSE txn.own[r]]
  <2>1. DOMAIN txn.own \subseteq Row /\ \A q \in DOMAIN txn.own : txn.own[q] \in Content
    BY TxnFacts
  <2>2. [r \in DOMAIN txn.own \cup S |-> IF r \in S THEN a[r] ELSE txn.own[r]]
            \in [DOMAIN txn.own \cup S -> Content]
    BY <1>2, <2>1
  <2>3. DOMAIN txn.own \cup S \in SUBSET Row
    BY <1>2, <2>1
  <2> QED
    BY <2>2, <2>3
<1>12. txn' = [txn EXCEPT !.pc = "finish", !.own = o]
  <2>1. S = {r \in {"LEAD", "NEWLEAD"} : View(r) # Absent}
               \cup (IF txn.group = 2 THEN {"NEWLEAD"} ELSE {})
    BY <1>2, <1>7
  <2>2. \A r \in S : a[r] = IF View(r) = Absent THEN {txn.group} ELSE View(r) \cup {txn.group}
    BY <1>2, <1>3, <1>4, <1>9
  <2>3. txn' = [txn EXCEPT !.pc = "finish",
                   !.own = [r \in DOMAIN txn.own \cup S |-> IF r \in S
                       THEN IF View(r) = Absent THEN {txn.group} ELSE View(r) \cup {txn.group}
                       ELSE txn.own[r]]]
    BY <2>1 DEF WriteLeads, Do
  <2>4. o = [r \in DOMAIN txn.own \cup S |-> IF r \in S
                 THEN IF View(r) = Absent THEN {txn.group} ELSE View(r) \cup {txn.group}
                 ELSE txn.own[r]]
    BY <1>11, <2>2
  <2> QED
    BY <2>3, <2>4
<1>13. /\ txn' \in Txn /\ txn'.pc = "finish" /\ txn'.own = o /\ txn'.entries = txn.entries
       /\ txn'.undone = txn.undone /\ txn'.group = g /\ txn'.left = txn.left
       /\ txn'.seen = s
  BY <1>1, <1>2, <1>4, <1>12 DEF Txn
<1>14. PICK n \in [Row -> Content] : \A r \in Row : n[r] = IF r \in S THEN a[r] ELSE v[r]
  <2>1. [r \in Row |-> IF r \in S THEN a[r] ELSE v[r]] \in [Row -> Content]
    OBVIOUS
  <2> QED
    BY <2>1
<1>15. \A r \in Row : View(r)' = n[r]
  BY <1>1, <1>2, <1>3, <1>11, <1>13, <1>14 DEF View
<1>16. "NOTE" \notin DOMAIN txn'.own
  BY <1>2, <1>11, <1>13 DEF IInv, RowsAreSound
<1>17. \A r \in Row : Sound(r, n[r])
  BY <1>5, <1>9, <1>10, <1>14 DEF Sound, EditedAt
<1>18. RowsAreSound'
  <2>1. \A r \in Row : Sound(r, n[r])' /\ Sound(r, db[r])'
    BY <1>1, <1>17 DEF IInv, RowsAreSound, Sound, EditedAt
  <2> QED
    BY <1>15, <1>16, <2>1 DEF RowsAreSound, Sound, EditedAt
<1>19. ReadsAreSound'
  <2>1. ASSUME NEW r \in Leads PROVE ReadOf(r, s[r], {g})'
    <3>1. /\ s[r] # Absent => n[r] # Absent /\ s[r] \subseteq n[r]
          /\ n[r] # Absent =>
                \A y \in n[r] : (s[r] # Absent /\ y \in s[r]) \/ y \in raced \/ y \in {g}
          /\ r \in Kept => s[r] # Absent
      BY <1>2, <1>6, <1>8, <1>9, <1>10, <1>14
    <3> QED
      BY <1>1, <1>2, <1>15, <3>1 DEF ReadOf
  <2> QED
    BY <1>13, <2>1 DEF ReadsAreSound
<1>20. Log' = Log
  BY <1>1, <1>13 DEF Log
<1>21. /\ JournalIsSound' /\ GoodLog(Log)'
       /\ \A r \in Row, h \in Group : Has(Log, r, h)' <=> Has(Log, r, h)
  BY <1>1, <1>20 DEF IInv, JournalIsSound, LogIsSound, GoodLog, Chained, Has, Still,
     EntryIsSound, EditedAt, Brings
<1>22. LogIsSound'
  <2>1. \A r \in Row : v[r] # Absent => \A h \in v[r] \cap Group : Has(Log, r, h)
    BY <1>1, <1>3 DEF IInv, LogIsSound, Unjournalled
  <2>2. ASSUME NEW r \in Row, n[r] # Absent, NEW h \in n[r] \cap Group
        PROVE  Has(Log, r, h) \/ Unjournalled(r, h)'
    <3>1. CASE r \notin S
      BY <1>14, <2>1, <2>2, <3>1
    <3>2. CASE r \in S /\ v[r] # Absent /\ h \in v[r]
      BY <2>1, <3>2
    <3>3. CASE r \in S /\ (v[r] = Absent \/ h \notin v[r])
      <4>1. r \in Leads /\ (s[r] = Absent \/ h \notin s[r])
        BY <1>6, <3>3
      <4> QED
        BY <1>13, <4>1 DEF Unjournalled
    <3> QED
      BY <3>1, <3>2, <3>3
  <2> QED
    BY <1>15, <1>21, <2>2 DEF LogIsSound
<1>23. PhaseIsSound' /\ TypeOK' /\ UndoIsSound' /\ NothingOfTheBatchIsLeft'
  <2>1. PhaseIsSound'
    BY <1>1, <1>4, <1>13 DEF IInv, PhaseIsSound, Group, Steps
  <2>2. TypeOK'
    BY <1>1, <1>11, <1>13, TxnFacts DEF IInv, TypeOK, Txn
  <2> QED
    BY <1>1, <1>13, <2>1, <2>2 DEF IInv, UndoIsSound, NothingOfTheBatchIsLeft
<1> QED
  BY <1>13, <1>18, <1>19, <1>21, <1>22, <1>23 DEF IInv

(* LeadTracker.finish: a lead that is not as captured gets its entry, and  *)
(* what the group brought to it is accounted for.                          *)
LEMMA TrackedIsJournalled ==
    ASSUME IInv, txn.pc = "finish", txn.group \in Group, NEW r \in Leads, NEW L \in Seq(Entry),
           GoodLog(L), \A q \in Row, h \in Group : Has(Log, q, h) => Has(L, q, h),
           NEW N, N = L \o (IF r \in Tracked(txn)
                            THEN <<Journalled(r, txn.seen[r], View(r))>> ELSE <<>>)
    PROVE  /\ N \in Seq(Entry) /\ GoodLog(N)
           /\ \A q \in Row, h \in Group : Has(L, q, h) => Has(N, q, h)
           /\ View(r) # Absent => \A h \in View(r) \cap Group : Has(N, r, h)
<1>1. r \in Row /\ r # "NOTE" /\ DOMAIN txn.seen = Leads
  BY TxnFacts DEF Leads, Row
<1>2. PICK s \in Content, v \in Content, g \in Group :
          s = txn.seen[r] /\ v = View(r) /\ g = txn.group
  BY <1>1, TxnFacts
<1>3. /\ s # Absent => v # Absent /\ s \subseteq v
      /\ v # Absent => \A y \in v : (s # Absent /\ y \in s) \/ y \in raced \/ y = g
      /\ r \in Kept => s # Absent
      /\ Sound(r, v)
  BY <1>1, <1>2 DEF IInv, ReadsAreSound, ReadOf, RowsAreSound
<1>4. v # Absent => \A h \in v \cap Group : Has(L, r, h) \/ s = Absent \/ h \notin s
  BY <1>1, <1>2 DEF IInv, LogIsSound, Unjournalled
<1>5. CASE r \notin Tracked(txn)
  <2>1. v = s
    BY <1>1, <1>2, <1>5 DEF Tracked
  <2>2. N = L
    BY <1>5, NothingAdded
  <2> QED
    BY <1>2, <1>4, <2>1, <2>2
<1>6. CASE r \in Tracked(txn)
  <2>1. v # s
    BY <1>1, <1>2, <1>6 DEF Tracked
  <2>2. PICK x \in Entry :
            /\ x = Journalled(r, s, v) /\ x.row = r /\ x.before = s /\ x.after = v
            /\ ~x.undone /\ (s = Absent => x.op = "CREATE")
    BY <1>1, JournalledIsAnEntry
  <2>3. N = Append(L, x) /\ N \in Seq(Entry)
    BY <1>2, <1>6, <2>2, LogAppended
  <2>4. v # Absent
    BY <1>3, <2>1
  <2>5. g \notin Edit
    BY EditsAreNoGroups
  <2>6. EntryIsSound(x)
    BY <1>1, <1>3, <2>2, <2>4, <2>5 DEF EntryIsSound, Sound, EditedAt
  <2>7. s # Absent => \A h \in s \cap Group : Has(L, r, h)
    BY <1>3, <1>4
  <2>8. /\ GoodLog(Append(L, x))
        /\ \A q \in Row, h \in Group : Has(L, q, h) => Has(Append(L, x), q, h)
        /\ \A h \in Group : Brings(x, r, h) => Has(Append(L, x), r, h)
    BY <2>2, <2>6, <2>7, GoodLogGrows
  <2>9. \A h \in v \cap Group : Has(L, r, h) \/ Brings(x, r, h)
    BY <1>4, <2>2, <2>4 DEF Brings
  <2>10. \A h \in v \cap Group : Has(N, r, h)
    BY <1>1, <2>3, <2>8, <2>9
  <2> QED
    BY <1>2, <2>3, <2>8, <2>10
<1> QED
  BY <1>5, <1>6

(* The group is over: its leads are journalled.                            *)
LEMMA FinishPreserves == ASSUME IInv, Finish PROVE IInv'
<1> DEFINE change(r) == IF r \in Tracked(txn)
                        THEN <<Journalled(r, txn.seen[r], View(r))>> ELSE <<>>
<1>1. /\ txn \in Txn /\ txn.pc = "finish" /\ txn.group \in Group /\ txn.left > 0
      /\ status = "COMMITTING" /\ txn.undone = {}
      /\ UNCHANGED <<status, attempt, db, journal, edited, raced>>
  BY DEF IInv, PhaseIsSound, Finish, Do, Steps
<1>2. "LEAD" \in Leads /\ "NEWLEAD" \in Leads /\ Leads \subseteq Row /\ "read" \in Steps
  BY DEF Leads, Row, Steps
<1>3. /\ Log \in Seq(Entry) /\ GoodLog(Log) /\ txn.entries \in Seq(Entry) /\ journal \in Seq(Entry)
      /\ \A q \in Row, h \in Group : Has(Log, q, h) => Has(Log, q, h)
  BY TxnFacts DEF IInv, LogIsSound
<1>4. \A r \in Leads : change(r) \in Seq(Entry)
  <2>1. ASSUME NEW r \in Leads PROVE change(r) \in Seq(Entry)
    <3>1. r \in Row /\ txn.seen[r] \in Content /\ View(r) \in Content
      BY <1>2, TxnFacts
    <3>2. Journalled(r, txn.seen[r], View(r)) \in Entry
      BY <3>1, JournalledIsAnEntry
    <3> QED
      BY <3>2
  <2> QED
    BY <2>1
<1>5. PICK c \in Seq(Entry), d \in Seq(Entry) : c = change("LEAD") /\ d = change("NEWLEAD")
  BY <1>2, <1>4
<1>6. PICK M, N : M = Log \o c /\ N = M \o d
  OBVIOUS
<1>7. /\ M \in Seq(Entry) /\ GoodLog(M)
      /\ \A q \in Row, h \in Group : Has(Log, q, h) => Has(M, q, h)
      /\ View("LEAD") # Absent => \A h \in View("LEAD") \cap Group : Has(M, "LEAD", h)
  BY <1>1, <1>2, <1>3, <1>5, <1>6, TrackedIsJournalled
<1>8. /\ N \in Seq(Entry) /\ GoodLog(N)
      /\ \A q \in Row, h \in Group : Has(M, q, h) => Has(N, q, h)
      /\ View("NEWLEAD") # Absent => \A h \in View("NEWLEAD") \cap Group : Has(N, "NEWLEAD", h)
  BY <1>1, <1>2, <1>5, <1>6, <1>7, TrackedIsJournalled
<1>9. ASSUME NEW r \in Row, View(r) # Absent, NEW h \in View(r) \cap Group PROVE Has(N, r, h)
  <2>1. CASE r \in Leads
    BY <1>2, <1>7, <1>8, <1>9, <2>1 DEF Leads
  <2>2. CASE r \notin Leads
    <3>1. Has(Log, r, h)
      BY <1>1, <1>9, <2>2 DEF IInv, LogIsSound, Unjournalled
    <3> QED
      BY <1>7, <1>8, <3>1
  <2> QED
    BY <2>1, <2>2
<1>10. PICK e \in Seq(Entry) : e = txn.entries \o c \o d
  BY <1>3, TwoAppended
<1>11. journal \o e = N
  <2>1. PICK J \in Seq(Entry), s \in Seq(Entry) : J = journal /\ s = txn.entries
    BY <1>3
  <2>2. J \o ((s \o c) \o d) = ((J \o s) \o c) \o d
    <3>1. s \o c \in Seq(Entry) /\ J \o ((s \o c) \o d) = (J \o (s \o c)) \o d
      OBVIOUS
    <3>2. J \o (s \o c) = (J \o s) \o c
      OBVIOUS
    <3> QED
      BY <3>1, <3>2
  <2>3. N = ((J \o s) \o c) \o d /\ e = (s \o c) \o d
    BY <1>6, <1>10, <2>1 DEF Log
  <2> QED
    BY <2>1, <2>2, <2>3
<1>12. txn' = [txn EXCEPT !.entries = e, !.pc = "read", !.group = txn.group + 1,
                          !.left = txn.left - 1, !.instance = Absent, !.snap = Absent,
                          !.seen = Idle.seen]
  <2>1. txn' = NextGroup([txn EXCEPT !.entries = e])
    BY <1>5, <1>10 DEF Finish, Do
  <2>2. /\ [txn EXCEPT !.entries = e].group = txn.group
        /\ [txn EXCEPT !.entries = e].left = txn.left
    BY <1>1 DEF Txn
  <2> QED
    BY <2>1, <2>2 DEF NextGroup
<1>13. txn.group + 1 \in 1..3 /\ txn.left - 1 \in Nat /\ Absent \in Content
  BY <1>1, TxnFacts DEF Group, Content
<1>14. /\ txn' \in Txn /\ txn'.pc = "read" /\ txn'.own = txn.own /\ txn'.entries = e
       /\ txn'.undone = txn.undone /\ txn'.group = txn.group + 1
  <2>1. txn.group + 1 \in 0..3
    BY <1>13
  <2> QED
    BY <1>1, <1>2, <1>12, <1>13, <2>1, IdleIsATxn DEF Txn
<1>15. Log' = N /\ \A r \in Row : View(r)' = View(r)
  BY <1>1, <1>11, <1>14 DEF Log, View
<1>16. RowsAreSound'
  BY <1>1, <1>14, <1>15 DEF IInv, RowsAreSound, Sound, EditedAt
<1>17. JournalIsSound'
  BY <1>1 DEF IInv, JournalIsSound, GoodLog, Chained, Has, Still, EntryIsSound, EditedAt, Brings
<1>18. LogIsSound'
  <2>1. GoodLog(Log)' /\ \A r \in Row, h \in Group : Has(Log, r, h)' <=> Has(N, r, h)
    BY <1>1, <1>8, <1>15 DEF GoodLog, Chained, Has, Still, EntryIsSound, EditedAt, Brings
  <2> QED
    BY <1>9, <1>15, <2>1 DEF LogIsSound
<1>19. PhaseIsSound' /\ ReadsAreSound' /\ UndoIsSound' /\ NothingOfTheBatchIsLeft'
  BY <1>1, <1>13, <1>14 DEF IInv, PhaseIsSound, ReadsAreSound, UndoIsSound, NothingOfTheBatchIsLeft
<1>20. TypeOK'
  BY <1>1, <1>14, TxnFacts DEF IInv, TypeOK, Txn
<1> QED
  BY <1>14, <1>16, <1>17, <1>18, <1>19, <1>20 DEF IInv

-----------------------------------------------------------------------------
(* Commits.                                                                *)

(* What a transaction wrote becomes the rows: what it saw is what is there.*)
LEMMA CommittedPreserves ==
    ASSUME IInv, db' = [r \in Row |-> View(r)], UNCHANGED <<edited, raced>>,
           txn' \in Txn, txn'.own = Idle.own, txn'.entries = <<>>, txn'.undone = {},
           txn'.pc \in {"idle", "read", "undo"},
           JournalIsSound', PhaseIsSound', TypeOK', NothingOfTheBatchIsLeft'
    PROVE  IInv'
<1>1. \A r \in Row : View(r)' = db'[r] /\ db'[r] = View(r)
  BY IdleIsATxn DEF View
<1>2. journal' \in Seq(Entry) /\ journal' \o <<>> = journal'
  BY NothingAdded DEF TypeOK
<1>3. Log' = journal'
  BY <1>2 DEF Log
<1>4. RowsAreSound'
  <2>1. db'["NOTE"] = db["NOTE"]
    BY DEF IInv, RowsAreSound, View, Row
  <2>2. PICK v \in [Row -> Content] : v = db'
    BY DEF TypeOK
  <2>3. \A r \in Row : Sound(r, v[r])
    BY <1>1, <2>2 DEF IInv, RowsAreSound
  <2>4. \A r \in Row : Sound(r, v[r])'
    BY <2>1, <2>3 DEF Sound, EditedAt
  <2>5. \A r \in Row : Sound(r, db[r])' /\ Sound(r, View(r))'
    BY <1>1, <2>2, <2>4 DEF Sound, EditedAt
  <2> QED
    BY <2>5, IdleIsATxn DEF RowsAreSound
<1>5. ReadsAreSound'
  BY DEF ReadsAreSound
<1>6. LogIsSound'
  <2>1. GoodLog(Log)' /\ \A r \in Row, g \in Group : Has(Log, r, g)' <=> Has(journal, r, g)'
    BY <1>3 DEF JournalIsSound, GoodLog, Chained, Has, Still, EntryIsSound, EditedAt, Brings
  <2> QED
    BY <1>1, <2>1 DEF JournalIsSound, LogIsSound
<1>7. UndoIsSound'
  <2>1. Still(journal)' = Pending' /\ Pending' \ {} = Pending'
    BY DEF Still, Pending
  <2>2. \A r \in Row : View(r)' # Absent =>
            \A g \in View(r)' \cap Group : \E i \in Pending' \ {} : Brings(journal[i], r, g)'
    BY <1>1, <2>1 DEF JournalIsSound, Has
  <2> QED
    BY <2>2 DEF UndoIsSound
<1> QED
  BY <1>4, <1>5, <1>6, <1>7 DEF IInv

(* A chunk commits: its log is the journal from then on.                   *)
LEMMA CommitChunkPreserves == ASSUME IInv, CommitChunk PROVE IInv'
<1>1. /\ TypeOK /\ txn.pc = "read" /\ status = "COMMITTING" /\ txn.undone = {} /\ txn.group \in 1..3
      /\ journal' = Log /\ db' = [r \in Row |-> View(r)] /\ UNCHANGED <<attempt, edited, raced>>
      /\ ChunkSize \in Nat
  BY SizesArePositive DEF IInv, PhaseIsSound, CommitChunk, Steps, Log
<1>2. PICK L \in Seq(Entry) : L = Log
  BY TxnFacts
<1>3. JournalIsSound'
  <2>1. GoodLog(L) /\ \A r \in Row : View(r) # Absent => \A g \in View(r) \cap Group : Has(L, r, g)
    BY <1>1, <1>2 DEF IInv, LogIsSound, Unjournalled
  <2>2. journal' = L /\ GoodLog(L)' /\ \A r \in Row, g \in Group : Has(L, r, g)' <=> Has(L, r, g)
    BY <1>1, <1>2, <2>1 DEF GoodLog, Chained, Has, Still, EntryIsSound, EditedAt, Brings
  <2> QED
    BY <1>1, <2>1, <2>2 DEF JournalIsSound
<1>4. /\ db' \in [Row -> Content] /\ journal' \in Seq(Entry)
      /\ edited' \in [Edit -> Row \cup {NoEdit}] /\ raced' \subseteq Edit /\ attempt' \in 0..MaxAttempts
  BY <1>1, TxnFacts DEF TypeOK
<1>5. CASE txn.group \in Group
  <2>1. "read" \in Steps /\ txn.group \in 0..3
    BY <1>1 DEF Steps
  <2>2. txn' = [Idle EXCEPT !.pc = "read", !.group = txn.group, !.left = ChunkSize] /\ status' = status
    BY <1>5 DEF CommitChunk
  <2>3. /\ txn' \in Txn /\ txn'.own = Idle.own /\ txn'.entries = <<>> /\ txn'.undone = {}
        /\ txn'.pc = "read" /\ txn'.group = txn.group
    BY <1>1, <2>1, <2>2, IdleIsATxn DEF Txn
  <2>4. PhaseIsSound' /\ NothingOfTheBatchIsLeft'
    BY <1>1, <2>2, <2>3 DEF PhaseIsSound, NothingOfTheBatchIsLeft
  <2>5. TypeOK'
    BY <1>1, <1>4, <2>2, <2>3, IdleIsATxn DEF TypeOK, Txn
  <2> QED
    BY <1>1, <1>3, <2>3, <2>4, <2>5, CommittedPreserves
<1>6. CASE txn.group \notin Group
  <2>1. txn' = Idle /\ status' = "COMMITTED"
    BY <1>6 DEF CommitChunk
  <2>2. PhaseIsSound' /\ NothingOfTheBatchIsLeft'
    BY <2>1, IdleIsATxn DEF PhaseIsSound, NothingOfTheBatchIsLeft
  <2>3. TypeOK'
    BY <1>1, <1>4, <2>1, IdleIsATxn DEF TypeOK, Txn
  <2> QED
    BY <1>1, <1>3, <2>1, <2>2, <2>3, IdleIsATxn, CommittedPreserves
<1> QED
  BY <1>5, <1>6

-----------------------------------------------------------------------------
(* Rollback.                                                               *)

(* The newest entry is undone: what its before image has came with older   *)
(* entries, and no edit that did not race is in the after image alone.     *)
LEMMA UndoPreserves == ASSUME IInv, Undo PROVE IInv'
<1>1. /\ TypeOK /\ txn \in Txn /\ txn.pc = "undo" /\ txn.left > 0 /\ status = "ROLLING_BACK"
      /\ txn.entries = <<>> /\ UNCHANGED <<status, attempt, db, journal, edited, raced>>
      /\ journal \in Seq(Entry) /\ DOMAIN journal \subseteq Nat
  BY TxnFacts DEF IInv, PhaseIsSound, Undo
<1>2. PICK i \in NextPending(txn.undone) :
          /\ View(journal[i].row) = journal[i].after
          /\ journal[i].op = "CREATE" => ForeignDependents(journal[i].row) = {}
          /\ txn' = [Put(txn, journal[i].row, journal[i].before)
                        EXCEPT !.undone = @ \cup {i}, !.left = @ - 1]
  BY DEF Undo
<1>3. i \in Pending /\ i \notin txn.undone /\ \A j \in Pending \ txn.undone : j <= i
  BY <1>2 DEF NextPending
<1>4. i \in DOMAIN journal /\ i \in Nat /\ Pending \subseteq Nat /\ Pending = Still(journal)
  BY <1>1, <1>3 DEF Pending, Still
<1>5. journal[i] \in Entry
  BY <1>1, <1>4
<1>6. PICK r \in Row, b \in Content, c \in Content :
          r = journal[i].row /\ b = journal[i].before /\ c = journal[i].after
  BY <1>5 DEF Entry
<1>7. View(r) = c
  BY <1>2, <1>6
<1>8. EntryIsSound(journal[i])
  BY <1>4 DEF IInv, JournalIsSound, GoodLog
<1>9. /\ r # "NOTE" /\ (r \in Kept => b # Absent) /\ EditedAt(b, r)
      /\ b = Absent => journal[i].op = "CREATE"
      /\ c # Absent => \A e \in c \cap Edit : e \in raced \/ (b # Absent /\ e \in b)
  BY <1>6, <1>8 DEF EntryIsSound
<1>10. b = Absent /\ r = "NEWLEAD" => db["NOTE"] = Absent
  BY <1>2, <1>6, <1>9 DEF ForeignDependents
<1>11. Sound(r, c)
  BY <1>7 DEF IInv, RowsAreSound
<1>12. Sound(r, b)
  BY <1>9, <1>10, <1>11 DEF Sound
<1>13. PICK o \in UNION {[S -> Content] : S \in SUBSET Row} :
           o = [y \in DOMAIN txn.own \cup {r} |-> IF y = r THEN b ELSE txn.own[y]]
  <2>1. DOMAIN txn.own \subseteq Row /\ \A q \in DOMAIN txn.own : txn.own[q] \in Content
    BY TxnFacts
  <2>2. [y \in DOMAIN txn.own \cup {r} |-> IF y = r THEN b ELSE txn.own[y]]
            \in [DOMAIN txn.own \cup {r} -> Content]
    BY <2>1
  <2> QED
    BY <2>1, <2>2
<1>14. txn' = [txn EXCEPT !.own = o, !.undone = txn.undone \cup {i}, !.left = txn.left - 1]
  <2>1. txn' = [[txn EXCEPT !.own = o] EXCEPT !.undone = @ \cup {i}, !.left = @ - 1]
    BY <1>2, <1>6, <1>13 DEF Put
  <2>2. [txn EXCEPT !.own = o].undone = txn.undone /\ [txn EXCEPT !.own = o].left = txn.left
    BY <1>1 DEF Txn
  <2> QED
    BY <2>1, <2>2
<1>15. txn.undone \cup {i} \in SUBSET Nat /\ txn.left - 1 \in Nat
  BY <1>1, <1>4 DEF Txn
<1>16. /\ txn' \in Txn /\ txn'.pc = "undo" /\ txn'.own = o /\ txn'.entries = <<>>
       /\ txn'.undone = txn.undone \cup {i} /\ txn'.group = txn.group
  BY <1>1, <1>13, <1>14, <1>15 DEF Txn
<1>17. /\ View(r)' = b /\ \A q \in Row \ {r} : View(q)' = View(q)
       /\ DOMAIN txn'.own = DOMAIN txn.own \cup {r}
  BY <1>1, <1>13, <1>16, PutView
<1>18. RowsAreSound'
  <2>1. ASSUME NEW q \in Row, NEW v \in Content, Sound(q, v) PROVE Sound(q, v)'
    BY <1>1, <2>1 DEF Sound, EditedAt
  <2>2. ASSUME NEW q \in Row PROVE Sound(q, db[q])' /\ Sound(q, View(q))'
    <3>1. PICK d \in Content, v \in Content : d = db[q] /\ v = View(q)
      BY TxnFacts
    <3>2. Sound(q, d)' /\ Sound(q, v)' /\ Sound(r, b)'
      BY <1>12, <2>1, <3>1 DEF IInv, RowsAreSound
    <3>3. db'[q] = d /\ View(q)' = IF q = r THEN b ELSE v
      BY <1>1, <1>17, <3>1
    <3> QED
      BY <3>2, <3>3 DEF Sound, EditedAt
  <2> QED
    BY <1>9, <1>17, <2>2 DEF IInv, RowsAreSound
<1>19. Log' = Log
  BY <1>1, <1>16 DEF Log
<1>20. JournalIsSound' /\ LogIsSound'
  <2>1. JournalIsSound' /\ GoodLog(Log)'
    BY <1>1, <1>19 DEF IInv, JournalIsSound, LogIsSound, GoodLog, Chained, Has, Still,
       EntryIsSound, EditedAt, Brings
  <2> QED
    BY <1>16, <2>1 DEF LogIsSound
<1>21. UndoIsSound'
  <2>1. /\ txn.undone \subseteq Pending
        /\ \A k \in txn.undone : \A j \in Pending \ txn.undone : j < k
    BY <1>1 DEF IInv, UndoIsSound
  <2>2. Pending' = Pending
    BY <1>1 DEF Pending
  <2>3. PICK U \in SUBSET Nat, V \in SUBSET Nat, P \in SUBSET Nat :
            U = txn.undone /\ V = U \cup {i} /\ P = Pending
    BY <1>1, <1>4, <1>15 DEF Txn
  <2>4. V \subseteq P /\ \A k \in V : \A j \in P \ V : j < k
    BY <1>3, <1>4, <2>1, <2>3
  <2>5. ASSUME NEW q \in Row, View(q)' # Absent, NEW g \in View(q)' \cap Group
        PROVE  \E j \in P \ V : Brings(journal[j], q, g)
    <3>1. CASE q # r
      <4>1. View(q)' = View(q)
        BY <1>17, <3>1
      <4>2. PICK j \in P \ U : Brings(journal[j], q, g)
        BY <1>1, <2>3, <2>5, <4>1 DEF IInv, UndoIsSound
      <4>3. j # i
        BY <1>6, <3>1, <4>2 DEF Brings
      <4> QED
        BY <2>3, <4>2, <4>3
    <3>2. CASE q = r
      <4>1. b # Absent /\ g \in b \cap Group
        BY <1>17, <2>5, <3>2
      <4>2. PICK j \in Still(journal) : j < i /\ Brings(journal[j], r, g)
        BY <1>3, <1>4, <1>6, <4>1 DEF IInv, JournalIsSound, GoodLog, Chained
      <4>3. j \in P /\ i \in P \ U
        BY <1>3, <1>4, <2>3, <4>2
      <4>4. j \notin U
        BY <1>4, <2>1, <2>3, <4>2, <4>3
      <4> QED
        BY <1>4, <2>3, <3>2, <4>2, <4>3, <4>4
    <3> QED
      BY <3>1, <3>2
  <2>6. \A q \in Row, g \in Group, j \in P : Brings(journal[j], q, g)' <=> Brings(journal[j], q, g)
    BY <1>1 DEF Brings
  <2> QED
    BY <1>16, <2>2, <2>3, <2>4, <2>5, <2>6 DEF UndoIsSound
<1>22. PhaseIsSound' /\ ReadsAreSound' /\ NothingOfTheBatchIsLeft'
  BY <1>1, <1>16 DEF PhaseIsSound, ReadsAreSound, NothingOfTheBatchIsLeft
<1>23. TypeOK'
  BY <1>1, <1>16, <1>17, TxnFacts DEF TypeOK, Txn
<1> QED
  BY <1>16, <1>18, <1>20, <1>21, <1>22, <1>23 DEF IInv

(* Entry y is x, undone or not.                                            *)
Marked(y, x, u) ==
    /\ y \in Entry /\ y.row = x.row /\ y.op = x.op /\ y.before = x.before /\ y.after = x.after
    /\ y.undone = u

(* A rollback's chunk commits: the entries it undid are marked.            *)
LEMMA CommitUndoPreserves == ASSUME IInv, CommitUndo PROVE IInv'
<1>1. /\ TypeOK /\ txn.pc = "undo" /\ status = "ROLLING_BACK"
      /\ journal \in Seq(Entry) /\ UndoSize \in Nat /\ txn.undone \in SUBSET Nat
      /\ db' = [r \in Row |-> View(r)] /\ UNCHANGED <<attempt, edited, raced>>
      /\ journal' = [i \in DOMAIN journal |-> [journal[i] EXCEPT !.undone = @ \/ i \in txn.undone]]
  BY SizesArePositive, TxnFacts DEF IInv, PhaseIsSound, CommitUndo, Txn
<1>2. PICK J \in Seq(Entry), U \in SUBSET Nat : J = journal /\ U = txn.undone
  BY <1>1
<1>3. \A i \in DOMAIN J : J[i] \in Entry /\ J[i].undone \in BOOLEAN
  <2>1. \A i \in DOMAIN J : J[i] \in Entry
    OBVIOUS
  <2>2. \A x \in Entry : x.undone \in BOOLEAN
    BY DEF Entry
  <2> QED
    BY <2>1, <2>2
<1>4. \A i \in DOMAIN J : /\ journal'[i] \in Entry /\ journal'[i].row = J[i].row
                          /\ journal'[i].op = J[i].op
                          /\ journal'[i].before = J[i].before /\ journal'[i].after = J[i].after
                          /\ journal'[i].undone = (J[i].undone \/ i \in U)
  <2>1. ASSUME NEW i \in DOMAIN J, NEW x, x = J[i], NEW u \in BOOLEAN, u = (x.undone \/ i \in U)
        PROVE  /\ journal'[i] = [x EXCEPT !.undone = u] /\ x \in Entry
    BY <1>1, <1>2, <1>3, <2>1
  <2>2. ASSUME NEW x \in Entry, NEW u \in BOOLEAN, NEW y, y = [x EXCEPT !.undone = u]
        PROVE  Marked(y, x, u)
    BY <2>2 DEF Entry, Marked
  <2>3. ASSUME NEW i \in DOMAIN J
        PROVE  /\ journal'[i] \in Entry /\ journal'[i].row = J[i].row
               /\ journal'[i].op = J[i].op
               /\ journal'[i].before = J[i].before /\ journal'[i].after = J[i].after
               /\ journal'[i].undone = (J[i].undone \/ i \in U)
    <3>1. PICK x \in Entry, u \in BOOLEAN : x = J[i] /\ u = (x.undone \/ i \in U)
      BY <1>3
    <3>2. journal'[i] = [x EXCEPT !.undone = u]
      BY <2>1, <3>1
    <3>3. PICK e : e = [x EXCEPT !.undone = u]
      OBVIOUS
    <3>4. Marked(e, x, u)
      BY <2>2, <3>1, <3>3
    <3> QED
      BY <3>1, <3>2, <3>3, <3>4 DEF Marked
  <2> QED
    BY <2>3
<1>5. DOMAIN journal' = DOMAIN J /\ DOMAIN J = 1..Len(J) /\ Len(J) \in Nat /\ DOMAIN J \subseteq Nat
  BY <1>1, <1>2
<1>6. journal' \in Seq(Entry)
  <2>1. PICK K : K = journal'
    OBVIOUS
  <2>2. K = [i \in 1..Len(J) |-> K[i]] /\ \A i \in 1..Len(J) : K[i] \in Entry
    BY <1>1, <1>2, <1>4, <1>5, <2>1
  <2> QED
    BY <1>5, <2>1, <2>2
<1>7. Still(journal)' = Pending \ U /\ Pending = Still(J)
  BY <1>2, <1>4, <1>5 DEF Still, Pending
<1>8. /\ U \subseteq Still(J) /\ \A i \in U : \A j \in Still(J) \ U : j < i
      /\ \A r \in Row : View(r) # Absent =>
            \A g \in View(r) \cap Group : \E i \in Still(J) \ U : Brings(J[i], r, g)
  BY <1>1, <1>2, <1>7 DEF IInv, UndoIsSound
<1>9. \A i \in DOMAIN J, r \in Row, g \in Group : Brings(journal[i], r, g)' <=> Brings(J[i], r, g)
  BY <1>4 DEF Brings
<1>10. Still(J) \subseteq DOMAIN J
  BY DEF Still
<1>11. JournalIsSound'
  <2>1. ASSUME NEW i \in DOMAIN J PROVE EntryIsSound(journal[i])'
    <3>1. EntryIsSound(J[i])
      BY <1>2, <2>1 DEF IInv, JournalIsSound, GoodLog
    <3> QED
      BY <1>1, <1>4, <3>1 DEF EntryIsSound, EditedAt
  <2>2. ASSUME NEW k \in Still(J) \ U, J[k].before # Absent, NEW g \in J[k].before \cap Group
        PROVE  \E i \in Still(J) \ U : i < k /\ Brings(J[i], J[k].row, g)
    <3>1. PICK i \in Still(J) : i < k /\ Brings(J[i], J[k].row, g)
      BY <1>2, <2>2 DEF IInv, JournalIsSound, GoodLog, Chained
    <3>2. i \notin U
      BY <1>5, <1>8, <1>10, <3>1
    <3> QED
      BY <3>1, <3>2
  <2>3. Chained(journal)'
    <3>1. \A k \in Still(J) : J[k].row \in Row
      BY <1>3, <1>10 DEF Entry
    <3> QED
      BY <1>4, <1>7, <1>9, <1>10, <2>2, <3>1 DEF Chained
  <2>4. ASSUME NEW r \in Row, db'[r] # Absent, NEW g \in db'[r] \cap Group
        PROVE  Has(journal, r, g)'
    <3>1. PICK i \in Still(J) \ U : Brings(J[i], r, g)
      BY <1>1, <1>8, <2>4
    <3> QED
      BY <1>7, <1>9, <1>10, <3>1 DEF Has
  <2> QED
    BY <1>5, <2>1, <2>3, <2>4 DEF JournalIsSound, GoodLog
<1>12. /\ db' \in [Row -> Content] /\ edited' \in [Edit -> Row \cup {NoEdit}]
       /\ raced' \subseteq Edit /\ attempt' \in 0..MaxAttempts
  BY <1>1, TxnFacts DEF TypeOK
<1>13. CASE Pending \subseteq txn.undone
  <2>1. txn' = Idle /\ status' = "ROLLED_BACK"
    BY <1>13 DEF CommitUndo
  <2>2. NothingOfTheBatchIsLeft'
    <3>1. Still(J) \ U = {}
      BY <1>2, <1>7, <1>13
    <3>2. \A r \in Row : db'[r] = Absent \/ db'[r] \cap Group = {}
      BY <1>1, <1>8, <3>1
    <3> QED
      BY <3>2 DEF NothingOfTheBatchIsLeft
  <2>3. PhaseIsSound' /\ TypeOK'
    BY <1>6, <1>12, <2>1, IdleIsATxn DEF PhaseIsSound, TypeOK, Txn
  <2> QED
    BY <1>1, <1>11, <2>1, <2>2, <2>3, IdleIsATxn, CommittedPreserves
<1>14. CASE ~(Pending \subseteq txn.undone)
  <2>1. txn' = [Idle EXCEPT !.pc = "undo", !.left = UndoSize] /\ status' = status
    BY <1>14 DEF CommitUndo
  <2>2. "undo" \in Steps
    BY DEF Steps
  <2>3. /\ txn' \in Txn /\ txn'.own = Idle.own /\ txn'.entries = <<>> /\ txn'.undone = {}
        /\ txn'.pc = "undo"
    BY <1>1, <2>1, <2>2, IdleIsATxn DEF Txn
  <2>4. PhaseIsSound' /\ NothingOfTheBatchIsLeft'
    BY <1>1, <2>1, <2>3 DEF PhaseIsSound, NothingOfTheBatchIsLeft
  <2>5. TypeOK'
    BY <1>1, <1>6, <1>12, <2>1, <2>3, IdleIsATxn DEF TypeOK, Txn
  <2> QED
    BY <1>1, <1>11, <2>3, <2>4, <2>5, CommittedPreserves
<1> QED
  BY <1>13, <1>14

-----------------------------------------------------------------------------
(* Users.                                                                  *)

(* A user's edit is new to every content, and it is in the row, or it      *)
(* raced for every read of the row.                                        *)
LEMMA EditPreserves ==
    ASSUME IInv, NEW e \in Edit, NEW r \in Row, NEW c \in Content, UserChanges(e, r, c),
           ~Locked(r), c # Absent, e \in c,
           \/ db[r] # Absent /\ r # "NOTE" /\ c = db[r] \cup {e}
           \/ r = "NOTE" /\ db[r] = Absent /\ db["NEWLEAD"] # Absent /\ ~Locked("NEWLEAD") /\ c = {e}
    PROVE  IInv'
<1>1. /\ TypeOK /\ txn \in Txn /\ edited[e] = NoEdit /\ db' = [db EXCEPT ![r] = c]
      /\ edited' = [edited EXCEPT ![e] = r] /\ UNCHANGED <<status, attempt, journal, txn>>
      /\ raced \subseteq raced' /\ raced' \subseteq Edit /\ (InWindow(r) => e \in raced')
      /\ edited \in [Edit -> Row \cup {NoEdit}] /\ db \in [Row -> Content]
  BY DEF IInv, TypeOK, UserChanges
<1>2. NoEdit \notin Row /\ e \notin Group /\ "NOTE" \in Row /\ "NEWLEAD" \in Row
  BY NoEditIsNoRow, EditsAreNoGroups DEF Row
<1>3. /\ \A q \in Row : db'[q] = IF q = r THEN c ELSE db[q]
      /\ \A f \in Edit : edited'[f] = IF f = e THEN r ELSE edited[f]
  BY <1>1
<1>4. PICK o : o = txn.own
  OBVIOUS
<1>5. \A q \in Row : /\ View(q) = IF q \in DOMAIN o THEN o[q] ELSE db[q]
                     /\ View(q)' = IF q = r THEN c ELSE View(q)
  BY <1>1, <1>3, <1>4 DEF View, Locked
<1>6. r \notin DOMAIN o /\ "NOTE" \notin DOMAIN o /\ View(r) = db[r]
  BY <1>4, <1>5 DEF IInv, RowsAreSound, Locked
<1>7. c # Absent => c \cap Group = IF db[r] = Absent THEN {} ELSE db[r] \cap Group
  BY <1>2
<1>8. ASSUME NEW q \in Row, NEW d \in Content, EditedAt(d, q) PROVE EditedAt(d, q)'
  BY <1>1, <1>2, <1>3, <1>8 DEF EditedAt
<1>9. RowsAreSound'
  <2>1. \A q \in Row : Sound(q, db[q]) /\ Sound(q, View(q))
    BY DEF IInv, RowsAreSound
  <2>2. db'["NOTE"] # Absent => db["NOTE"] # Absent \/ (View("NEWLEAD") # Absent /\ db["NEWLEAD"] # Absent)
    BY <1>2, <1>3, <1>4, <1>5 DEF Locked
  <2>3. ASSUME NEW q \in Row, q # r, NEW d \in Content, Sound(q, d), d \in {db[q], View(q)}
        PROVE  Sound(q, d)'
    <3>1. EditedAt(d, q)'
      BY <1>8, <2>3 DEF Sound
    <3>2. \A f \in Edit : edited'[f] = q /\ f \notin raced' => d # Absent /\ f \in d
      BY <1>1, <1>3, <2>3 DEF Sound
    <3>3. q \in Kept \/ (q = "NEWLEAD" /\ db'["NOTE"] # Absent) => d # Absent
      BY <2>2, <2>3 DEF Sound
    <3> QED
      BY <3>1, <3>2, <3>3 DEF Sound
  <2>4. Sound(r, c)'
    <3>1. EditedAt(c, r)'
      <4>1. EditedAt(db[r], r)
        BY <2>1 DEF Sound
      <4> QED
        BY <1>1, <1>3, <4>1 DEF EditedAt
    <3>2. \A f \in Edit : edited'[f] = r /\ f \notin raced' => f \in c
      BY <1>1, <1>3, <2>1 DEF Sound
    <3> QED
      BY <3>1, <3>2 DEF Sound
  <2>5. ASSUME NEW q \in Row PROVE Sound(q, db[q])' /\ Sound(q, View(q))'
    <3>1. PICK d \in Content, v \in Content : d = db[q] /\ v = View(q)
      BY TxnFacts
    <3>2. q # r => Sound(q, d)' /\ Sound(q, v)'
      BY <2>1, <2>3, <3>1
    <3>3. db'[q] = (IF q = r THEN c ELSE d) /\ View(q)' = (IF q = r THEN c ELSE v)
      BY <1>3, <1>5, <3>1
    <3> QED
      BY <2>4, <3>2, <3>3 DEF Sound, EditedAt
  <2> QED
    BY <1>1, <2>5 DEF IInv, RowsAreSound
<1>10. ASSUME NEW q \in Row \ {"NOTE"}, NEW d \in Content, NEW S, ReadOf(q, d, S),
              q = r => InWindow(r)
       PROVE  ReadOf(q, d, S)'
  <2>1. CASE q # r
    BY <1>1, <1>5, <1>10, <2>1 DEF ReadOf
  <2>2. CASE q = r
    <3>1. View(q)' = c /\ c = View(q) \cup {e} /\ View(q) # Absent
      BY <1>5, <1>6, <1>10, <2>2
    <3> QED
      BY <1>1, <1>10, <2>2, <3>1 DEF ReadOf
  <2> QED
    BY <2>1, <2>2
<1>11. ReadsAreSound'
  <2>1. PICK p \in Steps, g \in 0..3, s \in [Leads -> Content], i \in Content, n \in Content :
            /\ p = txn.pc /\ g = txn.group /\ s = txn.seen /\ i = txn.instance /\ n = txn.snap
    BY TxnFacts
  <2>2. /\ txn'.pc = p /\ txn'.group = g /\ txn'.seen = s /\ txn'.instance = i /\ txn'.snap = n
    BY <1>1, <2>1
  <2>3. OrderOf(g) \in Row \ {"NOTE"} /\ Leads \subseteq Row \ {"NOTE"} /\ "CUSTOMER" \in Row \ {"NOTE"}
    BY DEF OrderOf, Leads, Row
  <2>4. p \in {"capture", "write"} => ReadOf(OrderOf(g), i, {})'
    <3>1. PICK q \in Row \ {"NOTE"} : q = OrderOf(g)
      BY <2>3
    <3>2. p \in {"capture", "write"} => ReadOf(q, i, {}) /\ (q = r => InWindow(r))
      BY <2>1, <3>1 DEF IInv, ReadsAreSound, InWindow
    <3>3. p \in {"capture", "write"} => ReadOf(q, i, {})'
      BY <1>10, <3>2
    <3> QED
      BY <3>1, <3>3 DEF OrderOf
  <2>5. p = "customer" => ReadOf("CUSTOMER", n, {})'
    <3>1. p = "customer" => ReadOf("CUSTOMER", n, {}) /\ ("CUSTOMER" = r => InWindow(r))
      BY <2>1 DEF IInv, ReadsAreSound, InWindow
    <3> QED
      BY <1>10, <2>3, <3>1
  <2>6. p \in {"write", "snapshot", "customer", "lead"} => \A q \in Leads : ReadOf(q, s[q], {})'
    <3>1. ASSUME p \in {"write", "snapshot", "customer", "lead"}, NEW q \in Leads
          PROVE  ReadOf(q, s[q], {})'
      <4>1. ReadOf(q, s[q], {}) /\ (q = r => InWindow(r))
        BY <2>1, <3>1 DEF IInv, ReadsAreSound, InWindow, Leads
      <4> QED
        BY <1>10, <2>3, <4>1
    <3> QED
      BY <3>1
  <2>7. p = "finish" => \A q \in Leads : ReadOf(q, s[q], {g})'
    <3>1. ASSUME p = "finish", NEW q \in Leads PROVE ReadOf(q, s[q], {g})'
      <4>1. ReadOf(q, s[q], {g}) /\ (q = r => InWindow(r))
        BY <2>1, <3>1 DEF IInv, ReadsAreSound, InWindow, Leads
      <4> QED
        BY <1>10, <2>3, <4>1
    <3> QED
      BY <3>1
  <2> QED
    BY <2>2, <2>4, <2>5, <2>6, <2>7 DEF ReadsAreSound
<1>12. ASSUME NEW x \in Entry, EntryIsSound(x) PROVE EntryIsSound(x)'
  <2>1. x.row \in Row /\ x.before \in Content /\ x.after \in Content
    BY DEF Entry
  <2>2. EditedAt(x.before, x.row)' /\ EditedAt(x.after, x.row)'
    BY <1>8, <1>12, <2>1 DEF EntryIsSound
  <2> QED
    BY <1>1, <1>12, <2>2 DEF EntryIsSound
<1>13. ASSUME NEW L \in Seq(Entry), GoodLog(L)
       PROVE  GoodLog(L)' /\ \A q \in Row, g \in Group : Has(L, q, g)' <=> Has(L, q, g)
  <2>1. \A i \in DOMAIN L : EntryIsSound(L[i])'
    BY <1>12, <1>13 DEF GoodLog
  <2>2. Chained(L)' /\ \A q \in Row, g \in Group : Has(L, q, g)' <=> Has(L, q, g)
    BY <1>13 DEF GoodLog, Chained, Has, Still, Brings
  <2> QED
    BY <2>1, <2>2 DEF GoodLog
<1>14. PICK J \in Seq(Entry), L \in Seq(Entry) : J = journal /\ L = Log
  BY TxnFacts
<1>15. journal' = J /\ Log' = L /\ GoodLog(J) /\ GoodLog(L)
  BY <1>1, <1>14 DEF IInv, JournalIsSound, LogIsSound, Log
<1>16. /\ GoodLog(journal)' /\ \A q \in Row, g \in Group : Has(journal, q, g)' <=> Has(J, q, g)
  <2>1. GoodLog(J)' /\ \A q \in Row, g \in Group : Has(J, q, g)' <=> Has(J, q, g)
    BY <1>13, <1>15
  <2> QED
    BY <1>15, <2>1 DEF GoodLog, Chained, Has, Still, EntryIsSound, EditedAt, Brings
<1>17. /\ GoodLog(Log)' /\ \A q \in Row, g \in Group : Has(Log, q, g)' <=> Has(L, q, g)
  <2>1. GoodLog(L)' /\ \A q \in Row, g \in Group : Has(L, q, g)' <=> Has(L, q, g)
    BY <1>13, <1>15
  <2> QED
    BY <1>15, <2>1 DEF GoodLog, Chained, Has, Still, EntryIsSound, EditedAt, Brings
<1>18. \A q \in Row : /\ db'[q] # Absent => db'[q] \cap Group = IF db[q] = Absent THEN {} ELSE db[q] \cap Group
                      /\ View(q)' # Absent => View(q)' \cap Group = IF View(q) = Absent THEN {} ELSE View(q) \cap Group
  BY <1>3, <1>5, <1>6, <1>7
<1>19. JournalIsSound'
  <2>1. \A q \in Row : db[q] # Absent => \A g \in db[q] \cap Group : Has(J, q, g)
    BY <1>14 DEF IInv, JournalIsSound
  <2> QED
    BY <1>16, <1>18, <2>1 DEF JournalIsSound
<1>20. LogIsSound'
  <2>1. txn.pc # "undo" => \A q \in Row : View(q) # Absent =>
            \A g \in View(q) \cap Group : Has(L, q, g) \/ Unjournalled(q, g)
    BY <1>14 DEF IInv, LogIsSound
  <2>2. \A q, g : Unjournalled(q, g)' <=> Unjournalled(q, g)
    BY <1>1 DEF Unjournalled
  <2> QED
    BY <1>1, <1>17, <1>18, <2>1, <2>2 DEF LogIsSound
<1>21. UndoIsSound'
  <2>1. Pending' = Pending /\ \A i, q, g : Brings(journal[i], q, g)' <=> Brings(journal[i], q, g)
    BY <1>1 DEF Pending, Brings
  <2> QED
    BY <1>1, <1>18, <2>1 DEF IInv, UndoIsSound
<1>22. NothingOfTheBatchIsLeft'
  BY <1>1, <1>18 DEF IInv, NothingOfTheBatchIsLeft
<1>23. PhaseIsSound' /\ TypeOK' /\ txn' \in Txn
  BY <1>1 DEF IInv, PhaseIsSound, TypeOK
<1> QED
  BY <1>9, <1>11, <1>19, <1>20, <1>21, <1>22, <1>23 DEF IInv

(* EditRow and AddNote.                                                    *)
LEMMA UsersPreserve ==
    ASSUME IInv, NEW e \in Edit, AddNote(e) \/ \E r \in Row : EditRow(e, r) PROVE IInv'
<1>1. "NOTE" \in Row /\ {e} \in Content /\ {e} # Absent
  <2>1. {e} \in SUBSET (Group \cup Edit)
    OBVIOUS
  <2> QED
    BY <2>1, AbsentIsNoContent DEF Row, Content
<1>2. CASE AddNote(e)
  <2>1. ~Locked("NOTE")
    BY DEF IInv, RowsAreSound, Locked
  <2> QED
    BY <1>1, <1>2, <2>1, EditPreserves DEF AddNote
<1>3. ASSUME NEW r \in Row, EditRow(e, r) PROVE IInv'
  <2>1. PICK d \in Content : d = db[r]
    BY TxnFacts
  <2>2. d # Absent
    BY <1>3, <2>1 DEF EditRow
  <2>3. d \cup {e} \in SUBSET (Group \cup Edit)
    BY <2>2 DEF Content
  <2>4. d \cup {e} \in Content /\ d \cup {e} # Absent
    BY <2>3, AbsentIsNoContent DEF Content
  <2> QED
    BY <1>3, <2>1, <2>2, <2>4, EditPreserves DEF EditRow
<1> QED
  BY <1>2, <1>3

-----------------------------------------------------------------------------
(* The invariant, and what it implies.                                     *)

(* It holds before the import.                                             *)
LEMMA InitIsSound == Init => IInv
<1> SUFFICES ASSUME Init PROVE IInv
  OBVIOUS
<1>1. {} \in Content /\ Absent \in Content /\ {} # Absent
  BY AbsentIsNoContent DEF Content
<1>2. /\ txn = Idle /\ txn \in Txn /\ txn.pc = "idle" /\ DOMAIN txn.own = {} /\ txn.entries = <<>>
      /\ journal = <<>> /\ status = "READY_TO_CONFIRM"
  BY IdleIsATxn DEF Init
<1>3. /\ db \in [Row -> Content]
      /\ \A r \in Row : /\ db[r] = (IF r \in Kept THEN {} ELSE Absent) /\ View(r) = db[r]
  BY <1>1, <1>2 DEF Init, Kept, View
<1>4. edited = [e \in Edit |-> NoEdit] /\ NoEdit \notin Row /\ raced = {}
  BY NoEditIsNoRow DEF Init
<1>5. TypeOK
  <2>1. journal \in Seq(Entry) /\ txn.entries \in Seq(Entry)
    BY <1>2
  <2>2. attempt = 0 /\ MaxAttempts \in Nat
    BY SizesArePositive DEF Init
  <2>3. txn.group \in 0..3 /\ txn.left \in Nat /\ txn.pc \in Steps
    BY <1>2 DEF Txn
  <2> QED
    BY <1>2, <1>3, <1>4, <2>1, <2>2, <2>3 DEF TypeOK
<1>6. PhaseIsSound /\ ReadsAreSound /\ UndoIsSound /\ NothingOfTheBatchIsLeft
  BY <1>2 DEF PhaseIsSound, ReadsAreSound, UndoIsSound, NothingOfTheBatchIsLeft
<1>7. RowsAreSound
  <2>1. "NOTE" \in Row /\ "NOTE" \notin Kept
    BY DEF Row, Kept
  <2> QED
    BY <1>1, <1>2, <1>3, <1>4, <2>1 DEF RowsAreSound, Sound, EditedAt
<1>8. GoodLog(<<>>)
  BY DEF GoodLog, Chained, Still
<1>9. \A r \in Row : db[r] # Absent => db[r] \cap Group = {}
  BY <1>3
<1>10. Log = <<>>
  BY <1>2 DEF Log
<1> QED
  BY <1>2, <1>3, <1>5, <1>6, <1>7, <1>8, <1>9, <1>10 DEF IInv, JournalIsSound, LogIsSound

(* Every step keeps it.                                                    *)
LEMMA NextPreserves == IInv /\ [Next]_vars => IInv'
<1> SUFFICES ASSUME IInv, [Next]_vars PROVE IInv'
  OBVIOUS
<1>1. CASE UNCHANGED vars
  <2>1. UNCHANGED <<status, attempt, db, journal, txn, edited, raced>>
    BY <1>1 DEF vars
  <2> QED
    BY <2>1, SMTT(20) DEF IInv, TypeOK, PhaseIsSound, RowsAreSound, Sound, EditedAt, ReadsAreSound,
       ReadOf, View, JournalIsSound, LogIsSound, GoodLog, Chained, Has, Still, EntryIsSound,
       Brings, Log, Unjournalled, UndoIsSound, Pending, NothingOfTheBatchIsLeft
<1>2. CASE StartCommit \/ FailChunk \/ StartRollback \/ BlockUndo \/ Crash
  BY <1>2, EndsPreserve
<1>3. CASE ReadOrder \/ Capture \/ SnapshotCustomer
  BY <1>3, ReadsPreserve
<1>4. CASE WriteOrder
  BY <1>4, WriteOrderPreserves
<1>5. CASE SaveCustomer
  BY <1>5, SaveCustomerPreserves
<1>6. CASE WriteLeads
  BY <1>6, WriteLeadsPreserves
<1>7. CASE Finish
  BY <1>7, FinishPreserves
<1>8. CASE CommitChunk
  BY <1>8, CommitChunkPreserves
<1>9. CASE Undo
  BY <1>9, UndoPreserves
<1>10. CASE CommitUndo
  BY <1>10, CommitUndoPreserves
<1>11. CASE \E e \in Edit : AddNote(e) \/ \E r \in Row : EditRow(e, r)
  BY <1>11, UsersPreserve
<1> QED
  BY <1>1, <1>2, <1>3, <1>4, <1>5, <1>6, <1>7, <1>8, <1>9, <1>10, <1>11 DEF Next

(* While the batch is there all it did is in the journal, however often    *)
(* it failed, was retried, crashed or was half rolled back, and once it is *)
(* rolled back nothing of it is left, for every chunk size (commit.py,     *)
(* rollback.py).                                                           *)
THEOREM JournalStaysComplete == Spec => []JournalIsComplete
<1>1. IInv => JournalIsComplete
  <2> SUFFICES ASSUME IInv PROVE ChangesAreJournalled
    BY DEF IInv, JournalIsComplete
  <2>1. ASSUME NEW r \in Row, db[r] # Absent, NEW g \in db[r] \cap Group
        PROVE  \E i \in Pending : /\ journal[i].row = r /\ g \in journal[i].after
                                  /\ journal[i].before = Absent \/ g \notin journal[i].before
    <3>1. PICK i \in Still(journal) : Brings(journal[i], r, g)
      BY <2>1 DEF IInv, JournalIsSound, Has
    <3> QED
      BY <3>1 DEF Brings, Still, Pending
  <2> QED
    BY <2>1 DEF ChangesAreJournalled
<1> QED
  BY <1>1, InitIsSound, NextPreserves, PTL DEF Spec

(* An edit that did not fall between a chunk's reading of a row and its    *)
(* locking of it is never lost, at the import or at its rollback, and no   *)
(* row goes from under a note (rollback._undo, foreign_dependents).        *)
THEOREM UsersEditsStay == Spec => []EditsStay
<1>1. IInv => EditsStay
  <2> SUFFICES ASSUME IInv PROVE EditsStay
    OBVIOUS
  <2>1. \A r \in Row : Sound(r, db[r])
    BY DEF IInv, RowsAreSound
  <2>2. edited \in [Edit -> Row \cup {NoEdit}]
    BY DEF IInv, TypeOK
  <2>3. "NEWLEAD" \in Row
    BY DEF Row
  <2>4. db["NOTE"] # Absent => db["NEWLEAD"] # Absent
    BY <2>1, <2>3 DEF Sound
  <2>5. \A e \in Edit : edited[e] # NoEdit /\ e \notin raced =>
            db[edited[e]] # Absent /\ e \in db[edited[e]]
    BY <2>1, <2>2 DEF Sound
  <2> QED
    BY <2>4, <2>5 DEF EditsStay
<1> QED
  BY <1>1, InitIsSound, NextPreserves, PTL DEF Spec
=============================================================================
