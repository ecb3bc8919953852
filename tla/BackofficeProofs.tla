-------------------------- MODULE BackofficeProofs --------------------------
(***************************************************************************)
(* Proofs about Backoffice, for every set of files, teams, staff and desks *)
(* and every bound: the customers the uploads add and the leads the desk   *)
(* gives them.                                                             *)
(***************************************************************************)
EXTENDS Backoffice, FiniteSetTheorems, WellFoundedInduction, TLAPS

-----------------------------------------------------------------------------
(* Sets of numbers and sequences.                                          *)

(* A set of natural numbers that is not empty has a least element.         *)
LEMMA LeastOfNaturals ==
    ASSUME NEW S \in SUBSET Nat, S # {}
    PROVE  \E m \in S : \A n \in S : m <= n
<1>1. IsWellFoundedOn(OpToRel(<, Nat), Nat)
  BY NatLessThanWellFounded
<1>2. PICK m \in S : \A n \in S : ~ (<<n, m>> \in OpToRel(<, Nat))
  BY <1>1, WFMin
<1>3. ASSUME NEW n \in S PROVE ~ (n < m)
  <2>1. <<n, m>> \notin {ss \in Nat \X Nat : ss[1] < ss[2]}
    BY <1>2 DEF OpToRel
  <2> QED
    BY <2>1
<1> QED
  BY <1>3

(* A finite set has a sequence of its elements.                            *)
LEMMA SequenceOfSet ==
    ASSUME NEW S, IsFiniteSet(S)
    PROVE  SetToSeq(S) \in Seq(S) /\ \A x \in S : \E i \in DOMAIN SetToSeq(S) : SetToSeq(S)[i] = x
<1>1. Cardinality(S) \in Nat /\ ExistsBijection(1..Cardinality(S), S)
  BY FS_CardinalityType
<1>2. \E f \in [1..Cardinality(S) -> S] : IsInjective(f)
  BY <1>1 DEF ExistsBijection, Bijection, Injection
<1>3. SetToSeq(S) \in [1..Cardinality(S) -> S] /\ IsInjective(SetToSeq(S))
  BY <1>2 DEF SetToSeq
<1>4. PICK k \in Nat : k = Cardinality(S)
  BY <1>1
<1>5. IsFiniteSet(1..k) /\ Cardinality(1..k) = k
  BY <1>4, FS_Interval
<1>6. PICK f \in Injection(1..k, S) : f = SetToSeq(S)
  BY <1>3, <1>4 DEF Injection
<1>7. f \in Surjection(1..k, S)
  BY <1>4, <1>5, FS_Injection
<1>8. (\A x \in S : \E i \in 1..k : f[i] = x) /\ f \in [1..k -> S]
  BY <1>7 DEF Surjection
<1> QED
  BY <1>3, <1>4, <1>6, <1>8

(* A set of positions of a sequence that is not empty has a last one.      *)
LEMMA LastOfPositions ==
    ASSUME NEW n \in Nat, NEW S \in SUBSET (1..n), S # {}
    PROVE  \E m \in S : \A k \in S : k <= m
<1>1. PICK D : D = {n - k : k \in S}
  OBVIOUS
<1>2. D \in SUBSET Nat /\ D # {}
  <2>1. \A k \in 1..n : n - k \in Nat
    OBVIOUS
  <2>2. \A k \in S : n - k \in Nat
    BY <2>1
  <2> QED
    BY <1>1, <2>2
<1>3. PICK d \in D : \A e \in D : d <= e
  BY <1>2, LeastOfNaturals
<1>4. PICK m \in S : d = n - m
  BY <1>1, <1>3
<1>5. ASSUME NEW k \in S PROVE k <= m
  <2>1. n - k \in D /\ k \in 1..n /\ m \in 1..n
    BY <1>1
  <2> QED
    BY <1>3, <1>4, <2>1
<1> QED
  BY <1>5

(* Min and Max of such a set are its elements.                             *)
LEMMA MinIsLeast ==
    ASSUME NEW n \in Nat, NEW S \in SUBSET (1..n), S # {}
    PROVE  Min(S) \in S /\ \A k \in S : Min(S) <= k
<1>1. \E m \in S : \A k \in S : m <= k
  BY LeastOfNaturals
<1> QED
  BY <1>1 DEF Min

LEMMA MaxIsLast ==
    ASSUME NEW n \in Nat, NEW S \in SUBSET (1..n), S # {}
    PROVE  Max(S) \in S /\ \A k \in S : k <= Max(S)
<1>1. \E m \in S : \A k \in S : m >= k
  <2>1. PICK m \in S : \A k \in S : k <= m
    BY LastOfPositions
  <2> QED
    BY <2>1
<1> QED
  BY <1>1 DEF Max

(* What a sequence holds when an element is appended.                      *)
LEMMA RangeGrows ==
    ASSUME NEW q, \E S : q \in Seq(S), NEW x
    PROVE  /\ \E S : Append(q, x) \in Seq(S)
           /\ Len(q) \in Nat /\ DOMAIN q = 1..Len(q)
           /\ Len(Append(q, x)) = Len(q) + 1 /\ DOMAIN Append(q, x) = 1..(Len(q) + 1)
           /\ Append(q, x)[Len(q) + 1] = x
           /\ \A i \in 1..Len(q) : Append(q, x)[i] = q[i]
           /\ Range(Append(q, x)) = Range(q) \cup {x}
<1>1. PICK S : q \in Seq(S)
  OBVIOUS
<1>2. PICK T : T = S \cup {x}
  OBVIOUS
<1>3. q \in Seq(T) /\ x \in T
  BY <1>1, <1>2
<1>4. PICK n \in Nat : n = Len(q) /\ DOMAIN q = 1..n
  BY <1>1
<1>5. PICK p : p = Append(q, x)
  OBVIOUS
<1>6. p \in Seq(T) /\ Len(p) = n + 1 /\ DOMAIN p = 1..(n + 1) /\ p[n + 1] = x /\ \A i \in 1..n : p[i] = q[i]
  BY <1>3, <1>4, <1>5
<1>7. 1..(n + 1) = 1..n \cup {n + 1}
  BY <1>4
<1>8. Range(p) = Range(q) \cup {x}
  BY <1>4, <1>6, <1>7 DEF Range
<1> QED
  BY <1>4, <1>5, <1>6, <1>8

-----------------------------------------------------------------------------
(* The customer table and the jobs.                                        *)

(* A table that is a sequence, and not too long.                           *)
Fits(table) == (\E S : table \in Seq(S)) /\ Len(table) <= MaxCustomers

Job == [file : DOMAIN Files, kept : BOOLEAN, status : {"queued", "running", "done", "failed"}]

(* What the worker is doing, it does for a job that there is.              *)
WorkerIsSound(wk, js) ==
    /\ js \in Seq(Job)
    /\ DOMAIN wk = {"pc", "job", "row", "read", "table"}
    /\ wk.pc \in {"rest", "start", "read", "link", "row", "end"}
    /\ wk.pc # "rest" => wk.job \in DOMAIN js /\ js[wk.job].status = "running"

(* The table is one at first, and whoever adds a customer finds room.      *)
LEMMA FitsAppend ==
    ASSUME NEW table, Fits(table), NEW x, Len(table) < MaxCustomers
    PROVE  Fits(Append(table, x)) /\ Len(Append(table, x)) = Len(table) + 1
<1>1. PICK S : table \in Seq(S)
  BY DEF Fits
<1>2. /\ Append(table, x) \in Seq(S \cup {x})
      /\ Len(Append(table, x)) = Len(table) + 1 /\ Len(table) \in Nat
  BY <1>1
<1> QED
  BY <1>2, TableIsBounded DEF Fits

(* A row of the table is rewritten.                                        *)
LEMMA FitsUpdate ==
    ASSUME NEW table, Fits(table), NEW c, NEW last, NEW count
    PROVE  Fits([table EXCEPT ![c].last = last, ![c].count = count])
<1>1. PICK S : table \in Seq(S)
  BY DEF Fits
<1>2. PICK x1 : x1 = [table[c] EXCEPT !.last = last, !.count = count]
  OBVIOUS
<1>3. [table EXCEPT ![c].last = last, ![c].count = count] = [table EXCEPT ![c] = x1]
  BY <1>1, <1>2
<1>4. [table EXCEPT ![c] = x1] \in Seq(S \cup {x1}) /\ Len([table EXCEPT ![c] = x1]) = Len(table)
  <2>1. table \in Seq(S \cup {x1}) /\ Len(table) \in Nat /\ DOMAIN table = 1..Len(table)
    <3>1. \A i \in 1..Len(table) : table[i] \in S \cup {x1}
      BY <1>1
    <3> QED
      BY <1>1, <3>1
  <2>a. PICK T : T = S \cup {x1}
    OBVIOUS
  <2>2. PICK n \in Nat : T = S \cup {x1} /\ n = Len(table)
    BY <2>1, <2>a
  <2>3. [table EXCEPT ![c] = x1] = [i \in 1..n |-> IF i = c THEN x1 ELSE table[i]]
    BY <2>1, <2>2
  <2>4. \A i \in 1..n : (IF i = c THEN x1 ELSE table[i]) \in T
    BY <2>1, <2>2
  <2>5. [i \in 1..n |-> IF i = c THEN x1 ELSE table[i]] \in [1..n -> T]
    BY <2>4
  <2>6. \A f \in [1..n -> T] : f \in Seq(T) /\ Len(f) = n
    OBVIOUS
  <2> QED
    BY <2>2, <2>3, <2>5, <2>6
<1> QED
  BY <1>3, <1>4 DEF Fits

(* The worker goes on with its job, or rests.                              *)
LEMMA WorkerGoesOn ==
    ASSUME WorkerIsSound(worker, jobs), jobs' = jobs,
           NEW pc \in {"rest", "start", "read", "link", "row", "end"}, NEW wk, worker' = wk,
           DOMAIN wk = {"pc", "job", "row", "read", "table"}, wk.pc = pc,
           pc # "rest" => worker.pc # "rest" /\ wk.job = worker.job
    PROVE  WorkerIsSound(worker', jobs')
  BY DEF WorkerIsSound

(* The outcome of a job is stored, and the worker rests.                   *)
LEMMA WorkerStops ==
    ASSUME WorkerIsSound(worker, jobs), worker.pc # "rest", NEW s \in {"done", "failed"},
           jobs' = Outcome(s), worker' = Resting
    PROVE  /\ WorkerIsSound(worker', jobs') /\ DOMAIN jobs' = DOMAIN jobs
           /\ \A j \in DOMAIN jobs :
                 /\ jobs'[j].file = jobs[j].file
                 /\ j # worker.job => jobs'[j] = jobs[j]
                 /\ j = worker.job => jobs'[j].status = s /\ jobs'[j].kept = FALSE
<1>1. PICK js \in Seq(Job), k \in Nat : js = jobs /\ k = worker.job /\ k \in DOMAIN js
  BY DEF WorkerIsSound
<1>2. js[k] \in Job
  BY <1>1
<1>3. PICK x \in Job : x = [js[k] EXCEPT !.status = s, !.kept = FALSE]
  BY <1>2 DEF Job
<1>4. x.status = s /\ x.kept = FALSE /\ x.file = js[k].file
  BY <1>2, <1>3 DEF Job
<1>5. jobs' = [js EXCEPT ![k] = x]
  BY <1>1, <1>3 DEF Outcome
<1>6. [js EXCEPT ![k] = x] \in Seq(Job) /\ DOMAIN [js EXCEPT ![k] = x] = DOMAIN js
  BY <1>1
<1>7. Resting.pc = "rest" /\ DOMAIN Resting = {"pc", "job", "row", "read", "table"}
  BY DEF Resting
<1> QED
  BY <1>1, <1>4, <1>5, <1>6, <1>7 DEF WorkerIsSound

(* A file names finitely many orders, each in rows of its own.             *)
LEMMA OrdersOfAFile ==
    ASSUME NEW f \in Range(Files)
    PROVE  /\ IsFiniteSet(Named(f))
           /\ \A no \in Named(f) : FirstAbout(f, no) \in Range(f.rows) /\ LastAbout(f, no) \in Range(f.rows)
<1>1. PICK n \in Nat : n = Len(f.rows) /\ DOMAIN f.rows = 1..n
  BY FilesAreWorkbooks
<1>2. IsFiniteSet(Named(f))
  <2> DEFINE Image == {f.rows[i].no : i \in 1..n}
             g == [i \in 1..n |-> f.rows[i].no]
  <2>1. g \in Surjection(1..n, Image)
    BY DEF Surjection
  <2>2. IsFiniteSet(1..n)
    BY FS_Interval
  <2>3. IsFiniteSet(Image)
    <3> HIDE DEF g, Image
    <3> QED
      BY <2>1, <2>2, FS_Surjection
  <2>4. Named(f) \in SUBSET Image
    BY <1>1 DEF Named, Range
  <2> HIDE DEF Image
  <2> QED
    BY <2>3, <2>4, FS_Subset
<1>3. ASSUME NEW no \in Named(f)
      PROVE  FirstAbout(f, no) \in Range(f.rows) /\ LastAbout(f, no) \in Range(f.rows)
  <2>1. PICK S : S = RowsAbout(f, no)
    OBVIOUS
  <2>2. S \in SUBSET (1..n) /\ S # {}
    BY <1>1, <2>1 DEF RowsAbout, Named, Range
  <2>3. Min(S) \in 1..n /\ Max(S) \in 1..n
    BY <2>2, MinIsLeast, MaxIsLast
  <2> QED
    BY <1>1, <2>1, <2>3 DEF FirstAbout, LastAbout, Range
<1> QED
  BY <1>2, <1>3

(* The files of the jobs are files, with finitely many orders in them.     *)
LEMMA ContentIsAFile ==
    ASSUME WorkerIsSound(worker, jobs), NEW j \in DOMAIN jobs
    PROVE  Content(j) \in Range(Files) /\ IsFiniteSet(Named(Content(j)))
<1>1. jobs[j] \in Job
  BY DEF WorkerIsSound
<1>2. jobs[j].file \in DOMAIN Files
  BY <1>1 DEF Job
<1>3. Content(j) \in Range(Files)
  BY <1>2 DEF Content, Range
<1> QED
  BY <1>3, OrdersOfAFile

(* Uploads keep the table a table.                                         *)
LEMMA UploadsFit ==
    ASSUME Fits(customers), WorkerIsSound(worker, jobs), UploadsNext
    PROVE  Fits(customers')
<1>1. CASE UNCHANGED customers
  BY <1>1
<1>2. ASSUME NEW phone, NEW staff, CustomerArrives(phone, staff) PROVE Fits(customers')
  <2>1. customers' = customers \/ customers' = Append(customers, Customer(phone, staff))
    BY <1>2 DEF CustomerArrives
  <2>2. Len(customers) < MaxCustomers
    BY <1>2 DEF CustomerArrives
  <2> QED
    BY <2>1, <2>2, FitsAppend
<1>3. CASE CommitMain
  <2> DEFINE f == Content(worker.job)
             P == {p \in PhonesOf(f) : Oldest(worker.table, p) = NoCustomer}
  <2>1. IsFiniteSet(Named(f))
    BY <1>3, ContentIsAFile DEF CommitMain, WorkerIsSound
  <2>2. IsFiniteSet(P)
    <3> DEFINE Image == {PhoneOf(f, no) : no \in Named(f)}
               g == [no \in Named(f) |-> PhoneOf(f, no)]
    <3>1. g \in Surjection(Named(f), Image)
      BY DEF Surjection
    <3>2. IsFiniteSet(Image)
      <4> HIDE DEF g, Image, f
      <4> QED
        BY <2>1, <3>1, FS_Surjection
    <3>3. P \in SUBSET Image
      BY DEF PhonesOf
    <3> HIDE DEF P, Image
    <3> QED
      BY <3>2, <3>3, FS_Subset
  <2>3. Unknown(f) = SetToSeq(P)
    BY DEF Unknown
  <2>4. PICK new \in Seq(P) : new = Unknown(f)
    <3> HIDE DEF P, f
    <3> QED
      BY <2>2, <2>3, SequenceOfSet
  <2>5. PICK S : customers \in Seq(S)
    BY DEF Fits
  <2>6. PICK added : added = [i \in DOMAIN new |-> Customer(new[i], Blank)]
    OBVIOUS
  <2>7. customers' = customers \o added /\ Len(customers) + Len(new) <= MaxCustomers
    BY <1>3, <2>4, <2>6 DEF CommitMain
  <2>8. PICK n \in Nat : n = Len(new) /\ DOMAIN new = 1..n
    BY <2>4
  <2>9. PICK T : T = {added[i] : i \in 1..n}
    OBVIOUS
  <2>10. added \in Seq(T) /\ Len(added) = n
    <3>1. DOMAIN added = 1..n /\ added = [i \in 1..n |-> added[i]]
      BY <2>6, <2>8
    <3>2. added \in [1..n -> T]
      BY <2>9, <3>1
    <3>3. \A g \in [1..n -> T] : g \in Seq(T) /\ Len(g) = n
      OBVIOUS
    <3> QED
      BY <3>2, <3>3
  <2>11. customers \in Seq(S \cup T) /\ added \in Seq(S \cup T)
    BY <2>5, <2>10
  <2> HIDE DEF P, f
  <2>12. customers \o added \in Seq(S \cup T) /\ Len(customers \o added) = Len(customers) + n
    BY <2>10, <2>11
  <2> QED
    BY <2>7, <2>8, <2>12 DEF Fits
<1>4. CASE ImportRow
  <2> DEFINE r == SalesRows(Content(worker.job))[worker.row]
             key == PhoneKey(r.p1, r.p2)
             known == Oldest(customers, key)
             table == IF known # NoCustomer THEN customers ELSE Append(customers, Customer(key, r.staff))
             c == IF known # NoCustomer THEN known ELSE Len(table)
             sale == SaleOf(c, r)
             all == IF sale # 0 THEN [sales EXCEPT ![sale].lines = Merged(@, r)]
                    ELSE Append(sales, [customer |-> c, no |-> r.no, lines |-> Merged(<<>>, r)])
             newest == table[c].last = Blank \/ (r.date # Blank /\ r.date >= table[c].last)
  <2>1. CASE ~Valid(r)
    BY <1>4, <2>1 DEF ImportRow
  <2>2. CASE Valid(r)
    <3>1. /\ Len(table) <= MaxCustomers
          /\ customers' = [table EXCEPT ![c].last = IF newest THEN r.date ELSE @,
                                         ![c].count = SalesOf(c, all)]
      BY <1>4, <2>2 DEF ImportRow
    <3>2. PICK x : x = Customer(key, r.staff)
      OBVIOUS
    <3>3. table = customers \/ table = Append(customers, x)
      BY <3>2
    <3>4. PICK t : t = table
      OBVIOUS
    <3>5. PICK last, count : customers' = [t EXCEPT ![c].last = last, ![c].count = count]
      <4>1. PICK last, count : last = (IF newest THEN r.date ELSE t[c].last) /\ count = SalesOf(c, all)
        OBVIOUS
      <4> HIDE DEF c, newest, all, r
      <4>2. customers' = [t EXCEPT ![c].last = last, ![c].count = count]
        BY <3>1, <3>4, <4>1
      <4> QED
        BY <4>2
    <3> HIDE DEF table, c, key, r
    <3>6. PICK S : customers \in Seq(S)
      BY DEF Fits
    <3>7. Fits(t)
      <4>1. CASE t = customers
        BY <4>1
      <4>2. CASE t = Append(customers, x)
        <5>1. t \in Seq(S \cup {x})
          BY <3>6, <4>2
        <5> QED
          BY <3>1, <3>4, <5>1 DEF Fits
      <4> QED
        BY <3>3, <3>4, <4>1, <4>2
    <3> QED
      BY <3>5, <3>7, FitsUpdate
  <2> QED
    BY <2>1, <2>2
<1> QED
  BY <1>1, <1>2, <1>3, <1>4
     DEF UploadsNext, Upload, TakeJob, JobFails, WorkerDies, JobEnds, ReadOnline, LookForCustomers,
         CommitDetail, OpenRows, RowsEnd, Shipped, ApplyTrackflowStatus

(* Uploads keep the worker at a job that runs.                             *)
LEMMA UploadsWork ==
    ASSUME WorkerIsSound(worker, jobs), UploadsNext
    PROVE  WorkerIsSound(worker', jobs')
<1> DEFINE Fields == {"pc", "job", "row", "read", "table"}
<1>1. DOMAIN Resting = Fields /\ Resting.pc = "rest"
  BY DEF Resting
<1>2. DOMAIN worker = Fields
  BY DEF WorkerIsSound
<1>3. CASE UNCHANGED <<worker, jobs>>
  BY <1>3
<1>4. ASSUME NEW f \in DOMAIN Files, Upload(f) PROVE WorkerIsSound(worker', jobs')
  <2>1. PICK x \in Job : x = [file |-> f, kept |-> TRUE, status |-> "queued"]
    BY DEF Job
  <2>2. jobs' = Append(jobs, x) /\ worker' = worker
    BY <1>4, <2>1 DEF Upload
  <2>3. PICK js \in Seq(Job) : js = jobs
    BY DEF WorkerIsSound
  <2>4. /\ Append(js, x) \in Seq(Job) /\ \A j \in DOMAIN js : j \in DOMAIN Append(js, x)
        /\ \A j \in DOMAIN js : Append(js, x)[j] = js[j]
    BY <2>3
  <2> QED
    BY <2>2, <2>3, <2>4 DEF WorkerIsSound
<1>5. CASE TakeJob
  <2>1. PICK j \in DOMAIN jobs : /\ jobs' = [jobs EXCEPT ![j].status = "running"]
                                 /\ worker' = [Resting EXCEPT !.pc = "start", !.job = j]
    BY <1>5 DEF TakeJob
  <2>2. PICK js \in Seq(Job) : js = jobs
    BY DEF WorkerIsSound
  <2>3. js[j] \in Job
    BY <2>2
  <2>4. PICK x \in Job : x = [js[j] EXCEPT !.status = "running"]
    BY <2>3 DEF Job
  <2>5. x.status = "running"
    BY <2>3, <2>4 DEF Job
  <2>6. jobs' = [js EXCEPT ![j] = x]
    BY <2>1, <2>2, <2>4
  <2>7. [js EXCEPT ![j] = x] \in Seq(Job) /\ DOMAIN [js EXCEPT ![j] = x] = DOMAIN js
    BY <2>2
  <2>8. DOMAIN worker' = Fields /\ worker'.pc = "start" /\ worker'.job = j
    BY <2>1 DEF Resting
  <2> QED
    BY <2>2, <2>5, <2>6, <2>7, <2>8 DEF WorkerIsSound
<1>6. CASE JobFails
  BY <1>6, WorkerStops DEF JobFails
<1>7. CASE JobEnds
  BY <1>7, WorkerStops DEF JobEnds
<1>8. CASE WorkerDies
  BY <1>1, <1>8, WorkerGoesOn DEF WorkerDies
<1>9. CASE ReadOnline
  <2>1. PICK wk : wk = [worker EXCEPT !.pc = "read", !.read = online]
    OBVIOUS
  <2>2. DOMAIN wk = Fields /\ wk.pc = "read" /\ wk.job = worker.job
    BY <1>2, <2>1
  <2> QED
    BY <1>9, <2>1, <2>2, WorkerGoesOn DEF ReadOnline
<1>10. CASE LookForCustomers
  <2>1. PICK wk : wk = [worker EXCEPT !.pc = "link", !.table = customers]
    OBVIOUS
  <2>2. DOMAIN wk = Fields /\ wk.pc = "link" /\ wk.job = worker.job
    BY <1>2, <2>1
  <2> QED
    BY <1>10, <2>1, <2>2, WorkerGoesOn DEF LookForCustomers
<1>11. CASE OpenRows
  <2>1. PICK wk : wk = [worker EXCEPT !.pc = "row", !.row = 1]
    OBVIOUS
  <2>2. DOMAIN wk = Fields /\ wk.pc = "row" /\ wk.job = worker.job
    BY <1>2, <2>1
  <2> QED
    BY <1>11, <2>1, <2>2, WorkerGoesOn DEF OpenRows
<1>12. CASE ImportRow
  <2>1. PICK wk : wk = [worker EXCEPT !.row = @ + 1]
    OBVIOUS
  <2>2. DOMAIN wk = Fields /\ wk.pc = worker.pc /\ wk.job = worker.job
    BY <1>2, <2>1
  <2> QED
    BY <1>12, <2>1, <2>2, WorkerGoesOn DEF ImportRow
<1>13. CASE CommitMain \/ CommitDetail \/ RowsEnd
  <2>1. PICK wk : wk = [Resting EXCEPT !.pc = "end", !.job = worker.job]
    OBVIOUS
  <2>2. DOMAIN wk = Fields /\ wk.pc = "end" /\ wk.job = worker.job
    BY <1>1, <2>1
  <2>3. worker' = wk /\ jobs' = jobs /\ worker.pc # "rest"
    BY <1>13, <2>1 DEF CommitMain, CommitDetail, RowsEnd
  <2> QED
    BY <2>2, <2>3, WorkerGoesOn
<1> QED
  BY <1>3, <1>4, <1>5, <1>6, <1>7, <1>8, <1>9, <1>10, <1>11, <1>12, <1>13
     DEF UploadsNext, Shipped, ApplyTrackflowStatus, uploadVars

-----------------------------------------------------------------------------
(* The inductive invariant of the desk.                                    *)

LeadRec == [by : {Blank, "BACKFILL", "INTAKE", "IMPORT"}, caretaker : Ids \cup {Blank}, open : Nat]
Item == [status : {Blank, "GLOBAL_UNASSIGNED", "CONVERTED"}, team : Teams \cup {Blank}, audits : Nat]
Assignment == [team : Teams, from : Nat, to : Nat \cup {Blank}]
Window == [pc : {"off", "resolve", "lock", "save"}, customer : Nat, src : Sources \cup {Blank},
           team : Teams \cup {Blank}, id : Ids \cup {Blank}, current : Nat,
           seen : {Blank, "GLOBAL_UNASSIGNED", "CONVERTED"}, open : BOOLEAN, met : BOOLEAN]

LeadIsMade(x) == x # NoLead /\ x.open = (IF x.by = "IMPORT" THEN 0 ELSE 1)

(* A lead is made whole, and an intake is converted to a lead there is.    *)
LeadsAreSound(le, it) ==
    /\ le \in [Cust -> [Teams -> LeadRec]]
    /\ it \in [Cust -> [Sources -> Item]]
    /\ \A c \in Cust, t \in Teams : le[c][t] # NoLead => LeadIsMade(le[c][t])
    /\ \A c \in Cust, src \in Sources :
          IF it[c][src].status = "CONVERTED"
          THEN /\ it[c][src].audits = 1 /\ it[c][src].team \in Teams
               /\ le[c][it[c][src].team] # NoLead
          ELSE it[c][src].audits = 0

(* Leads and intakes stay.                                                 *)
Grow(le, it, le2, it2) ==
    /\ \A c \in Cust, t \in Teams : le[c][t] # NoLead => le2[c][t] = le[c][t]
    /\ \A c \in Cust, src \in Sources : it[c][src] # NoItem => it2[c][src] # NoItem

Has(le, c) == \E t \in Teams : le[c][t] # NoLead
IsQueued(it, c) == \E src \in Sources : it[c][src] # NoItem

(* A run has served the customers it has passed, or will at the end of the *)
(* chunk; it remembers who had a lead when the chunk, and when it, began.  *)
RunIsSound(b, le, it) ==
    /\ DOMAIN b = {"pc", "todo", "pos", "end", "resolve", "teams", "found", "queue", "had"}
    /\ b.pc \in {"off", "chunk", "rows", "queue", "done"}
    /\ Fits(b.todo) /\ b.pos \in 0..Len(b.todo) /\ b.end \in 0..Len(b.todo)
    /\ b.pc = "rows" => b.pos <= b.end
    /\ b.pc # "off" => b.resolve \in Teams \cup {Blank} /\ b.teams \in [Ids -> Teams \cup {Blank}]
    /\ \A c \in b.found \cup b.had : c \in Cust /\ Has(le, c)
    /\ b.pc \in {"chunk", "rows", "done"} =>
          \A c \in 1..b.pos : Has(le, c) \/ IsQueued(it, c) \/ (b.pc = "rows" /\ c \in b.queue)
    /\ b.pc = "rows" => \A c \in (b.pos + 1)..b.end : c \in b.had => c \in b.found
    /\ b.pc = "done" => b.pos = Len(b.todo)

RowIsSound(r) ==
    /\ r.pc \in {"off", "write"}
    /\ r.pc = "write" => r.customer \in Cust /\ r.src \in Sources /\ r.team \in Teams \cup {Blank}

(* The open row, as a desk has read it.                                    *)
InForce(current, rows) ==
    IF current = 0 THEN \A i \in DOMAIN rows : rows[i].to # Blank ELSE rows[current].to = Blank

(* A desk that has met nobody knows the open row; one that saves has       *)
(* locked it, so that it is still open.                                    *)
WindowIsSound(q, mem) ==
    /\ q.pc = "resolve" => q.customer \in Cust /\ q.src \in Sources /\ q.team \in Teams
    /\ q.pc \in {"lock", "save"} =>
          /\ q.id \in Ids
          /\ q.current # 0 => q.current \in DOMAIN mem[q.id]
          /\ q.met \/ InForce(q.current, mem[q.id])
    /\ q.pc = "save" /\ q.current # 0 => mem[q.id][q.current].to = Blank

DesksAreSound(ws, mem) ==
    /\ ws \in [Desks -> Window]
    /\ mem \in [Ids -> Seq(Assignment)]
    /\ \A id \in Ids : PeriodsAllowed(mem[id])
    /\ \A w \in Desks : WindowIsSound(ws[w], mem)
    /\ \A v, w \in Desks :
          v # w /\ ws[v].pc = "save" /\ ws[w].pc = "save" /\ ws[v].id = ws[w].id /\ ws[v].current # 0
              => ws[v].current # ws[w].current

IInv ==
    /\ Fits(customers) /\ WorkerIsSound(worker, jobs)
    /\ LeadsAreSound(lead, intake)
    /\ RunIsSound(backfill, lead, intake)
    /\ RowIsSound(row)
    /\ DesksAreSound(window, member)
    /\ inactive \subseteq Teams /\ clock \in 0..MaxTime

-----------------------------------------------------------------------------
(* Leads and intakes.                                                      *)

(* No lead, no item and a queued one.                                      *)
LEMMA Nulls ==
    /\ NoLead \in LeadRec /\ NoItem \in Item /\ Queued \in Item
    /\ Queued # NoItem /\ Queued.status = "GLOBAL_UNASSIGNED" /\ Queued.audits = 0
    /\ NoItem.status = Blank /\ NoItem.audits = 0 /\ Blank # "CONVERTED" /\ Blank # "GLOBAL_UNASSIGNED"
    /\ Blank \notin Nat /\ Blank \notin Teams
<1>1. Blank # "GLOBAL_UNASSIGNED" /\ Blank # "CONVERTED" /\ Blank \notin Nat /\ Blank \notin Teams
  BY BlankIsNull
<1>2. NoLead \in LeadRec
  BY DEF NoLead, LeadRec
<1>3. NoItem \in Item
  BY DEF NoItem, Item
<1>4. Queued \in Item
  BY DEF Queued, Item
<1>5. Queued.status # NoItem.status
  BY <1>1 DEF Queued, NoItem
<1> QED
  BY <1>1, <1>2, <1>3, <1>4, <1>5 DEF Queued, NoItem

(* A lead as any of the three makes it.                                    *)
LEMMA NewLeadIsMade ==
    ASSUME NEW by \in {"BACKFILL", "INTAKE", "IMPORT"}, NEW u \in Ids \cup {Blank}
    PROVE  LET x == NewLead(by, u, IF by = "IMPORT" THEN 0 ELSE 1)
           IN  x \in LeadRec /\ LeadIsMade(x)
<1> DEFINE x == NewLead(by, u, IF by = "IMPORT" THEN 0 ELSE 1)
<1>1. x \in LeadRec
  BY DEF NewLead, LeadRec
<1>2. x.by = by /\ x.open = (IF by = "IMPORT" THEN 0 ELSE 1) /\ NoLead.by = Blank
  BY DEF NewLead, NoLead
<1>3. by # Blank
  BY BlankIsNull
<1> HIDE DEF x
<1>4. x \in LeadRec /\ LeadIsMade(x)
  BY <1>1, <1>2, <1>3 DEF LeadIsMade
<1> QED
  BY <1>4 DEF x

(* Whatever makes leads where there were none, queues items where there    *)
(* were none and converts queued items, keeps leads and intakes sound.     *)
LEMMA LeadsStaySound ==
    ASSUME NEW le, NEW it, NEW le2, NEW it2, LeadsAreSound(le, it),
           le2 \in [Cust -> [Teams -> LeadRec]], it2 \in [Cust -> [Sources -> Item]],
           \A c \in Cust, t \in Teams :
              le2[c][t] # le[c][t] => le[c][t] = NoLead /\ LeadIsMade(le2[c][t]),
           \A c \in Cust, src \in Sources :
              it2[c][src] # it[c][src] =>
                  \/ it[c][src] = NoItem /\ it2[c][src] = Queued
                  \/ /\ it2[c][src].status = "CONVERTED" /\ it2[c][src].audits = 1
                     /\ it2[c][src].team \in Teams /\ le2[c][it2[c][src].team] # NoLead
    PROVE  LeadsAreSound(le2, it2) /\ Grow(le, it, le2, it2)
<1>1. \A c \in Cust, t \in Teams : le[c][t] # NoLead => le2[c][t] = le[c][t]
  OBVIOUS
<1>2. \A c \in Cust, t \in Teams : le2[c][t] # NoLead => LeadIsMade(le2[c][t])
  BY DEF LeadsAreSound
<1>3. ASSUME NEW c \in Cust, NEW src \in Sources
      PROVE  /\ it[c][src] # NoItem => it2[c][src] # NoItem
             /\ IF it2[c][src].status = "CONVERTED"
                THEN /\ it2[c][src].audits = 1 /\ it2[c][src].team \in Teams
                     /\ le2[c][it2[c][src].team] # NoLead
                ELSE it2[c][src].audits = 0
  <2>1. CASE it2[c][src] = it[c][src]
    BY <1>1, <2>1 DEF LeadsAreSound
  <2>2. CASE it2[c][src] = Queued
    BY <2>2, Nulls
  <2>3. CASE /\ it2[c][src].status = "CONVERTED" /\ it2[c][src].audits = 1
             /\ it2[c][src].team \in Teams /\ le2[c][it2[c][src].team] # NoLead
    BY <2>3, Nulls
  <2> QED
    BY <2>1, <2>2, <2>3
<1> QED
  BY <1>1, <1>2, <1>3 DEF LeadsAreSound, Grow

(* One lead, or one item, is put.                                          *)
LEMMA PutLead ==
    ASSUME NEW le \in [Cust -> [Teams -> LeadRec]], NEW c \in Cust, NEW t \in Teams, NEW x \in LeadRec
    PROVE  /\ [le EXCEPT ![c][t] = x] \in [Cust -> [Teams -> LeadRec]]
           /\ \A d \in Cust, u \in Teams :
                 [le EXCEPT ![c][t] = x][d][u] = IF d = c /\ u = t THEN x ELSE le[d][u]
  OBVIOUS

(* Likewise the intake of a customer and a source.                         *)
LEMMA PutItem ==
    ASSUME NEW it \in [Cust -> [Sources -> Item]], NEW c \in Cust, NEW src \in Sources, NEW x \in Item
    PROVE  /\ [it EXCEPT ![c][src] = x] \in [Cust -> [Sources -> Item]]
           /\ \A d \in Cust, s \in Sources :
                 [it EXCEPT ![c][src] = x][d][s] = IF d = c /\ s = src THEN x ELSE it[d][s]
  OBVIOUS

(* A run stays sound while others make leads and intakes.                  *)
LEMMA RunStaysSound ==
    ASSUME NEW b, NEW le, NEW it, NEW le2, NEW it2, RunIsSound(b, le, it), Grow(le, it, le2, it2)
    PROVE  RunIsSound(b, le2, it2)
<1>1. \A c \in Cust : (Has(le, c) => Has(le2, c)) /\ (IsQueued(it, c) => IsQueued(it2, c))
  BY DEF Grow, Has, IsQueued
<1>2. \A c \in 1..b.pos : c \in Cust
  <2>1. Len(b.todo) \in Nat /\ Len(b.todo) <= MaxCustomers /\ b.pos \in 0..Len(b.todo)
    BY DEF RunIsSound, Fits
  <2> QED
    BY <2>1, TableIsBounded DEF Cust
<1> QED
  BY <1>1, <1>2 DEF RunIsSound

-----------------------------------------------------------------------------
(* The users behind staff codes.                                           *)

(* A staff code stands for a user, or for nobody.                          *)
LEMMA HolderIsAUser ==
    ASSUME NEW code
    PROVE  HolderOf(code) \in Ids \cup {Blank}
<1> DEFINE Holders == {u \in Staff : u.code = code}
           Better(u, v) == (u.active /\ ~v.active) \/ (u.active = v.active /\ u.id <= v.id)
<1>1. CASE Holders = {}
  BY <1>1 DEF HolderOf
<1>2. CASE Holders # {}
  <2>1. \A H \in SUBSET Staff : H # {} => \E u \in H : \A v \in H : u.id <= v.id
    <3>1. TAKE H \in SUBSET Staff
    <3>2. HAVE H # {}
    <3>3. PICK S : S = {u.id : u \in H}
      OBVIOUS
    <3>4. S \in SUBSET Nat /\ S # {}
      BY <3>2, <3>3, StaffHaveIds
    <3>5. PICK m \in S : \A n \in S : m <= n
      BY <3>4, LeastOfNaturals
    <3> QED
      BY <3>3, <3>5
  <2>2. \E u \in Holders : \A v \in Holders : Better(u, v)
    <3>1. CASE {u \in Holders : u.active} = {}
      <4>1. PICK u \in Holders : \A v \in Holders : u.id <= v.id
        BY <1>2, <2>1
      <4>2. \A v \in Holders : v.active = FALSE
        BY <3>1, StaffHaveIds
      <4> QED
        BY <4>1, <4>2
    <3>2. CASE {u \in Holders : u.active} # {}
      <4>1. PICK u \in {x \in Holders : x.active} : \A v \in {x \in Holders : x.active} : u.id <= v.id
        BY <3>2, <2>1
      <4>2. \A v \in Holders : v.active = TRUE \/ v.active = FALSE
        BY StaffHaveIds
      <4>3. u.active = TRUE
        BY <4>1, <4>2
      <4>4. ASSUME NEW v \in Holders PROVE Better(u, v)
        BY <4>1, <4>2, <4>3, <4>4
      <4> QED
        BY <4>1, <4>4
    <3> QED
      BY <3>1, <3>2
  <2>3. PICK x : x = CHOOSE u \in Holders : \A v \in Holders : Better(u, v)
    OBVIOUS
  <2>4. x \in Holders
    BY <2>2, <2>3
  <2>5. HolderOf(code) = x.id
    BY <1>2, <2>3 DEF HolderOf
  <2> QED
    BY <2>4, <2>5 DEF Ids
<1> QED
  BY <1>1, <1>2

(* The team of a customer in the backfill is one, or the one given for     *)
(* those without a staff code, which may be none.                          *)
LEMMA BackfillHasATeam ==
    ASSUME NEW code, backfill.resolve \in Teams \cup {Blank}, backfill.teams \in [Ids -> Teams \cup {Blank}]
    PROVE  BackfillTeam(code) \in Teams \cup {Blank} /\ BackfillCaretaker(code) \in Ids \cup {Blank}
<1>1. PICK h \in Ids \cup {Blank} : h = HolderOf(code)
  BY HolderIsAUser
<1>2. h # Blank => backfill.teams[h] \in Teams \cup {Blank}
  BY <1>1
<1> QED
  BY <1>1, <1>2, FallbackIsATeam DEF BackfillTeam, BackfillCaretaker

-----------------------------------------------------------------------------
(* The steps that make leads and intakes.                                  *)

(* The rows of a table are numbered as customers are.                      *)
LEMMA RowsAreCustomers ==
    ASSUME NEW table, Fits(table)
    PROVE  /\ Len(table) \in Nat /\ Len(table) <= MaxCustomers /\ DOMAIN table = 1..Len(table)
           /\ DOMAIN table \subseteq Cust
<1>1. Len(table) \in Nat /\ DOMAIN table = 1..Len(table) /\ Len(table) <= MaxCustomers
  BY DEF Fits
<1>2. MaxCustomers \in Nat
  BY TableIsBounded
<1> QED
  BY <1>1, <1>2 DEF Cust

(* Nothing changes.                                                        *)
LEMMA NothingIsMade ==
    ASSUME NEW le, NEW it, LeadsAreSound(le, it)
    PROVE  Grow(le, it, le, it)
  BY DEF Grow

(* An editor converts a queued intake to the team's lead, hers or new.     *)
LEMMA IntakeIsResolved ==
    ASSUME LeadsAreSound(lead, intake), NEW w \in Desks, WindowIsSound(window[w], member), ResolveIntake(w)
    PROVE  LeadsAreSound(lead', intake') /\ Grow(lead, intake, lead', intake')
<1>1. PICK c, src, t : c = window[w].customer /\ src = window[w].src /\ t = window[w].team
  OBVIOUS
<1>2. c \in Cust /\ src \in Sources /\ t \in Teams
  BY <1>1 DEF ResolveIntake, WindowIsSound
<1>3. CASE UNCHANGED <<lead, intake>>
  BY <1>3, NothingIsMade
<1>4. CASE ~ UNCHANGED <<lead, intake>>
  <2>1. PICK x : x = Converted(lead[c][t])
    OBVIOUS
  <2>2. PICK y : y = [status |-> "CONVERTED", team |-> t, audits |-> intake[c][src].audits + 1]
    OBVIOUS
  <2>3. /\ intake[c][src].status = "GLOBAL_UNASSIGNED"
        /\ lead' = [lead EXCEPT ![c][t] = x]
        /\ intake' = [intake EXCEPT ![c][src] = y]
    BY <1>1, <1>4, <2>1, <2>2 DEF ResolveIntake, StillQueued
  <2>4. intake[c][src].audits = 0
    BY <1>2, <2>3 DEF LeadsAreSound
  <2>5. y \in Item /\ y.status = "CONVERTED" /\ y.audits = 1 /\ y.team = t
    BY <1>2, <2>2, <2>4 DEF Item
  <2>6. lead[c][t] \in LeadRec /\ (lead[c][t] # NoLead => LeadIsMade(lead[c][t]))
    BY <1>2 DEF LeadsAreSound
  <2>7. x \in LeadRec /\ LeadIsMade(x) /\ (lead[c][t] # NoLead => x = lead[c][t])
    <3>1. NewLead("INTAKE", Blank, 1) \in LeadRec /\ LeadIsMade(NewLead("INTAKE", Blank, 1))
      BY NewLeadIsMade
    <3> QED
      BY <2>1, <2>6, <3>1 DEF Converted
  <2>8. lead \in [Cust -> [Teams -> LeadRec]] /\ intake \in [Cust -> [Sources -> Item]]
    BY DEF LeadsAreSound
  <2>9. /\ lead' \in [Cust -> [Teams -> LeadRec]]
        /\ \A d \in Cust, u \in Teams : lead'[d][u] = IF d = c /\ u = t THEN x ELSE lead[d][u]
    BY <1>2, <2>3, <2>7, <2>8, PutLead
  <2>10. /\ intake' \in [Cust -> [Sources -> Item]]
         /\ \A d \in Cust, s \in Sources : intake'[d][s] = IF d = c /\ s = src THEN y ELSE intake[d][s]
    BY <1>2, <2>3, <2>5, <2>8, PutItem
  <2>11. \A d \in Cust, u \in Teams :
            lead'[d][u] # lead[d][u] => lead[d][u] = NoLead /\ LeadIsMade(lead'[d][u])
    BY <2>7, <2>9
  <2>12. lead'[c][t] # NoLead
    BY <1>2, <2>7, <2>9 DEF LeadIsMade
  <2>13. \A d \in Cust, s \in Sources :
            intake'[d][s] # intake[d][s] =>
                /\ intake'[d][s].status = "CONVERTED" /\ intake'[d][s].audits = 1
                /\ intake'[d][s].team \in Teams /\ lead'[d][intake'[d][s].team] # NoLead
    BY <1>2, <2>5, <2>10, <2>12
  <2> QED
    BY <2>9, <2>10, <2>11, <2>13, LeadsStaySound
<1> QED
  BY <1>3, <1>4

(* Importer version 2 makes a lead, or an intake.                          *)
LEMMA RowIsCommitted ==
    ASSUME LeadsAreSound(lead, intake), RowIsSound(row), EnsureLeadOrIntake
    PROVE  LeadsAreSound(lead', intake') /\ Grow(lead, intake, lead', intake')
<1>1. PICK c, src, t : c = row.customer /\ src = row.src /\ t = row.team
  OBVIOUS
<1>2. c \in Cust /\ src \in Sources /\ t \in Teams \cup {Blank}
  BY <1>1 DEF EnsureLeadOrIntake, RowIsSound
<1>3. PICK x : x = NewLead("IMPORT", Blank, 0)
  OBVIOUS
<1>4. x \in LeadRec /\ LeadIsMade(x)
  BY <1>3, NewLeadIsMade
<1>5. lead \in [Cust -> [Teams -> LeadRec]] /\ intake \in [Cust -> [Sources -> Item]]
  BY DEF LeadsAreSound
<1>6. lead' = lead \/ (t \in Teams /\ lead[c][t] = NoLead /\ lead' = [lead EXCEPT ![c][t] = x])
  BY <1>1, <1>2, <1>3 DEF EnsureLeadOrIntake
<1>7. intake' = intake \/ (intake[c][src] = NoItem /\ intake' = [intake EXCEPT ![c][src] = Queued])
  BY <1>1 DEF EnsureLeadOrIntake
<1>8. /\ lead' \in [Cust -> [Teams -> LeadRec]]
      /\ \A d \in Cust, u \in Teams :
            lead'[d][u] # lead[d][u] => lead[d][u] = NoLead /\ LeadIsMade(lead'[d][u])
  <2>1. CASE lead' = lead
    BY <1>5, <2>1
  <2>2. CASE t \in Teams /\ lead[c][t] = NoLead /\ lead' = [lead EXCEPT ![c][t] = x]
    <3>1. /\ lead' \in [Cust -> [Teams -> LeadRec]]
          /\ \A d \in Cust, u \in Teams : lead'[d][u] = IF d = c /\ u = t THEN x ELSE lead[d][u]
      BY <1>2, <1>4, <1>5, <2>2, PutLead
    <3> QED
      BY <1>4, <2>2, <3>1
  <2> QED
    BY <1>6, <2>1, <2>2
<1>9. /\ intake' \in [Cust -> [Sources -> Item]]
      /\ \A d \in Cust, s \in Sources :
            intake'[d][s] # intake[d][s] => intake[d][s] = NoItem /\ intake'[d][s] = Queued
  <2>1. CASE intake' = intake
    BY <1>5, <2>1
  <2>2. CASE intake[c][src] = NoItem /\ intake' = [intake EXCEPT ![c][src] = Queued]
    <3>1. /\ intake' \in [Cust -> [Sources -> Item]]
          /\ \A d \in Cust, s \in Sources : intake'[d][s] = IF d = c /\ s = src THEN Queued ELSE intake[d][s]
      BY <1>2, <1>5, <2>2, PutItem, Nulls
    <3> QED
      BY <2>2, <3>1
  <2> QED
    BY <1>7, <2>1, <2>2
<1> QED
  BY <1>8, <1>9, LeadsStaySound

-----------------------------------------------------------------------------
(* The backfill command.                                                   *)

(* What is sound of a run in one of the two loops.                         *)
LEMMA RunInRows ==
    ASSUME NEW b, NEW le, NEW it, RunIsSound(b, le, it), b.pc = "rows", b.pos < b.end
    PROVE  /\ b.pos \in Nat /\ b.end \in Nat /\ b.pos + 1 <= b.end /\ b.pos + 1 <= Len(b.todo)
           /\ b.pos + 1 \in Cust /\ Len(b.todo) \in Nat /\ Len(b.todo) <= MaxCustomers
<1>1. Len(b.todo) \in Nat /\ Len(b.todo) <= MaxCustomers
  BY RowsAreCustomers DEF RunIsSound
<1>2. b.pos \in 0..Len(b.todo) /\ b.end \in 0..Len(b.todo)
  BY DEF RunIsSound
<1> QED
  BY <1>1, <1>2, TableIsBounded DEF Cust

(* One customer of the chunk: she has a lead, gets one or is noted for an  *)
(* intake; one who had a lead when the run began is passed over.           *)
LEMMA CustomerIsServed ==
    ASSUME LeadsAreSound(lead, intake), RunIsSound(backfill, lead, intake), BackfillCustomer
    PROVE  /\ LeadsAreSound(lead', intake') /\ Grow(lead, intake, lead', intake')
           /\ RunIsSound(backfill', lead', intake')
           /\ \A c \in backfill.had : lead'[c] = lead[c]
<1>1. PICK b : b = backfill
  OBVIOUS
<1>2. b.pc = "rows" /\ b.pos < b.end
  BY <1>1 DEF BackfillCustomer
<1>3. PICK c : c = b.pos + 1
  OBVIOUS
<1>4. /\ b.pos \in Nat /\ b.end \in Nat /\ c <= b.end /\ c <= Len(b.todo)
      /\ c \in Cust /\ Len(b.todo) \in Nat
  BY <1>1, <1>2, <1>3, RunInRows
<1>5. PICK t, u : t = BackfillTeam(b.todo[c]) /\ u = BackfillCaretaker(b.todo[c])
  OBVIOUS
<1>6. t \in Teams \cup {Blank} /\ u \in Ids \cup {Blank}
  BY <1>1, <1>2, <1>5, BackfillHasATeam DEF RunIsSound
<1>7. PICK queue : queue = IF t = Blank THEN b.queue \cup {c} ELSE b.queue
  OBVIOUS
<1>8. backfill' = [b EXCEPT !.pos = c, !.queue = queue] /\ intake' = intake
  BY <1>1, <1>3, <1>5, <1>7 DEF BackfillCustomer
<1>9. PICK x : x = Backfilled(lead[c][t], u)
  OBVIOUS
<1>10. IF t = Blank \/ c \in b.found THEN lead' = lead ELSE lead' = [lead EXCEPT ![c][t] = x]
  BY <1>1, <1>3, <1>5, <1>9 DEF BackfillCustomer, Skips
<1>11. lead \in [Cust -> [Teams -> LeadRec]] /\ intake \in [Cust -> [Sources -> Item]]
  BY DEF LeadsAreSound
<1>12. c \in b.had => c \in b.found
  <2>1. c \in (b.pos + 1)..b.end
    BY <1>3, <1>4
  <2> QED
    BY <1>1, <1>2, <2>1 DEF RunIsSound
<1>13. /\ LeadsAreSound(lead', intake') /\ Grow(lead, intake, lead', intake')
       /\ Has(lead', c) \/ c \in queue
       /\ \A d \in b.had : lead'[d] = lead[d]
  <2>1. CASE t = Blank \/ c \in b.found
    <3>1. lead' = lead
      BY <1>10, <2>1
    <3>2. c \in b.found => Has(lead, c)
      BY <1>1 DEF RunIsSound
    <3>3. t = Blank => c \in queue
      BY <1>7
    <3> QED
      BY <1>8, <2>1, <3>1, <3>2, <3>3, NothingIsMade
  <2>2. CASE t # Blank /\ c \notin b.found
    <3>1. t \in Teams /\ lead' = [lead EXCEPT ![c][t] = x]
      BY <1>6, <1>10, <2>2
    <3>2. lead[c][t] \in LeadRec /\ (lead[c][t] # NoLead => LeadIsMade(lead[c][t]))
      BY <1>4, <1>11, <3>1 DEF LeadsAreSound
    <3>3. x \in LeadRec /\ LeadIsMade(x) /\ (lead[c][t] # NoLead => x = lead[c][t])
      <4>1. NewLead("BACKFILL", u, 1) \in LeadRec /\ LeadIsMade(NewLead("BACKFILL", u, 1))
        BY <1>6, NewLeadIsMade
      <4> QED
        BY <1>9, <3>2, <4>1 DEF Backfilled
    <3>4. /\ lead' \in [Cust -> [Teams -> LeadRec]]
          /\ \A d \in Cust, v \in Teams : lead'[d][v] = IF d = c /\ v = t THEN x ELSE lead[d][v]
      BY <1>4, <1>11, <3>1, <3>3, PutLead
    <3>5. \A d \in Cust, v \in Teams :
             lead'[d][v] # lead[d][v] => lead[d][v] = NoLead /\ LeadIsMade(lead'[d][v])
      BY <3>3, <3>4
    <3>6. LeadsAreSound(lead', intake') /\ Grow(lead, intake, lead', intake')
      <4>1. /\ intake' \in [Cust -> [Sources -> Item]]
            /\ \A d \in Cust, s \in Sources : intake'[d][s] = intake[d][s]
        BY <1>8, <1>11
      <4> QED
        BY <3>4, <3>5, <4>1, LeadsStaySound
    <3>7. Has(lead', c)
      BY <1>4, <3>1, <3>3, <3>4 DEF Has, LeadIsMade
    <3>8. \A d \in b.had : d \in Cust /\ d # c
      BY <1>1, <1>12, <2>2 DEF RunIsSound
    <3>9. \A d \in b.had : lead'[d] = lead[d]
      BY <1>11, <3>1, <3>8
    <3> QED
      BY <3>6, <3>7, <3>9
  <2> QED
    BY <2>1, <2>2
<1>14. RunIsSound(b, lead', intake')
  BY <1>1, <1>13, RunStaysSound
<1>15. PICK b2 : b2 = [b EXCEPT !.pos = c, !.queue = queue]
  OBVIOUS
<1>16. /\ DOMAIN b2 = DOMAIN b
       /\ b2.pos = c /\ b2.queue = queue
       /\ b2.pc = b.pc /\ b2.todo = b.todo /\ b2.end = b.end /\ b2.resolve = b.resolve
       /\ b2.teams = b.teams /\ b2.found = b.found /\ b2.had = b.had
  BY <1>14, <1>15 DEF RunIsSound
<1>17. \A d \in 1..c : Has(lead', d) \/ IsQueued(intake', d) \/ d \in queue
  <2>1. TAKE d \in 1..c
  <2>2. d = c \/ d \in 1..b.pos
    BY <1>3, <1>4, <2>1
  <2>3. d \in 1..b.pos => Has(lead', d) \/ IsQueued(intake', d) \/ d \in b.queue
    BY <1>2, <1>14 DEF RunIsSound
  <2>4. b.queue \subseteq queue
    BY <1>7
  <2> QED
    BY <1>13, <2>2, <2>3, <2>4
<1>18. \A d \in (c + 1)..b.end : d \in (b.pos + 1)..b.end
  BY <1>3, <1>4
<1>19. c \in 0..Len(b.todo)
  BY <1>3, <1>4
<1>20. RunIsSound(b2, lead', intake')
  BY <1>2, <1>4, <1>14, <1>16, <1>17, <1>18, <1>19 DEF RunIsSound
<1> QED
  BY <1>1, <1>8, <1>13, <1>15, <1>20

(* The open assignment is one of the sequence, or there is none.           *)
LEMMA OpenOneIsOpen ==
    ASSUME NEW rows \in Seq(Assignment)
    PROVE  /\ OpenOne(rows) \in Nat
           /\ OpenOne(rows) # 0 => OpenOne(rows) \in DOMAIN rows
           /\ InForce(OpenOne(rows), rows)
           /\ TeamNow(rows) \in Teams \cup {Blank}
<1>1. PICK n \in Nat : n = Len(rows) /\ DOMAIN rows = 1..n
  OBVIOUS
<1>2. \A i \in DOMAIN rows : rows[i] \in Assignment /\ rows[i].team \in Teams
  <2>1. \A i \in DOMAIN rows : rows[i] \in Assignment
    OBVIOUS
  <2> QED
    BY <2>1 DEF Assignment
<1>3. CASE {i \in DOMAIN rows : rows[i].to = Blank} = {}
  <2>1. OpenOne(rows) = 0
    BY <1>3 DEF OpenOne
  <2> QED
    BY <1>3, <2>1 DEF InForce, TeamNow
<1>4. CASE {i \in DOMAIN rows : rows[i].to = Blank} # {}
  <2>1. PICK i : i = OpenOne(rows)
    OBVIOUS
  <2>2. i \in {j \in DOMAIN rows : rows[j].to = Blank}
    BY <1>4, <2>1 DEF OpenOne
  <2>3. i \in Nat /\ i # 0
    BY <1>1, <2>2
  <2> QED
    BY <1>2, <2>1, <2>2, <2>3 DEF InForce, TeamNow
<1> QED
  BY <1>3, <1>4

(* A run begins with the customers there are, and knows who has a lead.    *)
LEMMA RunBegins ==
    ASSUME Fits(customers), DesksAreSound(window, member), NEW resolve \in Teams \cup {Blank},
           StartBackfill(resolve)
    PROVE  RunIsSound(backfill', lead, intake)
<1>1. PICK n \in Nat : n = Len(customers) /\ DOMAIN customers = 1..n /\ n <= MaxCustomers
  BY RowsAreCustomers
<1>2. DOMAIN customers \subseteq Cust
  BY RowsAreCustomers
<1>3. PICK S : S = {customers[c].staff : c \in 1..n}
  OBVIOUS
<1>4. PICK todo : todo = [c \in 1..n |-> customers[c].staff]
  OBVIOUS
<1>5. todo \in [1..n -> S]
  BY <1>3, <1>4
<1>6. \A g \in [1..n -> S] : g \in Seq(S) /\ Len(g) = n
  OBVIOUS
<1>7. Fits(todo) /\ Len(todo) = n
  BY <1>1, <1>5, <1>6 DEF Fits
<1>8. PICK teams : teams = [id \in Ids |-> TeamNow(member[id])]
  OBVIOUS
<1>9. teams \in [Ids -> Teams \cup {Blank}]
  BY <1>8, OpenOneIsOpen DEF DesksAreSound
<1>10. PICK had : had = {c \in DOMAIN customers : HasLead(c)}
  OBVIOUS
<1>11. \A c \in had : c \in Cust /\ Has(lead, c)
  BY <1>2, <1>10 DEF HasLead, Has
<1>12. PICK b : b = [Off EXCEPT !.pc = "chunk", !.resolve = resolve, !.todo = todo,
                       !.teams = teams, !.had = had]
  OBVIOUS
<1>13. backfill' = b
  BY <1>1, <1>4, <1>8, <1>10, <1>12 DEF StartBackfill
<1>14. /\ DOMAIN b = {"pc", "todo", "pos", "end", "resolve", "teams", "found", "queue", "had"}
       /\ b.pc = "chunk" /\ b.resolve = resolve /\ b.todo = todo /\ b.teams = teams /\ b.had = had
       /\ b.pos = 0 /\ b.end = 0 /\ b.found = {}
  BY <1>12 DEF Off
<1>15. RunIsSound(b, lead, intake)
  BY <1>7, <1>9, <1>11, <1>14 DEF RunIsSound
<1> QED
  BY <1>13, <1>15

(* The command looks up who of the chunk has a lead by now.                *)
LEMMA ChunkBegins ==
    ASSUME RunIsSound(backfill, lead, intake), BackfillChunk
    PROVE  RunIsSound(backfill', lead, intake)
<1>1. PICK b : b = backfill
  OBVIOUS
<1>2. PICK n \in Nat : n = Len(b.todo) /\ n <= MaxCustomers
  BY <1>1, RowsAreCustomers DEF RunIsSound
<1>3. PICK p \in Nat : p = b.pos /\ p <= n
  BY <1>1, <1>2 DEF RunIsSound
<1>4. b.pc = "chunk" /\ p < n
  BY <1>1, <1>2, <1>3 DEF BackfillChunk, Processed
<1>5. PICK k \in Nat : k = ChunkSize /\ k >= 1
  BY ChunksAreNotEmpty
<1>6. PICK end \in Nat : end = (IF p + k < n THEN p + k ELSE n)
  OBVIOUS
<1>7. p <= end /\ end <= n
  BY <1>3, <1>4, <1>5, <1>6
<1>8. PICK found : found = {c \in (p + 1)..end : HasLead(c)}
  OBVIOUS
<1>9. backfill' = [b EXCEPT !.pc = "rows", !.end = end, !.queue = {}, !.found = found]
  BY <1>1, <1>2, <1>3, <1>5, <1>6, <1>8 DEF BackfillChunk
<1>10. \A c \in (p + 1)..end : c \in Cust
  BY <1>2, <1>7, TableIsBounded DEF Cust
<1>11. \A c \in found : c \in Cust /\ Has(lead, c)
  BY <1>8, <1>10 DEF HasLead, Has
<1>12. \A c \in (p + 1)..end : c \in b.had => c \in found
  BY <1>1, <1>8 DEF RunIsSound, HasLead, Has
<1>13. PICK b2 : b2 = [b EXCEPT !.pc = "rows", !.end = end, !.queue = {}, !.found = found]
  OBVIOUS
<1>14. /\ DOMAIN b2 = DOMAIN b
       /\ b2.pc = "rows" /\ b2.end = end /\ b2.found = found /\ b2.queue = {}
       /\ b2.pos = b.pos /\ b2.todo = b.todo /\ b2.resolve = b.resolve
       /\ b2.teams = b.teams /\ b2.had = b.had
  BY <1>1, <1>13 DEF RunIsSound
<1>15. \A c \in 1..p : Has(lead, c) \/ IsQueued(intake, c)
  BY <1>1, <1>3, <1>4 DEF RunIsSound
<1>16. end \in 0..n /\ p \in 0..n
  BY <1>3, <1>7
<1>17. RunIsSound(b2, lead, intake)
  BY <1>1, <1>2, <1>3, <1>4, <1>7, <1>11, <1>12, <1>14, <1>15, <1>16 DEF RunIsSound
<1> QED
  BY <1>9, <1>13, <1>17

(* A run that changes nothing but where it is.                             *)
LEMMA RunMoves ==
    ASSUME NEW b, NEW le, NEW it, RunIsSound(b, le, it), NEW pc \in {"chunk", "done"},
           b.pc \in {"chunk", "rows"}, pc = "done" => b.pos = Len(b.todo),
           b.pc = "rows" => \A c \in 1..b.pos : Has(le, c) \/ IsQueued(it, c)
    PROVE  RunIsSound([b EXCEPT !.pc = pc], le, it)
<1>1. PICK b2 : b2 = [b EXCEPT !.pc = pc]
  OBVIOUS
<1>2. /\ DOMAIN b2 = DOMAIN b
      /\ b2.pc = pc /\ b2.end = b.end /\ b2.found = b.found /\ b2.queue = b.queue
      /\ b2.pos = b.pos /\ b2.todo = b.todo /\ b2.resolve = b.resolve
      /\ b2.teams = b.teams /\ b2.had = b.had
  BY <1>1 DEF RunIsSound
<1>3. \A c \in 1..b.pos : Has(le, c) \/ IsQueued(it, c)
  BY DEF RunIsSound
<1>4. RunIsSound(b2, le, it)
  BY <1>2, <1>3 DEF RunIsSound
<1> QED
  BY <1>1, <1>4

(* At the end of a chunk those noted for an intake have one.               *)
LEMMA ChunkEnds ==
    ASSUME LeadsAreSound(lead, intake), RunIsSound(backfill, lead, intake), BackfillQueue
    PROVE  /\ LeadsAreSound(lead', intake') /\ Grow(lead, intake, lead', intake')
           /\ RunIsSound(backfill', lead', intake')
<1>1. PICK b : b = backfill
  OBVIOUS
<1>2. b.pc = "rows" /\ lead' = lead /\ backfill' = [b EXCEPT !.pc = "chunk"]
  BY <1>1 DEF BackfillQueue
<1>3. lead \in [Cust -> [Teams -> LeadRec]] /\ intake \in [Cust -> [Sources -> Item]]
  BY DEF LeadsAreSound
<1>4. PICK B : B = Blank /\ B \in Sources
  BY BlankIsASource
<1>5. intake' = [c \in Cust |-> IF c \in b.queue /\ intake[c][B] = NoItem
                                THEN [intake[c] EXCEPT ![B] = Queued] ELSE intake[c]]
  BY <1>1, <1>4 DEF BackfillQueue
<1>6. ASSUME NEW c \in Cust
      PROVE  /\ intake'[c] \in [Sources -> Item]
             /\ c \in b.queue => intake'[c][B] # NoItem
             /\ \A s \in Sources :
                   intake'[c][s] # intake[c][s] => intake[c][s] = NoItem /\ intake'[c][s] = Queued
  <2>1. intake[c] \in [Sources -> Item]
    BY <1>3
  <2>2. intake'[c] = IF c \in b.queue /\ intake[c][B] = NoItem
                     THEN [intake[c] EXCEPT ![B] = Queued] ELSE intake[c]
    BY <1>5
  <2>3. [intake[c] EXCEPT ![B] = Queued] \in [Sources -> Item]
    BY <2>1, Nulls
  <2> QED
    BY <1>4, <2>1, <2>2, <2>3, Nulls
<1>7. intake' \in [Cust -> [Sources -> Item]]
  BY <1>5, <1>6
<1>8. LeadsAreSound(lead', intake') /\ Grow(lead, intake, lead', intake')
  <2>1. /\ lead' \in [Cust -> [Teams -> LeadRec]]
        /\ \A c \in Cust, t \in Teams : lead'[c][t] = lead[c][t]
    BY <1>2, <1>3
  <2> QED
    BY <1>6, <1>7, <2>1, LeadsStaySound
<1>9. RunIsSound(b, lead', intake')
  BY <1>1, <1>8, RunStaysSound
<1>10. \A c \in 1..b.pos : c \in Cust
  <2>1. PICK n \in Nat : n = Len(b.todo) /\ n <= MaxCustomers
    BY <1>1, RowsAreCustomers DEF RunIsSound
  <2>2. b.pos \in 0..n
    BY <1>9, <2>1 DEF RunIsSound
  <2> QED
    BY <2>1, <2>2, TableIsBounded DEF Cust
<1>11. \A c \in 1..b.pos : Has(lead', c) \/ IsQueued(intake', c)
  <2>1. \A c \in b.queue : c \in Cust => IsQueued(intake', c)
    BY <1>4, <1>6 DEF IsQueued
  <2> QED
    BY <1>2, <1>9, <1>10, <2>1 DEF RunIsSound
<1>12. RunIsSound([b EXCEPT !.pc = "chunk"], lead', intake')
  BY <1>2, <1>9, <1>11, RunMoves
<1> QED
  BY <1>2, <1>8, <1>12

(* The run ends after its last chunk; or dies, and can be run again.       *)
LEMMA RunEnds ==
    ASSUME RunIsSound(backfill, lead, intake), BackfillEnds \/ BackfillDies
    PROVE  RunIsSound(backfill', lead, intake)
<1>1. CASE BackfillDies
  <2>1. backfill' = Off
    BY <1>1 DEF BackfillDies
  <2>2. PICK e : e = <<>>
    OBVIOUS
  <2>3. e \in Seq({}) /\ Len(e) = 0
    BY <2>2
  <2>4. Fits(e)
    BY <2>3, TableIsBounded DEF Fits
  <2>5. RunIsSound(Off, lead, intake)
    BY <2>2, <2>3, <2>4 DEF RunIsSound, Off
  <2> QED
    BY <2>1, <2>5
<1>2. CASE BackfillEnds
  <2>1. PICK b : b = backfill
    OBVIOUS
  <2>2. PICK n \in Nat : n = Len(b.todo) /\ n <= MaxCustomers
    BY <2>1, RowsAreCustomers DEF RunIsSound
  <2>3. b.pos \in 0..n
    BY <2>1, <2>2 DEF RunIsSound
  <2>4. b.pc = "chunk" /\ b.pos >= n /\ backfill' = [b EXCEPT !.pc = "done"]
    BY <1>2, <2>1, <2>2 DEF BackfillEnds, Processed
  <2>5. b.pos = Len(b.todo)
    BY <2>2, <2>3, <2>4
  <2>6. RunIsSound([b EXCEPT !.pc = "done"], lead, intake)
    BY <2>1, <2>4, <2>5, RunMoves
  <2> QED
    BY <2>4, <2>6
<1> QED
  BY <1>1, <1>2

-----------------------------------------------------------------------------
(* Team assignments.                                                       *)

(* A window changes, the assignments do not.                               *)
LEMMA WindowChanges ==
    ASSUME DesksAreSound(window, member), NEW w \in Desks, NEW q \in Window, WindowIsSound(q, member),
           window' = [window EXCEPT ![w] = q], member' = member,
           q.pc = "save" => \A v \in Desks \ {w} :
              ~ (window[v].pc = "save" /\ window[v].id = q.id
                 /\ window[v].current = q.current /\ q.current # 0)
    PROVE  DesksAreSound(window', member')
<1>1. \A v \in Desks : window'[v] = IF v = w THEN q ELSE window[v]
  BY DEF DesksAreSound
<1>2. window' \in [Desks -> Window]
  BY DEF DesksAreSound
<1>3. \A v \in Desks : WindowIsSound(window'[v], member)
  BY <1>1 DEF DesksAreSound
<1>4. ASSUME NEW v \in Desks, NEW x \in Desks, v # x, window'[v].pc = "save", window'[x].pc = "save",
             window'[v].id = window'[x].id, window'[v].current # 0
      PROVE  window'[v].current # window'[x].current
  <2>1. CASE v = w
    BY <1>1, <1>4, <2>1
  <2>2. CASE x = w
    BY <1>1, <1>4, <2>2
  <2>3. CASE v # w /\ x # w
    <3>1. window'[v] = window[v] /\ window'[x] = window[x]
      BY <1>1, <2>3
    <3> QED
      BY <1>4, <3>1 DEF DesksAreSound
  <2> QED
    BY <2>1, <2>2, <2>3
<1> QED
  BY <1>2, <1>3, <1>4 DEF DesksAreSound

(* A window that is not open.                                              *)
LEMMA ClosedIsAWindow ==
    Closed \in Window /\ Closed.pc = "off" /\ \A mem : WindowIsSound(Closed, mem)
<1>1. Closed \in Window
  BY BlankIsASource DEF Closed, Window, NoCustomer
<1>2. Closed.pc = "off"
  BY DEF Closed
<1> QED
  BY <1>1, <1>2 DEF WindowIsSound

(* An editor opens an intake, or ends with it.                             *)
LEMMA IntakeWindows ==
    ASSUME DesksAreSound(window, member), LeadsAreSound(lead, intake),
           NEW w \in Desks, member' = member,
           \/ ResolveIntake(w)
           \/ \E c \in Cust, src \in Sources, t \in Teams : OpenIntake(w, c, src, t)
    PROVE  DesksAreSound(window', member')
<1>1. CASE ResolveIntake(w)
  <2>1. window' = [window EXCEPT ![w] = Closed]
    BY <1>1 DEF ResolveIntake
  <2>2. Closed \in Window /\ Closed.pc # "save" /\ WindowIsSound(Closed, member)
    BY ClosedIsAWindow
  <2> QED
    BY <2>1, <2>2, WindowChanges
<1>2. ASSUME NEW c \in Cust, NEW src \in Sources, NEW t \in Teams, OpenIntake(w, c, src, t)
      PROVE  DesksAreSound(window', member')
  <2>1. PICK s : s = intake[c][src].status
    OBVIOUS
  <2>2. s \in {Blank, "GLOBAL_UNASSIGNED", "CONVERTED"}
    <3>1. intake[c][src] \in Item
      BY DEF LeadsAreSound
    <3> QED
      BY <2>1, <3>1 DEF Item
  <2>3. PICK o \in BOOLEAN : o = (t \notin inactive)
    OBVIOUS
  <2>4. PICK q : q = [Closed EXCEPT !.pc = "resolve", !.customer = c, !.src = src, !.team = t,
                        !.seen = s, !.open = o]
    OBVIOUS
  <2>5. window' = [window EXCEPT ![w] = q]
    BY <1>2, <2>1, <2>3, <2>4 DEF OpenIntake
  <2>6. c \in Nat
    BY TableIsBounded DEF Cust
  <2>7. q.pc = "resolve" /\ q.customer = c /\ q.src = src /\ q.team = t
    BY <2>4 DEF Closed
  <2>8. q \in Window
    BY <2>2, <2>3, <2>4, <2>6 DEF Closed, Window
  <2>9. WindowIsSound(q, member)
    BY <2>7 DEF WindowIsSound
  <2> QED
    BY <2>5, <2>7, <2>8, <2>9, WindowChanges
<1> QED
  BY <1>1, <1>2

(* A desk that asks for a team reads the open row, then locks it, and      *)
(* forgets it if it has been closed.                                       *)
LEMMA RowIsReadAndLocked ==
    ASSUME DesksAreSound(window, member), NEW w \in Desks,
           LockTeam(w) \/ \E id \in Ids, t \in Teams \cup {Blank} : AskTeam(w, id, t)
    PROVE  DesksAreSound(window', member')
<1>1. CASE LockTeam(w)
  <2>1. PICK q : q = window[w]
    OBVIOUS
  <2>2. q \in Window /\ q.pc = "lock" /\ WindowIsSound(q, member) /\ q.id \in Ids
    BY <1>1, <2>1 DEF LockTeam, DesksAreSound, WindowIsSound
  <2>3. PICK cur : cur = IF q.current # 0 /\ member[q.id][q.current].to = Blank THEN q.current ELSE 0
    OBVIOUS
  <2>4. PICK q2 : q2 = [q EXCEPT !.pc = "save", !.current = cur]
    OBVIOUS
  <2>5. /\ member' = member
        /\ window' = [window EXCEPT ![w] = Closed] \/ window' = [window EXCEPT ![w] = q2]
        /\ q.current # 0 => \A v \in Desks \ {w} :
              ~ (window[v].pc = "save" /\ window[v].id = q.id /\ window[v].current = q.current)
    BY <1>1, <2>1, <2>3, <2>4 DEF LockTeam
  <2>6. CASE window' = [window EXCEPT ![w] = Closed]
    BY <2>5, <2>6, ClosedIsAWindow, WindowChanges
  <2>7. CASE window' = [window EXCEPT ![w] = q2]
    <3>1. q.current \in Nat /\ cur \in Nat
      BY <2>2, <2>3 DEF Window
    <3>2. q2 \in Window
      BY <2>2, <2>4, <3>1 DEF Window
    <3>3. q2.pc = "save" /\ q2.current = cur /\ q2.id = q.id /\ q2.met = q.met
      BY <2>2, <2>4 DEF Window
    <3>4. q.met \/ InForce(cur, member[q.id])
      BY <2>2, <2>3 DEF WindowIsSound, InForce
    <3>5. WindowIsSound(q2, member)
      BY <2>2, <2>3, <3>3, <3>4 DEF WindowIsSound
    <3>6. \A v \in Desks \ {w} :
              ~ (window[v].pc = "save" /\ window[v].id = q2.id
                 /\ window[v].current = q2.current /\ q2.current # 0)
      BY <2>3, <2>5, <3>3
    <3> QED
      BY <2>5, <2>7, <3>2, <3>5, <3>6, WindowChanges
  <2> QED
    BY <2>5, <2>6, <2>7
<1>2. ASSUME NEW id \in Ids, NEW t \in Teams \cup {Blank}, AskTeam(w, id, t)
      PROVE  DesksAreSound(window', member')
  <2>1. PICK cur \in Nat : cur = OpenOne(member[id])
    BY OpenOneIsOpen DEF DesksAreSound
  <2>2. PICK q : q = [Closed EXCEPT !.pc = "lock", !.id = id, !.team = t, !.current = cur]
    OBVIOUS
  <2>3. window' = [window EXCEPT ![w] = q] /\ member' = member
    BY <1>2, <2>1, <2>2 DEF AskTeam
  <2>4. q.pc = "lock" /\ q.id = id /\ q.current = cur
    BY <2>2 DEF Closed
  <2>5. q \in Window
    BY <2>2, BlankIsASource DEF Closed, Window, NoCustomer
  <2>6. (cur # 0 => cur \in DOMAIN member[id]) /\ InForce(cur, member[id])
    BY <2>1, OpenOneIsOpen DEF DesksAreSound
  <2>7. WindowIsSound(q, member)
    BY <2>4, <2>6 DEF WindowIsSound
  <2> QED
    BY <2>3, <2>4, <2>5, <2>7, WindowChanges
<1> QED
  BY <1>1, <1>2

(* What a save makes of a user's assignments: the current row is closed,   *)
(* the others stay, and another is opened unless the user is cleared.      *)
IsMoved(rows, current, t, at, rows2) ==
    /\ rows2 \in Seq(Assignment)
    /\ Len(rows2) = IF t = Blank THEN Len(rows) ELSE Len(rows) + 1
    /\ \A i \in 1..Len(rows) :
          /\ rows2[i].team = rows[i].team /\ rows2[i].from = rows[i].from
          /\ rows2[i].to = IF i = current THEN at ELSE rows[i].to
    /\ t # Blank => rows2[Len(rows) + 1] = [team |-> t, from |-> at, to |-> Blank]

(* Closing the current row and opening another makes such a table.         *)
LEMMA MovedRows ==
    ASSUME NEW rows \in Seq(Assignment), NEW current, current = 0 \/ current \in DOMAIN rows,
           NEW t \in Teams \cup {Blank}, NEW at \in Nat
    PROVE  IsMoved(rows, current, t, at, Moved(rows, current, t, at))
<1>0. PICK n \in Nat : n = Len(rows)
  OBVIOUS
<1>a. PICK rows2 : rows2 = Moved(rows, current, t, at)
  OBVIOUS
<1>1. DOMAIN rows = 1..n
  BY <1>0
<1>2. PICK closed : closed = IF current = 0 THEN rows ELSE [rows EXCEPT ![current].to = at]
  OBVIOUS
<1>3. /\ closed \in Seq(Assignment) /\ Len(closed) = n
      /\ \A i \in 1..n :
            /\ closed[i].team = rows[i].team /\ closed[i].from = rows[i].from
            /\ closed[i].to = IF i = current THEN at ELSE rows[i].to
  <2>1. CASE current = 0
    BY <1>1, <1>2, <2>1
  <2>2. CASE current # 0
    <3>1. current \in 1..n /\ rows[current] \in Assignment
      BY <1>1, <2>2
    <3>2. PICK x : x = [rows[current] EXCEPT !.to = at]
      OBVIOUS
    <3>3. x \in Assignment /\ x.team = rows[current].team /\ x.from = rows[current].from /\ x.to = at
      BY <3>1, <3>2 DEF Assignment
    <3>4. closed = [rows EXCEPT ![current] = x]
      BY <1>1, <1>2, <2>2, <3>2
    <3>5. closed \in Seq(Assignment) /\ Len(closed) = n
      BY <1>1, <3>1, <3>3, <3>4
    <3>6. \A i \in 1..n : closed[i] = IF i = current THEN x ELSE rows[i]
      BY <1>1, <3>1, <3>4
    <3> QED
      BY <3>3, <3>5, <3>6
  <2> QED
    BY <2>1, <2>2
<1>4. CASE t = Blank
  <2>1. rows2 = closed
    BY <1>a, <1>2, <1>4 DEF Moved
  <2>2. /\ rows2 \in Seq(Assignment) /\ Len(rows2) = n
        /\ \A i \in 1..n :
              /\ rows2[i].team = rows[i].team /\ rows2[i].from = rows[i].from
              /\ rows2[i].to = IF i = current THEN at ELSE rows[i].to
    BY <1>3, <2>1
  <2> QED
    BY <1>0, <1>a, <1>4, <2>2 DEF IsMoved
<1>5. CASE t # Blank
  <2>1. PICK y : y = [team |-> t, from |-> at, to |-> Blank]
    OBVIOUS
  <2>2. y \in Assignment
    BY <1>5, <2>1 DEF Assignment
  <2>3. rows2 = Append(closed, y)
    BY <1>a, <1>2, <1>5, <2>1 DEF Moved
  <2>4. /\ rows2 \in Seq(Assignment) /\ Len(rows2) = n + 1
        /\ \A i \in 1..n : rows2[i] = closed[i]
        /\ rows2[n + 1] = y
    BY <1>3, <2>2, <2>3
  <2>5. \A i \in 1..n :
              /\ rows2[i].team = rows[i].team /\ rows2[i].from = rows[i].from
              /\ rows2[i].to = IF i = current THEN at ELSE rows[i].to
    BY <1>3, <2>4
  <2> QED
    BY <1>0, <1>a, <1>5, <2>1, <2>4, <2>5 DEF IsMoved
<1> QED
  BY <1>4, <1>5

(* A save is not in the past, and after its open row began.                *)
LEMMA SaveTimeIsLater ==
    ASSUME NEW open \in Nat \cup {Blank}, clock \in Nat
    PROVE  /\ SaveTime(open) \in Nat /\ clock <= SaveTime(open)
           /\ open # Blank => open < SaveTime(open)
           /\ open = Blank => SaveTime(open) = clock
  BY Nulls DEF SaveTime

(* What SaveTeam does: the rows it is about, the time, and the result.     *)
SaveIs(q, rows, at, rows2) ==
    /\ q \in Window /\ q.pc = "save" /\ q.id \in Ids
    /\ rows = member[q.id] /\ rows \in Seq(Assignment) /\ PeriodsAllowed(rows)
    /\ q.current \in {0} \cup DOMAIN rows
    /\ q.met \/ InForce(q.current, rows)
    /\ q.current # 0 => rows[q.current].to = Blank
    /\ at \in Nat /\ clock <= at
    /\ q.current # 0 => rows[q.current].from < at
    /\ q.current = 0 => at = clock
    /\ IsMoved(rows, q.current, q.team, at, rows2)
    /\ member' = IF PeriodsAllowed(rows2) THEN [member EXCEPT ![q.id] = rows2] ELSE member

(* SaveTeam is such a save; a desk that met it learns so.                  *)
LEMMA SaveTeamIs ==
    ASSUME DesksAreSound(window, member), clock \in Nat, NEW w \in Desks, SaveTeam(w)
    PROVE  \E q, rows, at, rows2 :
              /\ q = window[w] /\ SaveIs(q, rows, at, rows2)
              /\ window' = [v \in Desks |->
                               IF v = w THEN Closed
                               ELSE IF PeriodsAllowed(rows2) /\ window[v].id = q.id
                                    THEN [window[v] EXCEPT !.met = TRUE]
                               ELSE window[v]]
<1>1. PICK q : q = window[w]
  OBVIOUS
<1>2. q \in Window /\ q.pc = "save" /\ WindowIsSound(q, member)
  BY <1>1 DEF SaveTeam, DesksAreSound
<1>3. /\ q.id \in Ids /\ (q.current # 0 => q.current \in DOMAIN member[q.id])
      /\ q.met \/ InForce(q.current, member[q.id])
      /\ q.current # 0 => member[q.id][q.current].to = Blank
  BY <1>2 DEF WindowIsSound
<1>4. PICK rows : rows = member[q.id]
  OBVIOUS
<1>5. rows \in Seq(Assignment) /\ PeriodsAllowed(rows)
  BY <1>3, <1>4 DEF DesksAreSound
<1>6. PICK open : open = IF q.current = 0 THEN Blank ELSE rows[q.current].from
  OBVIOUS
<1>7. q.current # 0 => rows[q.current] \in Assignment /\ rows[q.current].from \in Nat
  <2>1. q.current # 0 => rows[q.current] \in Assignment
    BY <1>3, <1>4, <1>5
  <2> QED
    BY <2>1 DEF Assignment
<1>8. open \in Nat \cup {Blank} /\ (q.current = 0 <=> open = Blank)
  BY <1>6, <1>7, Nulls
<1>9. PICK at \in Nat : /\ at = SaveTime(open) /\ clock <= at
                        /\ open # Blank => open < at
                        /\ open = Blank => at = clock
  BY <1>8, SaveTimeIsLater
<1>10. PICK rows2 : rows2 = Moved(rows, q.current, q.team, at)
  OBVIOUS
<1>11. /\ member' = IF PeriodsAllowed(rows2) THEN [member EXCEPT ![q.id] = rows2] ELSE member
       /\ window' = [v \in Desks |->
                        IF v = w THEN Closed
                        ELSE IF PeriodsAllowed(rows2) /\ window[v].id = q.id
                             THEN [window[v] EXCEPT !.met = TRUE]
                        ELSE window[v]]
  BY <1>1, <1>4, <1>6, <1>9, <1>10 DEF SaveTeam
<1>12. IsMoved(rows, q.current, q.team, at, rows2)
  <2>1. PICK cur, t : cur = q.current /\ t = q.team
    OBVIOUS
  <2>2. (cur = 0 \/ cur \in DOMAIN rows) /\ t \in Teams \cup {Blank}
    BY <1>2, <1>3, <1>4, <2>1 DEF Window
  <2>3. IsMoved(rows, cur, t, at, Moved(rows, cur, t, at))
    BY <1>5, <2>2, MovedRows
  <2> QED
    BY <1>10, <2>1, <2>3
<1>13. SaveIs(q, rows, at, rows2)
  BY <1>2, <1>3, <1>4, <1>5, <1>6, <1>8, <1>9, <1>11, <1>12 DEF SaveIs
<1> QED
  BY <1>1, <1>11, <1>13

(* A save leaves the other desks' locked rows open, and lets those who are *)
(* at the same user know.                                                  *)
LEMMA SaveStaysSound ==
    ASSUME DesksAreSound(window, member), clock \in Nat, NEW w \in Desks, SaveTeam(w)
    PROVE  DesksAreSound(window', member')
<1>1. PICK q, rows, at, rows2 :
              /\ q = window[w] /\ SaveIs(q, rows, at, rows2)
              /\ window' = [v \in Desks |->
                               IF v = w THEN Closed
                               ELSE IF PeriodsAllowed(rows2) /\ window[v].id = q.id
                                    THEN [window[v] EXCEPT !.met = TRUE]
                               ELSE window[v]]
  BY SaveTeamIs
<1>2. PICK ws : ws = [v \in Desks |-> IF v = w THEN Closed ELSE window[v]]
  OBVIOUS
<1>3. CASE ~ PeriodsAllowed(rows2)
  <2>1. member' = member /\ window' = ws
    BY <1>1, <1>2, <1>3 DEF SaveIs
  <2>2. window' = [window EXCEPT ![w] = Closed]
    BY <1>2, <2>1 DEF DesksAreSound
  <2> QED
    BY <2>1, <2>2, ClosedIsAWindow, WindowChanges
<1>4. CASE PeriodsAllowed(rows2)
  <2>1. /\ q.id \in Ids /\ rows = member[q.id] /\ rows \in Seq(Assignment)
        /\ q.current \in {0} \cup DOMAIN rows /\ q.team \in Teams \cup {Blank} /\ at \in Nat
        /\ IsMoved(rows, q.current, q.team, at, rows2)
        /\ member' = [member EXCEPT ![q.id] = rows2]
        /\ q.pc = "save"
    BY <1>1, <1>4 DEF SaveIs, Window
  <2>2. PICK n \in Nat : n = Len(rows) /\ DOMAIN rows = 1..n
    BY <2>1
  <2>3. /\ rows2 \in Seq(Assignment)
        /\ Len(rows2) = IF q.team = Blank THEN n ELSE n + 1
        /\ \A i \in 1..n : rows2[i].to = IF i = q.current THEN at ELSE rows[i].to
    BY <2>1, <2>2 DEF IsMoved
  <2>4. DOMAIN rows \subseteq DOMAIN rows2
    BY <2>2, <2>3
  <2>5. member \in [Ids -> Seq(Assignment)]
    BY DEF DesksAreSound
  <2>6. member' \in [Ids -> Seq(Assignment)]
        /\ \A id \in Ids : member'[id] = IF id = q.id THEN rows2 ELSE member[id]
    BY <2>1, <2>3, <2>5
  <2>7. \A id \in Ids : PeriodsAllowed(member'[id])
    BY <1>4, <2>6 DEF DesksAreSound
  <2>8. ASSUME NEW v \in Desks, v # w
        PROVE  /\ window'[v] \in Window /\ WindowIsSound(window'[v], member')
               /\ window'[v].pc = window[v].pc /\ window'[v].id = window[v].id
               /\ window'[v].current = window[v].current
    <3>1. PICK p : p = window[v]
      OBVIOUS
    <3>2. p \in Window /\ WindowIsSound(p, member)
      BY <3>1 DEF DesksAreSound
    <3>3. PICK p2 : p2 = IF p.id = q.id THEN [p EXCEPT !.met = TRUE] ELSE p
      OBVIOUS
    <3>4. window'[v] = p2
      BY <1>1, <1>4, <2>8, <3>1, <3>3
    <3>5. /\ p2 \in Window /\ p2.pc = p.pc /\ p2.id = p.id /\ p2.current = p.current
          /\ p2.customer = p.customer /\ p2.src = p.src /\ p2.team = p.team
          /\ p.id = q.id => p2.met = TRUE
          /\ p.id # q.id => p2 = p
      BY <3>2, <3>3 DEF Window
    <3>6. CASE p.id # q.id
      <4>1. p.pc \in {"lock", "save"} => member'[p.id] = member[p.id]
        BY <2>6, <3>2, <3>6 DEF WindowIsSound
      <4> QED
        BY <3>1, <3>2, <3>4, <3>5, <3>6, <4>1 DEF WindowIsSound
    <3>7. CASE p.id = q.id
      <4>1. member'[p.id] = rows2 /\ member[p.id] = rows
        BY <2>1, <2>6, <3>7
      <4>2. p.pc = "save" /\ p.current # 0 => rows2[p.current].to = Blank
        <5>1. HAVE p.pc = "save" /\ p.current # 0
        <5>2. p.current \in 1..n /\ rows[p.current].to = Blank
          BY <2>2, <3>2, <4>1, <5>1 DEF WindowIsSound
        <5>3. p.current # q.current
          BY <1>1, <2>1, <2>8, <3>1, <3>7, <5>1 DEF DesksAreSound
        <5> QED
          BY <2>3, <5>2, <5>3
      <4>3. p2.pc \in {"lock", "save"} /\ p2.current # 0 => p2.current \in DOMAIN member'[p2.id]
        BY <2>4, <3>2, <3>5, <4>1 DEF WindowIsSound
      <4>4. WindowIsSound(p2, member')
        BY <2>1, <3>2, <3>5, <3>7, <4>1, <4>2, <4>3 DEF WindowIsSound
      <4> QED
        BY <3>1, <3>4, <3>5, <4>4
    <3> QED
      BY <3>6, <3>7
  <2>9. window'[w] = Closed
    BY <1>1
  <2>10. \A v \in Desks : window'[v] \in Window /\ WindowIsSound(window'[v], member')
    BY <2>8, <2>9, ClosedIsAWindow
  <2>11. window' \in [Desks -> Window]
    BY <1>1, <2>10
  <2>12. \A v \in Desks : window'[v].pc = "save" => v # w
    BY <2>9, ClosedIsAWindow
  <2>13. ASSUME NEW v \in Desks, NEW x \in Desks, v # x, window'[v].pc = "save",
                window'[x].pc = "save", window'[v].id = window'[x].id, window'[v].current # 0
         PROVE  window'[v].current # window'[x].current
    BY <2>8, <2>12, <2>13 DEF DesksAreSound
  <2> QED
    BY <2>6, <2>7, <2>10, <2>11, <2>13 DEF DesksAreSound
<1> QED
  BY <1>3, <1>4

-----------------------------------------------------------------------------
(* The inductive invariant is one.                                         *)

(* At first there is nothing.                                              *)
LEMMA InitIsSound == Init => IInv
<1> SUFFICES ASSUME Init PROVE IInv
  OBVIOUS
<1> USE DEF Init, DeskInit
<1>1. Fits(customers)
  BY ExistingFit DEF Fits
<1>2. WorkerIsSound(worker, jobs)
  <2>1. jobs = <<>> /\ worker = Resting
    BY DEF UploadsInit
  <2>2. Resting.pc = "rest" /\ DOMAIN Resting = {"pc", "job", "row", "read", "table"}
    BY DEF Resting
  <2> QED
    BY <2>1, <2>2 DEF WorkerIsSound
<1>3. LeadsAreSound(lead, intake)
  <2>1. /\ \A c \in Cust, t \in Teams : lead[c][t] = NoLead
        /\ \A c \in Cust, src \in Sources : intake[c][src] = NoItem
    OBVIOUS
  <2>2. lead \in [Cust -> [Teams -> LeadRec]] /\ intake \in [Cust -> [Sources -> Item]]
    BY Nulls
  <2> QED
    BY <2>1, <2>2, Nulls DEF LeadsAreSound
<1>4. RunIsSound(backfill, lead, intake)
  <2>1. PICK e : e = <<>>
    OBVIOUS
  <2>2. e \in Seq({}) /\ Len(e) = 0
    BY <2>1
  <2>3. Fits(e)
    BY <2>2, TableIsBounded DEF Fits
  <2> QED
    BY <2>1, <2>2, <2>3 DEF RunIsSound, Off
<1>5. RowIsSound(row)
  BY DEF RowIsSound, NoRow
<1>6. DesksAreSound(window, member)
  <2>1. \A w \in Desks : window[w] = Closed
    OBVIOUS
  <2>2. window \in [Desks -> Window] /\ \A w \in Desks : WindowIsSound(window[w], member)
    BY ClosedIsAWindow
  <2>3. PICK e : e = <<>>
    OBVIOUS
  <2>4. e \in Seq(Assignment) /\ DOMAIN e = {}
    BY <2>3
  <2>5. \A id \in Ids : member[id] = e
    BY <2>3
  <2>6. PeriodsAllowed(e)
    BY <2>4 DEF PeriodsAllowed
  <2>7. member \in [Ids -> Seq(Assignment)]
    BY <2>3, <2>4
  <2> QED
    BY <2>1, <2>2, <2>5, <2>6, <2>7, ClosedIsAWindow DEF DesksAreSound
<1>7. inactive \subseteq Teams /\ clock \in 0..MaxTime
  BY TimeIsBounded
<1> QED
  BY <1>1, <1>2, <1>3, <1>4, <1>5, <1>6, <1>7 DEF IInv

(* Every step of the desk leaves leads and intakes sound, and so the run.  *)
LEMMA DeskLeadsStaySound ==
    ASSUME IInv, DeskNext
    PROVE  /\ LeadsAreSound(lead', intake') /\ RunIsSound(backfill', lead', intake')
           /\ Grow(lead, intake, lead', intake')
<1>0. /\ Fits(customers) /\ LeadsAreSound(lead, intake) /\ RunIsSound(backfill, lead, intake)
      /\ RowIsSound(row) /\ DesksAreSound(window, member)
  BY DEF IInv
<1>1. ASSUME LeadsAreSound(lead', intake'), Grow(lead, intake, lead', intake'), backfill' = backfill
      PROVE  RunIsSound(backfill', lead', intake')
  BY <1>0, <1>1, RunStaysSound
<1>2. CASE UNCHANGED <<lead, intake, backfill>>
  BY <1>0, <1>2, NothingIsMade
<1>3. ASSUME NEW w \in Desks, ResolveIntake(w) PROVE LeadsAreSound(lead', intake')
                                                      /\ Grow(lead, intake, lead', intake')
                                                      /\ backfill' = backfill
  <2>1. WindowIsSound(window[w], member)
    BY <1>0 DEF DesksAreSound
  <2>2. backfill' = backfill
    BY <1>3 DEF ResolveIntake
  <2> QED
    BY <1>0, <1>3, <2>1, <2>2, IntakeIsResolved
<1>4. CASE EnsureLeadOrIntake
  <2>1. backfill' = backfill
    BY <1>4 DEF EnsureLeadOrIntake
  <2> QED
    BY <1>0, <1>1, <1>4, <2>1, RowIsCommitted
<1>5. CASE BackfillCustomer
  BY <1>0, <1>5, CustomerIsServed
<1>6. CASE BackfillQueue
  BY <1>0, <1>6, ChunkEnds
<1>7. ASSUME lead' = lead, intake' = intake, RunIsSound(backfill', lead, intake)
      PROVE  /\ LeadsAreSound(lead', intake') /\ RunIsSound(backfill', lead', intake')
             /\ Grow(lead, intake, lead', intake')
  BY <1>0, <1>7, NothingIsMade
<1>8. ASSUME NEW t \in Teams \cup {Blank}, StartBackfill(t)
      PROVE  lead' = lead /\ intake' = intake /\ RunIsSound(backfill', lead, intake)
  <2>1. lead' = lead /\ intake' = intake
    BY <1>8 DEF StartBackfill
  <2> QED
    BY <1>0, <1>8, <2>1, RunBegins
<1>9. CASE BackfillChunk
  <2>1. lead' = lead /\ intake' = intake
    BY <1>9 DEF BackfillChunk
  <2> QED
    BY <1>0, <1>7, <1>9, <2>1, ChunkBegins
<1>10. CASE BackfillEnds \/ BackfillDies
  <2>1. lead' = lead /\ intake' = intake
    BY <1>10 DEF BackfillEnds, BackfillDies
  <2> QED
    BY <1>0, <1>7, <1>10, <2>1, RunEnds
<1>11. ASSUME NEW w \in Desks, LockTeam(w) \/ SaveTeam(w) PROVE UNCHANGED <<lead, intake, backfill>>
  BY <1>11 DEF LockTeam, SaveTeam
<1>12. ASSUME NEW w \in Desks, NEW c \in DOMAIN customers, NEW src \in Sources, NEW t \in Teams,
              OpenIntake(w, c, src, t)
       PROVE  UNCHANGED <<lead, intake, backfill>>
  BY <1>12 DEF OpenIntake
<1>13. ASSUME NEW c \in DOMAIN customers, NEW src \in Sources, NEW t \in Teams \cup {Blank}, ReadRow(c, src, t)
       PROVE  UNCHANGED <<lead, intake, backfill>>
  BY <1>13 DEF ReadRow
<1>14. ASSUME NEW w \in Desks, NEW id \in Ids, NEW t \in Teams \cup {Blank}, AskTeam(w, id, t)
       PROVE  UNCHANGED <<lead, intake, backfill>>
  BY <1>14 DEF AskTeam
<1>15. ASSUME NEW t \in Teams, CloseTeam(t) PROVE UNCHANGED <<lead, intake, backfill>>
  BY <1>15 DEF CloseTeam
<1>16. Tick => UNCHANGED <<lead, intake, backfill>>
  BY DEF Tick
<1> QED
  BY <1>1, <1>2, <1>3, <1>4, <1>5, <1>6, <1>7, <1>8, <1>9, <1>10, <1>11, <1>12, <1>13, <1>14, <1>15, <1>16
     DEF DeskNext

(* Every step of the desk leaves windows and assignments sound.            *)
LEMMA DesksStaySound ==
    ASSUME IInv, DeskNext
    PROVE  DesksAreSound(window', member')
<1>0. /\ LeadsAreSound(lead, intake) /\ DesksAreSound(window, member) /\ clock \in Nat
      /\ DOMAIN customers \subseteq Cust
  BY RowsAreCustomers, TimeIsBounded DEF IInv
<1>1. CASE UNCHANGED <<window, member>>
  BY <1>0, <1>1
<1>2. ASSUME NEW w \in Desks, ResolveIntake(w) PROVE DesksAreSound(window', member')
  <2>1. member' = member
    BY <1>2 DEF ResolveIntake
  <2> QED
    BY <1>0, <1>2, <2>1, IntakeWindows
<1>3. ASSUME NEW w \in Desks, NEW c \in DOMAIN customers, NEW src \in Sources, NEW t \in Teams,
             OpenIntake(w, c, src, t)
      PROVE  DesksAreSound(window', member')
  <2>1. member' = member
    BY <1>3 DEF OpenIntake
  <2> QED
    BY <1>0, <1>3, <2>1, IntakeWindows
<1>4. ASSUME NEW w \in Desks, LockTeam(w) PROVE DesksAreSound(window', member')
  BY <1>0, <1>4, RowIsReadAndLocked
<1>5. ASSUME NEW w \in Desks, NEW id \in Ids, NEW t \in Teams \cup {Blank}, AskTeam(w, id, t)
      PROVE  DesksAreSound(window', member')
  BY <1>0, <1>5, RowIsReadAndLocked
<1>6. ASSUME NEW w \in Desks, SaveTeam(w) PROVE DesksAreSound(window', member')
  BY <1>0, <1>6, SaveStaysSound
<1>7. ASSUME NEW c \in DOMAIN customers, NEW src \in Sources, NEW t \in Teams \cup {Blank}, ReadRow(c, src, t)
      PROVE  UNCHANGED <<window, member>>
  BY <1>7 DEF ReadRow
<1>8. ASSUME NEW t \in Teams, CloseTeam(t) PROVE UNCHANGED <<window, member>>
  BY <1>8 DEF CloseTeam
<1>9. ASSUME NEW t \in Teams \cup {Blank}, StartBackfill(t) PROVE UNCHANGED <<window, member>>
  BY <1>9 DEF StartBackfill
<1>10. EnsureLeadOrIntake \/ BackfillChunk \/ BackfillCustomer \/ BackfillQueue \/ BackfillEnds
       \/ BackfillDies \/ Tick => UNCHANGED <<window, member>>
  BY DEF EnsureLeadOrIntake, BackfillChunk, BackfillCustomer, BackfillQueue, BackfillEnds,
         BackfillDies, Tick
<1> QED
  BY <1>1, <1>2, <1>3, <1>4, <1>5, <1>6, <1>7, <1>8, <1>9, <1>10 DEF DeskNext

(* The row read, the closed teams, the clock and the table.                *)
LEMMA RestStaysSound ==
    ASSUME IInv, DeskNext
    PROVE  /\ RowIsSound(row') /\ inactive' \subseteq Teams /\ clock' \in 0..MaxTime
           /\ customers' = customers
<1>0. /\ RowIsSound(row) /\ inactive \subseteq Teams /\ clock \in 0..MaxTime /\ MaxTime \in Nat
      /\ DOMAIN customers \subseteq Cust
  BY RowsAreCustomers, TimeIsBounded DEF IInv
<1>1. CASE UNCHANGED <<row, inactive, clock, customers>>
  BY <1>0, <1>1
<1>2. ASSUME NEW c \in DOMAIN customers, NEW src \in Sources, NEW t \in Teams \cup {Blank}, ReadRow(c, src, t)
      PROVE  RowIsSound(row') /\ UNCHANGED <<inactive, clock, customers>>
  <2>1. c \in Cust
    BY <1>0
  <2>2. row'.pc = "write" /\ row'.customer = c /\ row'.src = src /\ row'.team = t
    BY <1>2 DEF ReadRow
  <2>3. UNCHANGED <<inactive, clock, customers>>
    BY <1>2 DEF ReadRow
  <2> QED
    BY <2>1, <2>2, <2>3 DEF RowIsSound
<1>3. CASE EnsureLeadOrIntake
  <2>1. row' = NoRow /\ UNCHANGED <<inactive, clock, customers>>
    BY <1>3 DEF EnsureLeadOrIntake
  <2>2. RowIsSound(NoRow)
    BY DEF RowIsSound, NoRow
  <2> QED
    BY <1>0, <2>1, <2>2
<1>4. ASSUME NEW t \in Teams, CloseTeam(t)
      PROVE  inactive' \subseteq Teams /\ UNCHANGED <<row, clock, customers>>
  BY <1>0, <1>4 DEF CloseTeam
<1>5. CASE Tick
  BY <1>0, <1>5 DEF Tick
<1>6. ASSUME NEW w \in Desks, ResolveIntake(w) \/ LockTeam(w) \/ SaveTeam(w)
      PROVE  UNCHANGED <<row, inactive, clock, customers>>
  BY <1>6 DEF ResolveIntake, LockTeam, SaveTeam
<1>7. ASSUME NEW w \in Desks, NEW c \in DOMAIN customers, NEW src \in Sources, NEW t \in Teams,
             OpenIntake(w, c, src, t)
      PROVE  UNCHANGED <<row, inactive, clock, customers>>
  BY <1>7 DEF OpenIntake
<1>8. ASSUME NEW w \in Desks, NEW id \in Ids, NEW t \in Teams \cup {Blank}, AskTeam(w, id, t)
      PROVE  UNCHANGED <<row, inactive, clock, customers>>
  BY <1>8 DEF AskTeam
<1>9. ASSUME NEW t \in Teams \cup {Blank}, StartBackfill(t)
      PROVE  UNCHANGED <<row, inactive, clock, customers>>
  BY <1>9 DEF StartBackfill
<1>10. BackfillChunk \/ BackfillCustomer \/ BackfillQueue \/ BackfillEnds \/ BackfillDies
       => UNCHANGED <<row, inactive, clock, customers>>
  BY DEF BackfillChunk, BackfillCustomer, BackfillQueue, BackfillEnds, BackfillDies
<1> QED
  BY <1>0, <1>1, <1>2, <1>3, <1>4, <1>5, <1>6, <1>7, <1>8, <1>9, <1>10 DEF DeskNext

(* Every step keeps the invariant.                                         *)
LEMMA NextIsSound == IInv /\ [Next]_vars => IInv'
<1> SUFFICES ASSUME IInv, [Next]_vars PROVE IInv'
  OBVIOUS
<1>1. CASE UNCHANGED vars
  BY <1>1 DEF vars, uploadVars, deskVars, IInv
<1>2. CASE UploadsNext /\ UNCHANGED deskVars
  <2>1. Fits(customers') /\ WorkerIsSound(worker', jobs')
    BY <1>2, UploadsFit, UploadsWork DEF IInv
  <2>2. UNCHANGED <<lead, intake, inactive, backfill, row, window, member, clock>>
    BY <1>2 DEF deskVars
  <2> QED
    BY <2>1, <2>2 DEF IInv
<1>3. CASE DeskNext /\ UNCHANGED uploadVars
  <2>1. LeadsAreSound(lead', intake') /\ RunIsSound(backfill', lead', intake')
    BY <1>3, DeskLeadsStaySound
  <2>2. DesksAreSound(window', member')
    BY <1>3, DesksStaySound
  <2>3. RowIsSound(row') /\ inactive' \subseteq Teams /\ clock' \in 0..MaxTime /\ customers' = customers
    BY <1>3, RestStaysSound
  <2>4. worker' = worker /\ jobs' = jobs
    BY <1>3 DEF uploadVars
  <2>5. Fits(customers') /\ WorkerIsSound(worker', jobs')
    BY <2>3, <2>4 DEF IInv
  <2> QED
    BY <2>1, <2>2, <2>3, <2>5 DEF IInv
<1> QED
  BY <1>1, <1>2, <1>3 DEF Next

-----------------------------------------------------------------------------
(* What follows from it.                                                   *)

(* The invariant holds of every behaviour.                                 *)
LEMMA AlwaysSound == Spec => []IInv
<1>1. Init => IInv
  BY InitIsSound
<1>2. IInv /\ [Next]_vars => IInv'
  BY NextIsSound
<1> QED
  BY <1>1, <1>2, PTL DEF Spec

(* Whoever turns customers into leads meets the others' leads: an intake   *)
(* is converted once, to a lead that there is, and a lead has the one open *)
(* segment its maker gave it (intake/services.py, backfill_leads.py,       *)
(* importv2/services/commit.py).                                           *)
THEOREM LeadsStayMadeOnce == Spec => []LeadsAreMadeOnce
<1>1. ASSUME IInv PROVE LeadsAreMadeOnce
  <2>1. /\ LeadsAreSound(lead, intake) /\ RunIsSound(backfill, lead, intake) /\ RowIsSound(row)
        /\ DesksAreSound(window, member) /\ inactive \subseteq Teams /\ clock \in 0..MaxTime
    BY <1>1 DEF IInv
  <2>2. ASSUME NEW id \in Ids, NEW i \in DOMAIN member[id]
        PROVE  /\ member[id][i].team \in Teams
               /\ member[id][i].to = Blank \/ member[id][i].from < member[id][i].to
    <3>1. member[id] \in Seq(Assignment) /\ PeriodsAllowed(member[id])
      BY <2>1 DEF DesksAreSound
    <3>2. member[id][i] \in Assignment
      BY <3>1
    <3> QED
      BY <3>1, <3>2 DEF Assignment, PeriodsAllowed
  <2>3. \A w \in Desks : window[w].pc \in {"off", "resolve", "lock", "save"}
    <3>1. \A w \in Desks : window[w] \in Window
      BY <2>1 DEF DesksAreSound
    <3> QED
      BY <3>1 DEF Window
  <2>4. lead \in [Cust -> [Teams -> LeadRec]] /\ intake \in [Cust -> [Sources -> Item]]
    BY <2>1 DEF LeadsAreSound
  <2>5. /\ backfill.pc \in {"off", "chunk", "rows", "queue", "done"}
        /\ backfill.pos \in 0..Len(backfill.todo) /\ backfill.end \in 0..Len(backfill.todo)
        /\ row.pc \in {"off", "write"}
    BY <2>1 DEF RunIsSound, RowIsSound
  <2>6. DeskTypeOK
    BY <2>1, <2>2, <2>3, <2>4, <2>5 DEF DeskTypeOK, LeadRec, Item
  <2>7. ConvertedOnce
    BY <2>1 DEF LeadsAreSound, ConvertedOnce
  <2>8. OneOpenSegment
    BY <2>1 DEF LeadsAreSound, LeadIsMade, OneOpenSegment
  <2> QED
    BY <2>6, <2>7, <2>8 DEF LeadsAreMadeOnce
<1> QED
  BY <1>1, AlwaysSound, PTL

(* A run of the backfill command that has ended has left no customer of    *)
(* its start without a lead or an intake, whatever died before it and came *)
(* in between (backfill_leads.py).                                         *)
THEOREM BackfillMissesNobody == Spec => []BackfillCovers
<1>1. ASSUME IInv PROVE BackfillCovers
  <2>1. RunIsSound(backfill, lead, intake)
    BY <1>1 DEF IInv
  <2>2. DOMAIN backfill.todo = 1..Len(backfill.todo)
    BY <2>1, RowsAreCustomers DEF RunIsSound
  <2>3. backfill.pc = "done" => \A c \in 1..backfill.pos : Has(lead, c) \/ IsQueued(intake, c)
    BY <2>1 DEF RunIsSound
  <2>4. backfill.pc = "done" => backfill.pos = Len(backfill.todo)
    BY <2>1 DEF RunIsSound
  <2> QED
    BY <2>2, <2>3, <2>4 DEF BackfillCovers, Has, IsQueued, HasLead, HasItem
<1> QED
  BY <1>1, AlwaysSound, PTL

(* Only a customer's own step moves the run on.                            *)
LEMMA OnlyCustomersMoveTheRun ==
    ASSUME RunIsSound(backfill, lead, intake), Next, backfill'.pos > backfill.pos
    PROVE  BackfillCustomer
<1>1. backfill.pos \in Nat
  <2>1. Len(backfill.todo) \in Nat /\ backfill.pos \in 0..Len(backfill.todo)
    BY RowsAreCustomers DEF RunIsSound
  <2> QED
    BY <2>1
<1>2. backfill'.pos # backfill.pos /\ backfill'.pos # 0
  <2>1. PICK p : p = backfill'.pos
    OBVIOUS
  <2>2. p > backfill.pos
    BY <2>1
  <2>3. p # backfill.pos /\ p # 0
    BY <1>1, <2>2
  <2> QED
    BY <2>1, <2>3
<1>3. backfill' # backfill
  BY <1>2
<1>4. ~ UploadsNext \/ ~ UNCHANGED deskVars
  BY <1>3 DEF deskVars
<1>5. \A t : ~ StartBackfill(t)
  BY <1>2 DEF StartBackfill, Off
<1>6. ~ BackfillDies
  BY <1>2 DEF BackfillDies, Off
<1>7. ~ BackfillChunk /\ ~ BackfillQueue /\ ~ BackfillEnds
  <2>1. PICK b : b = backfill
    OBVIOUS
  <2>2. \A pc : [b EXCEPT !.pc = pc].pos = b.pos
    BY <2>1 DEF RunIsSound
  <2>4. ~ BackfillQueue /\ ~ BackfillEnds
    BY <1>2, <2>1, <2>2 DEF BackfillQueue, BackfillEnds
  <2>5. ~ BackfillChunk
    <3>1. SUFFICES ASSUME BackfillChunk PROVE FALSE
      OBVIOUS
    <3>2. PICK end : end = IF b.pos + ChunkSize < Len(b.todo) THEN b.pos + ChunkSize ELSE Len(b.todo)
      OBVIOUS
    <3>3. PICK found : found = {c \in (b.pos + 1)..end : HasLead(c)}
      OBVIOUS
    <3>4. backfill' = [b EXCEPT !.pc = "rows", !.end = end, !.queue = {}, !.found = found]
      BY <2>1, <3>1, <3>2, <3>3 DEF BackfillChunk
    <3>5. PICK b2 : b2 = [b EXCEPT !.pc = "rows", !.end = end, !.queue = {}, !.found = found]
      OBVIOUS
    <3>6. b2.pos = b.pos
      BY <2>1, <3>5 DEF RunIsSound
    <3> QED
      BY <1>2, <2>1, <3>4, <3>5, <3>6
  <2> QED
    BY <2>4, <2>5
<1>8. DeskNext
  BY <1>4 DEF Next
<1> QED
  BY <1>3, <1>5, <1>6, <1>7, <1>8
     DEF DeskNext, CloseTeam, OpenIntake, ResolveIntake, LockTeam, SaveTeam, ReadRow,
         EnsureLeadOrIntake, AskTeam, Tick

(* Run again, the command makes no second lead for a customer who had one  *)
(* when it started, even if her caretaker has moved to another team: she   *)
(* is among those the chunk has found (backfill_leads.py).                 *)
THEOREM RerunsAddNoLead == Spec => RerunAddsNoLead
<1>1. ASSUME IInv, [Next]_vars
      PROVE  [backfill'.pos > backfill.pos => \A c \in backfill.had : lead'[c] = lead[c]]_<<lead, backfill>>
  <2>1. LeadsAreSound(lead, intake) /\ RunIsSound(backfill, lead, intake)
    BY <1>1 DEF IInv
  <2>2. CASE UNCHANGED <<lead, backfill>>
    BY <2>2
  <2>3. CASE ~ UNCHANGED <<lead, backfill>>
    <3>1. Next
      BY <1>1, <2>3 DEF vars, deskVars
    <3>2. backfill'.pos > backfill.pos => BackfillCustomer
      BY <2>1, <3>1, OnlyCustomersMoveTheRun
    <3> QED
      BY <2>1, <3>2, CustomerIsServed
  <2> QED
    BY <2>2, <2>3
<1> QED
  BY <1>1, AlwaysSound, PTL DEF Spec, RerunAddsNoLead

-----------------------------------------------------------------------------
(* Changes of team.                                                        *)

(* A row that covers an instant.                                           *)
Covers(r, at) == r.from <= at /\ (r.to = Blank \/ at < r.to)

(* Of rows that do not overlap one at most covers an instant, and it tells *)
(* the team.                                                               *)
LEMMA TheRowTellsTheTeam ==
    ASSUME NEW rows \in Seq(Assignment), PeriodsAllowed(rows), NEW at \in Nat
    PROVE  /\ \A i \in DOMAIN rows : Covers(rows[i], at) => TeamAt(rows, at) = rows[i].team
           /\ (\A i \in DOMAIN rows : ~ Covers(rows[i], at)) => TeamAt(rows, at) = Blank
<1> DEFINE Then == {i \in DOMAIN rows : Covers(rows[i], at)}
<1>1. TeamAt(rows, at) = IF Then = {} THEN Blank
                         ELSE rows[CHOOSE i \in Then : \A j \in Then : rows[j].from <= rows[i].from].team
  BY DEF TeamAt, Covers
<1>2. \A i \in DOMAIN rows : rows[i] \in Assignment
  OBVIOUS
<1>3. \A i \in DOMAIN rows : rows[i].from \in Nat /\ rows[i].to \in Nat \cup {Blank}
  BY <1>2 DEF Assignment
<1>4. ASSUME NEW i \in Then, NEW j \in Then PROVE i = j
  <2>1. SUFFICES ASSUME i # j PROVE FALSE
    OBVIOUS
  <2>2. ~ Overlap(rows[i], rows[j])
    BY <2>1 DEF PeriodsAllowed
  <2>3. PICK a, b : a = rows[i] /\ b = rows[j]
    OBVIOUS
  <2>4. /\ a.from \in Nat /\ b.from \in Nat /\ a.to \in Nat \cup {Blank} /\ b.to \in Nat \cup {Blank}
        /\ a.from <= at /\ (a.to = Blank \/ at < a.to)
        /\ b.from <= at /\ (b.to = Blank \/ at < b.to)
    BY <1>3, <2>3 DEF Covers
  <2>5. (a.to = Blank \/ b.from < a.to) /\ (b.to = Blank \/ a.from < b.to)
    BY <2>4, Nulls
  <2> QED
    BY <2>2, <2>3, <2>5 DEF Overlap
<1>5. ASSUME NEW i \in Then PROVE TeamAt(rows, at) = rows[i].team
  <2>1. PICK k : k = CHOOSE x \in Then : \A j \in Then : rows[j].from <= rows[x].from
    OBVIOUS
  <2>2. rows[i].from <= rows[i].from
    BY <1>3
  <2>3. \A j \in Then : rows[j].from <= rows[i].from
    BY <1>4, <2>2
  <2>4. k \in Then
    BY <2>1, <2>3
  <2>5. k = i
    BY <1>4, <2>4
  <2> QED
    BY <1>1, <2>1, <2>5
<1> QED
  BY <1>1, <1>5

(* A save changes no instant before it.                                    *)
LEMMA PastStays ==
    ASSUME DesksAreSound(window, member), clock \in Nat, NEW w \in Desks, SaveTeam(w),
           NEW id \in Ids, NEW at \in 0..(clock - 1)
    PROVE  TeamAt(member'[id], at) = TeamAt(member[id], at)
<1>1. PICK q, rows, then, rows2 : SaveIs(q, rows, then, rows2)
  BY SaveTeamIs
<1>2. member \in [Ids -> Seq(Assignment)]
  BY DEF DesksAreSound
<1>3. CASE member'[id] = member[id]
  BY <1>3
<1>4. CASE member'[id] # member[id]
  <2>1. PeriodsAllowed(rows2) /\ member' = [member EXCEPT ![q.id] = rows2]
    BY <1>1, <1>4 DEF SaveIs
  <2>2. id = q.id /\ member'[id] = rows2 /\ member[id] = rows
    BY <1>1, <1>2, <1>4, <2>1 DEF SaveIs
  <2>3. /\ rows \in Seq(Assignment) /\ PeriodsAllowed(rows)
        /\ q.current \in {0} \cup DOMAIN rows
        /\ q.current # 0 => rows[q.current].to = Blank
        /\ then \in Nat /\ clock <= then
        /\ IsMoved(rows, q.current, q.team, then, rows2)
    BY <1>1 DEF SaveIs
  <2>4. PICK n \in Nat : n = Len(rows) /\ DOMAIN rows = 1..n
    BY <2>3
  <2>5. /\ rows2 \in Seq(Assignment)
        /\ Len(rows2) = IF q.team = Blank THEN n ELSE n + 1
        /\ \A i \in 1..n :
              /\ rows2[i].team = rows[i].team /\ rows2[i].from = rows[i].from
              /\ rows2[i].to = IF i = q.current THEN then ELSE rows[i].to
        /\ q.team # Blank => rows2[n + 1] = [team |-> q.team, from |-> then, to |-> Blank]
    BY <2>3, <2>4 DEF IsMoved
  <2>6. at \in Nat /\ at < then
    BY <2>3
  <2>7. ASSUME NEW i \in 1..n PROVE Covers(rows2[i], at) <=> Covers(rows[i], at)
    <3>1. CASE i # q.current
      BY <2>5, <3>1 DEF Covers
    <3>2. CASE i = q.current
      <4>1. i # 0
        BY <2>4
      <4>2. rows[i].to = Blank /\ rows2[i].to = then /\ rows2[i].from = rows[i].from
        BY <2>3, <2>5, <3>2, <4>1
      <4> QED
        BY <2>6, <4>2 DEF Covers
    <3> QED
      BY <3>1, <3>2
  <2>8. ASSUME NEW i \in DOMAIN rows2, Covers(rows2[i], at) PROVE i \in 1..n
    <3>1. i \in 1..n \/ (q.team # Blank /\ i = n + 1)
      <4>1. DOMAIN rows2 = 1..Len(rows2)
        BY <2>5
      <4> QED
        BY <2>5, <4>1
    <3>2. q.team # Blank /\ i = n + 1 => rows2[i].from = then
      BY <2>5
    <3> QED
      BY <2>3, <2>6, <2>8, <3>1, <3>2 DEF Covers
  <2>9. \A i \in 1..n : i \in DOMAIN rows2
    <3>1. DOMAIN rows2 = 1..Len(rows2)
      BY <2>5
    <3> QED
      BY <2>5, <3>1
  <2>10. CASE \E i \in DOMAIN rows : Covers(rows[i], at)
    <3>1. PICK i \in 1..n : Covers(rows[i], at)
      BY <2>4, <2>10
    <3>2. TeamAt(rows, at) = rows[i].team
      BY <2>3, <2>4, <2>6, <3>1, TheRowTellsTheTeam
    <3>3. TeamAt(rows2, at) = rows2[i].team
      BY <2>1, <2>5, <2>6, <2>7, <2>9, <3>1, TheRowTellsTheTeam
    <3> QED
      BY <2>2, <2>5, <3>2, <3>3
  <2>11. CASE \A i \in DOMAIN rows : ~ Covers(rows[i], at)
    <3>1. TeamAt(rows, at) = Blank
      BY <2>3, <2>6, <2>11, TheRowTellsTheTeam
    <3>2. \A i \in DOMAIN rows2 : ~ Covers(rows2[i], at)
      BY <2>4, <2>7, <2>8, <2>11
    <3>3. TeamAt(rows2, at) = Blank
      BY <2>1, <2>5, <2>6, <3>2, TheRowTellsTheTeam
    <3> QED
      BY <2>2, <3>1, <3>3
  <2> QED
    BY <2>10, <2>11
<1> QED
  BY <1>3, <1>4

(* A save that knows the open row, or that nothing lies ahead, is allowed. *)
LEMMA SaveIsAllowed ==
    ASSUME NEW q, NEW rows, NEW at, NEW rows2, SaveIs(q, rows, at, rows2), clock \in Nat, ~ q.met,
           q.current # 0 \/ \A i \in DOMAIN rows : rows[i].to <= clock
    PROVE  PeriodsAllowed(rows2) /\ TeamNow(rows2) = q.team
<1>1. PICK cur, t : cur = q.current /\ t = q.team
  OBVIOUS
<1>2. /\ rows \in Seq(Assignment) /\ PeriodsAllowed(rows)
      /\ cur \in {0} \cup DOMAIN rows /\ t \in Teams \cup {Blank}
      /\ InForce(cur, rows)
      /\ cur # 0 => rows[cur].to = Blank
      /\ at \in Nat /\ clock <= at
      /\ cur # 0 => rows[cur].from < at
      /\ cur = 0 => at = clock
      /\ IsMoved(rows, cur, t, at, rows2)
  BY <1>1 DEF SaveIs, Window
<1>3. PICK n \in Nat : n = Len(rows) /\ DOMAIN rows = 1..n
  BY <1>2
<1>4. /\ rows2 \in Seq(Assignment)
      /\ Len(rows2) = IF t = Blank THEN n ELSE n + 1
      /\ \A i \in 1..n :
            /\ rows2[i].team = rows[i].team /\ rows2[i].from = rows[i].from
            /\ rows2[i].to = IF i = cur THEN at ELSE rows[i].to
      /\ t # Blank => rows2[n + 1] = [team |-> t, from |-> at, to |-> Blank]
  BY <1>2, <1>3 DEF IsMoved
<1>5. \A i \in 1..n : rows[i].from \in Nat /\ rows[i].to \in Nat \cup {Blank}
  <2>1. \A i \in 1..n : rows[i] \in Assignment
    BY <1>2, <1>3
  <2> QED
    BY <2>1 DEF Assignment
(* Every row of before ends by the time of the save.                       *)
<1>6. ASSUME NEW i \in 1..n PROVE rows2[i].to \in Nat /\ rows2[i].to <= at /\ rows2[i].from < rows2[i].to
  <2>1. PICK a : a = rows[i]
    OBVIOUS
  <2>2. a.from \in Nat /\ a.to \in Nat \cup {Blank} /\ (a.to = Blank \/ a.from < a.to)
    BY <1>2, <1>3, <1>5, <2>1 DEF PeriodsAllowed
  <2>3. CASE cur = 0
    <3>1. a.to # Blank
      BY <1>2, <1>3, <2>1, <2>3 DEF InForce
    <3>2. a.to <= clock
      BY <1>1, <1>3, <2>1, <2>3
    <3>3. rows2[i].to = a.to /\ rows2[i].from = a.from
      BY <1>3, <1>4, <2>1, <2>3
    <3> QED
      BY <1>2, <2>2, <2>3, <3>1, <3>2, <3>3
  <2>4. CASE cur # 0 /\ i = cur
    <3>1. rows2[i].to = at /\ rows2[i].from = a.from /\ a.from < at
      BY <1>2, <1>4, <2>1, <2>4
    <3> QED
      BY <1>2, <3>1
  <2>5. CASE cur # 0 /\ i # cur
    <3>1. PICK b : b = rows[cur] /\ cur \in 1..n
      BY <1>2, <1>3, <2>5
    <3>2. b.to = Blank /\ b.from < at /\ b.from \in Nat
      BY <1>2, <1>5, <2>5, <3>1
    <3>3. ~ Overlap(b, a)
      BY <1>2, <1>3, <2>1, <2>5, <3>1 DEF PeriodsAllowed
    <3>4. a.to # Blank /\ ~ (b.from < a.to)
      BY <3>2, <3>3 DEF Overlap
    <3>5. rows2[i].to = a.to /\ rows2[i].from = a.from
      BY <1>4, <2>1, <2>5
    <3>6. a.to \in Nat /\ a.to <= at /\ a.from < a.to
      BY <1>2, <2>2, <3>2, <3>4
    <3> QED
      BY <3>5, <3>6
  <2> QED
    BY <2>3, <2>4, <2>5
<1>7. \A i \in DOMAIN rows2 : i \in 1..n \/ (t # Blank /\ i = n + 1)
  <2>1. DOMAIN rows2 = 1..Len(rows2)
    BY <1>4
  <2> QED
    BY <1>4, <2>1
<1>8. t # Blank => /\ n + 1 \in DOMAIN rows2 /\ rows2[n + 1].team = t
                   /\ rows2[n + 1].from = at /\ rows2[n + 1].to = Blank
  <2>1. DOMAIN rows2 = 1..Len(rows2)
    BY <1>4
  <2> QED
    BY <1>4, <2>1
<1>9. ASSUME NEW i \in 1..n, NEW j \in 1..n, i # j PROVE ~ Overlap(rows2[i], rows2[j])
  <2>1. PICK a, b : a = rows[i] /\ b = rows[j]
    OBVIOUS
  <2>2. ~ Overlap(a, b) /\ ~ Overlap(b, a)
    BY <1>2, <1>3, <1>9, <2>1 DEF PeriodsAllowed
  <2>3. /\ a.from \in Nat /\ b.from \in Nat /\ a.to \in Nat \cup {Blank} /\ b.to \in Nat \cup {Blank}
    BY <1>5, <2>1
  <2>4. PICK c, d : c = rows2[i] /\ d = rows2[j]
    OBVIOUS
  <2>5. /\ c.from = a.from /\ d.from = b.from /\ c.to \in Nat /\ d.to \in Nat
        /\ a.to = Blank \/ a.to = c.to
        /\ b.to = Blank \/ b.to = d.to
    <3>1. /\ c.from = a.from /\ c.to = IF i = cur THEN at ELSE a.to
          /\ d.from = b.from /\ d.to = IF j = cur THEN at ELSE b.to
      BY <1>4, <2>1, <2>4
    <3>2. c.to \in Nat /\ d.to \in Nat
      BY <1>6, <2>4
    <3>3. i # 0 /\ j # 0
      BY <1>3
    <3>4. (i = cur => a.to = Blank) /\ (j = cur => b.to = Blank)
      BY <1>2, <2>1, <3>3
    <3> QED
      BY <3>1, <3>2, <3>4
  <2>6. ~ Overlap(c, d)
    BY <2>2, <2>3, <2>5, Nulls DEF Overlap
  <2> QED
    BY <2>4, <2>6
<1>10. ASSUME NEW i \in 1..n, t # Blank
       PROVE  ~ Overlap(rows2[i], rows2[n + 1]) /\ ~ Overlap(rows2[n + 1], rows2[i])
  <2>1. PICK c, d : c = rows2[i] /\ d = rows2[n + 1]
    OBVIOUS
  <2>2. c.to \in Nat /\ c.to <= at /\ d.from = at /\ d.to = Blank
    BY <1>6, <1>8, <1>10, <2>1
  <2>3. c.to # Blank /\ ~ (d.from < c.to)
    BY <1>2, <2>2, Nulls
  <2> QED
    BY <2>1, <2>3 DEF Overlap
<1>11. PeriodsAllowed(rows2)
  <2>1. ASSUME NEW i \in DOMAIN rows2 PROVE rows2[i].to = Blank \/ rows2[i].from < rows2[i].to
    BY <1>6, <1>7, <1>8
  <2>2. ASSUME NEW i \in DOMAIN rows2, NEW j \in DOMAIN rows2, i # j PROVE ~ Overlap(rows2[i], rows2[j])
    <3>1. CASE i \in 1..n /\ j \in 1..n
      BY <1>9, <2>2, <3>1
    <3>2. CASE i \in 1..n /\ j \notin 1..n
      <4>1. t # Blank /\ j = n + 1
        BY <1>7, <3>2
      <4> QED
        BY <1>10, <3>2, <4>1
    <3>3. CASE i \notin 1..n
      <4>1. t # Blank /\ i = n + 1
        BY <1>7, <3>3
      <4>2. j \in 1..n
        BY <1>7, <2>2, <4>1
      <4> QED
        BY <1>10, <4>1, <4>2
    <3> QED
      BY <3>1, <3>2, <3>3
  <2> QED
    BY <2>1, <2>2 DEF PeriodsAllowed
<1>12. TeamNow(rows2) = t
  <2> DEFINE Open == {i \in DOMAIN rows2 : rows2[i].to = Blank}
  <2>1. \A i \in Open : t # Blank /\ i = n + 1
    BY <1>6, <1>7, Nulls
  <2>2. CASE t = Blank
    <3>1. Open = {}
      BY <2>1, <2>2
    <3>2. OpenOne(rows2) = 0
      BY <3>1 DEF OpenOne
    <3> QED
      BY <2>2, <3>2 DEF TeamNow
  <2>3. CASE t # Blank
    <3>1. n + 1 \in Open
      BY <1>8, <2>3
    <3>2. PICK k : k = CHOOSE i \in Open : TRUE
      OBVIOUS
    <3>3. k \in Open
      BY <3>1, <3>2
    <3>4. k = n + 1 /\ n + 1 # 0
      BY <1>3, <2>1, <3>3
    <3>5. OpenOne(rows2) = k
      BY <3>1, <3>2 DEF OpenOne
    <3> QED
      BY <1>8, <2>3, <3>4, <3>5 DEF TeamNow
  <2> QED
    BY <2>2, <2>3
<1> QED
  BY <1>1, <1>11, <1>12

(* Only its own save takes a desk that saves out of it.                    *)
LEMMA OnlySavesEndSaves ==
    ASSUME DesksAreSound(window, member), clock \in Nat, Next,
           NEW w \in Desks, window[w].pc = "save", window'[w].pc = "off"
    PROVE  SaveTeam(w)
<1>0. window \in [Desks -> Window]
  BY DEF DesksAreSound
<1>1. window'[w] # window[w]
  OBVIOUS
<1>2. ASSUME NEW v \in Desks, NEW q, window' = [window EXCEPT ![v] = q], window[v].pc # "save" PROVE FALSE
  <2>1. v # w
    BY <1>2
  <2> QED
    BY <1>0, <1>1, <1>2, <2>1
<1>3. ASSUME NEW v \in Desks, LockTeam(v) PROVE FALSE
  <2>1. window[v].pc = "lock" /\ \E q : window' = [window EXCEPT ![v] = q]
    BY <1>3 DEF LockTeam
  <2> QED
    BY <1>2, <2>1
<1>4. ASSUME NEW v \in Desks, ResolveIntake(v) PROVE FALSE
  <2>1. window[v].pc = "resolve" /\ window' = [window EXCEPT ![v] = Closed]
    BY <1>4 DEF ResolveIntake
  <2> QED
    BY <1>2, <2>1
<1>5. ASSUME NEW v \in Desks, NEW id, NEW t, AskTeam(v, id, t) PROVE FALSE
  <2>1. window[v].pc = "off" /\ \E q : window' = [window EXCEPT ![v] = q]
    BY <1>5 DEF AskTeam
  <2> QED
    BY <1>2, <2>1
<1>6. ASSUME NEW v \in Desks, NEW c, NEW src, NEW t, OpenIntake(v, c, src, t) PROVE FALSE
  <2>1. window[v].pc = "off" /\ \E q : window' = [window EXCEPT ![v] = q]
    BY <1>6 DEF OpenIntake
  <2> QED
    BY <1>2, <2>1
<1>7. ASSUME NEW v \in Desks, v # w, SaveTeam(v) PROVE FALSE
  <2>1. PICK q, rows2 :
           window' = [x \in Desks |->
                         IF x = v THEN Closed
                         ELSE IF PeriodsAllowed(rows2) /\ window[x].id = q.id
                              THEN [window[x] EXCEPT !.met = TRUE]
                         ELSE window[x]]
    BY <1>7, SaveTeamIs
  <2>2. window'[w] = window[w] \/ window'[w] = [window[w] EXCEPT !.met = TRUE]
    BY <1>7, <2>1
  <2>3. [window[w] EXCEPT !.met = TRUE].pc = window[w].pc
    <3>1. window[w] \in Window
      BY <1>0
    <3> QED
      BY <3>1 DEF Window
  <2> QED
    BY <2>2, <2>3
<1>8. window' # window
  BY <1>1
<1>9. DeskNext
  BY <1>8 DEF Next, deskVars
<1> QED
  BY <1>3, <1>4, <1>5, <1>6, <1>7, <1>8, <1>9
     DEF DeskNext, CloseTeam, ReadRow, EnsureLeadOrIntake, StartBackfill, BackfillChunk,
         BackfillCustomer, BackfillQueue, BackfillEnds, BackfillDies, Tick

(* Only a save changes assignments.                                        *)
LEMMA OnlySavesChangeTeams ==
    ASSUME Next, member' # member
    PROVE  \E w \in Desks : SaveTeam(w)
<1>1. DeskNext
  BY DEF Next, deskVars
<1> QED
  BY <1>1 DEF DeskNext, CloseTeam, OpenIntake, ResolveIntake, LockTeam, ReadRow, EnsureLeadOrIntake,
         StartBackfill, BackfillChunk, BackfillCustomer, BackfillQueue, BackfillEnds, BackfillDies,
         AskTeam, Tick

(* A change of team holds from its instant on and for no instant before,   *)
(* whatever other desk saves at the same time: sales of the past keep      *)
(* their team, and a save that meets no other is in force when it ends     *)
(* (teams.services.assign_team).                                           *)
THEOREM TeamChangesStand == Spec => TeamChangesHold
<1> DEFINE Past == \A id \in Ids : \A at \in 0..(clock - 1) : TeamAt(member'[id], at) = TeamAt(member[id], at)
           Alone == \A w \in Desks :
                       window[w].pc = "save" /\ window'[w].pc = "off" /\ ~window[w].met
                       /\ (window[w].current # 0 \/ \A i \in DOMAIN member[window[w].id] :
                                                     member[window[w].id][i].to <= clock) =>
                           TeamNow(member'[window[w].id]) = window[w].team
<1>1. ASSUME IInv, [Next]_vars PROVE [Past]_member /\ [Alone]_window
  <2>1. DesksAreSound(window, member) /\ clock \in Nat
    BY <1>1, TimeIsBounded DEF IInv
  <2>2. ASSUME member' # member PROVE Past
    <3>1. Next
      BY <1>1, <2>2 DEF vars, deskVars
    <3>2. PICK w \in Desks : SaveTeam(w)
      BY <2>2, <3>1, OnlySavesChangeTeams
    <3> QED
      BY <2>1, <3>2, PastStays
  <2>3. ASSUME window' # window PROVE Alone
    <3>1. Next
      BY <1>1, <2>3 DEF vars, deskVars
    <3>2. SUFFICES ASSUME NEW w \in Desks, window[w].pc = "save", window'[w].pc = "off", ~window[w].met,
                          window[w].current # 0 \/ \A i \in DOMAIN member[window[w].id] :
                                                     member[window[w].id][i].to <= clock
                   PROVE  TeamNow(member'[window[w].id]) = window[w].team
      OBVIOUS
    <3>3. SaveTeam(w)
      BY <2>1, <3>1, <3>2, OnlySavesEndSaves
    <3>4. PICK q, rows, at, rows2 : q = window[w] /\ SaveIs(q, rows, at, rows2)
      BY <2>1, <3>3, SaveTeamIs
    <3>5. rows = member[q.id] /\ q.id \in Ids
      BY <3>4 DEF SaveIs
    <3>6. ~ q.met /\ (q.current # 0 \/ \A i \in DOMAIN rows : rows[i].to <= clock)
      BY <3>2, <3>4, <3>5
    <3>7. PeriodsAllowed(rows2) /\ TeamNow(rows2) = q.team
      BY <2>1, <3>4, <3>6, SaveIsAllowed
    <3>8. member'[q.id] = rows2
      BY <2>1, <3>4, <3>5, <3>7 DEF SaveIs, DesksAreSound
    <3> QED
      BY <3>4, <3>7, <3>8
  <2> HIDE DEF Past, Alone
  <2> QED
    BY <2>2, <2>3
<1>2. Spec => [][Past]_member /\ [][Alone]_window
  <2> HIDE DEF Past, Alone
  <2> QED
    BY <1>1, AlwaysSound, PTL DEF Spec
<1> QED
  BY <1>2 DEF TeamChangesHold, PastTeamsStand, AloneIsInForce

-----------------------------------------------------------------------------
(* The online orders.                                                      *)

Columns == DOMAIN NewOrder

(* An online order has all its columns, also as the worker has read it.    *)
OrdersAreWhole(o) == DOMAIN o = OrderNos /\ \A no \in OrderNos : o[no] = Absent \/ DOMAIN o[no] = Columns

(* TRACKFLOW leaves what the files say alone.                              *)
SameOrder(a, b) ==
    /\ a = Absent <=> b = Absent
    /\ a # Absent => a.phone = b.phone /\ a.tracking = b.tracking /\ a.lines = b.lines /\ a.customer = b.customer
Agree(o1, o2) == \A no \in OrderNos : SameOrder(o1[no], o2[no])

OnlineIsWhole ==
    /\ WorkerIsSound(worker, jobs)
    /\ OrdersAreWhole(online)
    /\ worker.pc \in {"read", "link"} => OrdersAreWhole(worker.read) /\ Agree(worker.read, online)

(* What a file makes of an order: the order as it was, or a new one.       *)
Known(o) == IF o = Absent THEN NewOrder ELSE o
MainIs(x, o, r) ==
    /\ DOMAIN x = Columns
    /\ x.phone = Owned(o.phone, r.phone) /\ x.tracking = FillIfBlank(o.tracking, r.tracking)
    /\ x.lines = o.lines /\ x.customer = o.customer /\ x.status = o.status
DetailIs(x, o, r) ==
    /\ DOMAIN x = Columns
    /\ x.tracking = Owned(o.tracking, r.tracking)
    /\ x.phone = o.phone /\ x.customer = o.customer

(* A row that a file updates has its columns, and of the old order what    *)
(* the file does not say.                                                  *)
LEMMA RowsAreWhole ==
    ASSUME OrdersAreWhole(online), OrdersAreWhole(worker.read), Agree(worker.read, online),
           NEW f, NEW no \in OrderNos
    PROVE  /\ MainIs(MainRow(no, WithMain(InMemory(no), f, no)), Known(online[no]), LastAbout(f, no))
           /\ DetailIs(DetailRow(no, WithDetail(InMemory(no), f, no)), Known(online[no]), FirstAbout(f, no))
<1>0. Columns = {"there", "tracking", "phone", "status", "lines", "customer", "shipped", "detailed", "synced"}
  BY DEF Columns, NewOrder
<1>1. PICK order : order = InMemory(no)
  OBVIOUS
<1>2. DOMAIN order = Columns
  <2>1. worker.read[no] = Absent \/ DOMAIN worker.read[no] = Columns
    BY DEF OrdersAreWhole
  <2> QED
    BY <1>1, <2>1 DEF InMemory, Columns
<1>3. PICK o : o = Known(online[no])
  OBVIOUS
<1>4. DOMAIN o = Columns /\ (online[no] # Absent => o = online[no]) /\ (online[no] = Absent => o = order)
  BY <1>1, <1>3 DEF Known, InMemory, OrdersAreWhole, Columns, Agree, SameOrder
<1>5. order.phone = o.phone /\ order.tracking = o.tracking /\ order.lines = o.lines /\ order.customer = o.customer
  BY <1>1, <1>4 DEF InMemory, Agree, SameOrder
<1>6. PICK r, p, t : r = LastAbout(f, no) /\ p = Owned(order.phone, r.phone) /\ t = FillIfBlank(order.tracking, r.tracking)
  OBVIOUS
<1>7. PICK main : main = WithMain(order, f, no)
  OBVIOUS
<1>8. main = [order EXCEPT !.phone = p, !.tracking = t]
  BY <1>6, <1>7 DEF WithMain
<1>9. /\ DOMAIN main = Columns /\ main.phone = p /\ main.tracking = t
      /\ main.lines = order.lines /\ main.customer = order.customer /\ main.status = order.status
  BY <1>0, <1>2, <1>8
<1>10. MainIs(MainRow(no, main), o, r)
  <2>1. CASE online[no] = Absent
    BY <1>4, <1>6, <1>9, <2>1 DEF MainRow, MainIs
  <2>2. CASE online[no] # Absent
    <3>1. MainRow(no, main) = [o EXCEPT !.phone = p, !.tracking = t]
      BY <1>4, <1>9, <2>2 DEF MainRow
    <3>2. PICK x : x = [o EXCEPT !.phone = p, !.tracking = t]
      OBVIOUS
    <3>3. /\ DOMAIN x = Columns /\ x.phone = p /\ x.tracking = t
          /\ x.lines = o.lines /\ x.customer = o.customer /\ x.status = o.status
      BY <1>0, <1>4, <3>2
    <3> QED
      BY <1>5, <1>6, <3>1, <3>2, <3>3 DEF MainIs
  <2> QED
    BY <2>1, <2>2
<1>11. PICK q, s, u : q = FirstAbout(f, no) /\ s = Owned(order.status, q.status) /\ u = Owned(order.tracking, q.tracking)
  OBVIOUS
<1>12. PICK detail : detail = WithDetail(order, f, no)
  OBVIOUS
<1>13. detail = [order EXCEPT !.status = s, !.tracking = u]
  BY <1>11, <1>12 DEF WithDetail
<1>14. /\ DOMAIN detail = Columns /\ detail.status = s /\ detail.tracking = u
       /\ detail.phone = order.phone /\ detail.customer = order.customer
  BY <1>0, <1>2, <1>13
<1>15. DetailIs(DetailRow(no, detail), o, q)
  <2>1. CASE online[no] = Absent
    BY <1>4, <1>11, <1>14, <2>1 DEF DetailRow, DetailIs
  <2>2. CASE online[no] # Absent
    <3>1. DetailRow(no, detail) = [o EXCEPT !.status = s, !.tracking = u]
      BY <1>4, <1>14, <2>2 DEF DetailRow
    <3>2. PICK x : x = [o EXCEPT !.status = s, !.tracking = u]
      OBVIOUS
    <3>3. DOMAIN x = Columns /\ x.tracking = u /\ x.phone = o.phone /\ x.customer = o.customer
      BY <1>0, <1>4, <3>2
    <3> QED
      BY <1>5, <1>11, <3>1, <3>2, <3>3 DEF DetailIs
  <2> QED
    BY <2>1, <2>2
<1> QED
  BY <1>1, <1>3, <1>6, <1>7, <1>10, <1>11, <1>12, <1>15

(* The customers of the phones in a MAIN file, as CommitMain finds them.   *)
Found(f) ==
    [p \in PhonesOf(f) |->
        IF p \in Range(Unknown(f)) THEN Len(customers) + (CHOOSE i \in DOMAIN Unknown(f) : Unknown(f)[i] = p)
        ELSE Oldest(worker.table, p)]

(* The commit of a MAIN file: an order it names has its phone, its         *)
(* tracking number if there was none, and the customer of the phone; an    *)
(* order keeps its status and lines.                                       *)
LEMMA MainIsCommitted ==
    ASSUME OnlineIsWhole, CommitMain, NEW f, f = Content(worker.job)
    PROVE  /\ OrdersAreWhole(online')
           /\ \A no \in OrderNos :
                 /\ no \notin Named(f) => online'[no] = online[no]
                 /\ no \in Named(f) =>
                       LET o == Known(online[no])
                           r == LastAbout(f, no)
                           y == online'[no]
                       IN /\ DOMAIN y = Columns
                          /\ y.phone = Owned(o.phone, r.phone) /\ y.tracking = FillIfBlank(o.tracking, r.tracking)
                          /\ y.lines = o.lines /\ y.status = o.status
                          /\ y.customer = IF r.phone = Blank THEN o.customer ELSE Found(f)[r.phone]
<1>0. Columns = {"there", "tracking", "phone", "status", "lines", "customer", "shipped", "detailed", "synced"}
  BY DEF Columns, NewOrder
<1>1. OrdersAreWhole(online) /\ OrdersAreWhole(worker.read) /\ Agree(worker.read, online)
  BY DEF OnlineIsWhole, CommitMain
<1>2. online' = [no \in OrderNos |->
                   IF no \notin Named(f) THEN online[no]
                   ELSE LET row2 == MainRow(no, WithMain(InMemory(no), f, no))
                        IN [row2 EXCEPT !.shipped = TRUE, !.customer = Linked(row2, PhoneOf(f, no), Found(f))]]
  <2> DEFINE g == Content(worker.job)
  <2>1. online' = [no \in OrderNos |->
                     IF no \notin Named(g) THEN online[no]
                     ELSE LET row2 == MainRow(no, WithMain(InMemory(no), g, no))
                          IN [row2 EXCEPT !.shipped = TRUE, !.customer = Linked(row2, PhoneOf(g, no), Found(g))]]
    BY Zenon DEF CommitMain, Found
  <2> HIDE DEF g
  <2>2. f = g
    BY DEF g
  <2> QED
    BY <2>1, <2>2
<1>3. ASSUME NEW no \in OrderNos, no \in Named(f), NEW o, o = Known(online[no]), NEW r, r = LastAbout(f, no)
      PROVE  /\ DOMAIN online'[no] = Columns
             /\ online'[no].phone = Owned(o.phone, r.phone)
             /\ online'[no].tracking = FillIfBlank(o.tracking, r.tracking)
             /\ online'[no].lines = o.lines /\ online'[no].status = o.status
             /\ online'[no].customer = IF r.phone = Blank THEN o.customer ELSE Found(f)[r.phone]
  <2>1. PICK x : x = MainRow(no, WithMain(InMemory(no), f, no))
    OBVIOUS
  <2>2. MainIs(x, o, r)
    BY <1>1, <1>3, <2>1, RowsAreWhole
  <2>3. PICK c : c = Linked(x, PhoneOf(f, no), Found(f))
    OBVIOUS
  <2>4. c = IF r.phone = Blank THEN o.customer ELSE Found(f)[r.phone]
    BY <1>3, <2>2, <2>3 DEF MainIs, Linked, PhoneOf
  <2>5. online'[no] = [x EXCEPT !.shipped = TRUE, !.customer = c]
    BY <1>2, <1>3, <2>1, <2>3
  <2>6. PICK y : y = [x EXCEPT !.shipped = TRUE, !.customer = c]
    OBVIOUS
  <2>7. /\ DOMAIN y = Columns /\ y.phone = x.phone /\ y.tracking = x.tracking
        /\ y.lines = x.lines /\ y.status = x.status /\ y.customer = c
    BY <1>0, <2>2, <2>6 DEF MainIs
  <2> QED
    BY <2>2, <2>4, <2>5, <2>6, <2>7 DEF MainIs
<1>4. \A no \in OrderNos : no \notin Named(f) => online'[no] = online[no]
  BY <1>2
<1>5. OrdersAreWhole(online')
  BY <1>1, <1>2, <1>3, <1>4 DEF OrdersAreWhole
<1> QED
  BY <1>3, <1>4, <1>5

(* The commit of a DETAIL file: an order it names has its tracking number  *)
(* and its lines, and keeps its phone and customer.                        *)
LEMMA DetailIsCommitted ==
    ASSUME OnlineIsWhole, CommitDetail, NEW f, f = Content(worker.job)
    PROVE  /\ OrdersAreWhole(online')
           /\ \A no \in OrderNos :
                 /\ no \notin Named(f) => online'[no] = online[no]
                 /\ no \in Named(f) =>
                       LET o == Known(online[no])
                           y == online'[no]
                       IN /\ DOMAIN y = Columns
                          /\ y.tracking = Owned(o.tracking, FirstAbout(f, no).tracking)
                          /\ y.lines = Skus(f, no) /\ y.phone = o.phone /\ y.customer = o.customer
<1>0. Columns = {"there", "tracking", "phone", "status", "lines", "customer", "shipped", "detailed", "synced"}
  BY DEF Columns, NewOrder
<1>1. OrdersAreWhole(online) /\ OrdersAreWhole(worker.read) /\ Agree(worker.read, online)
  BY DEF OnlineIsWhole, CommitDetail
<1>2. online' = [no \in OrderNos |->
                   IF no \notin Named(f) THEN online[no]
                   ELSE [DetailRow(no, WithDetail(InMemory(no), f, no)) EXCEPT
                           !.detailed = TRUE, !.lines = Skus(f, no)]]
  BY DEF CommitDetail
<1>3. ASSUME NEW no \in OrderNos, no \in Named(f), NEW o, o = Known(online[no])
      PROVE  /\ DOMAIN online'[no] = Columns
             /\ online'[no].tracking = Owned(o.tracking, FirstAbout(f, no).tracking)
             /\ online'[no].lines = Skus(f, no)
             /\ online'[no].phone = o.phone /\ online'[no].customer = o.customer
  <2>1. PICK x, lines : x = DetailRow(no, WithDetail(InMemory(no), f, no)) /\ lines = Skus(f, no)
    OBVIOUS
  <2>2. DetailIs(x, o, FirstAbout(f, no))
    BY <1>1, <1>3, <2>1, RowsAreWhole
  <2>3. online'[no] = [x EXCEPT !.detailed = TRUE, !.lines = lines]
    BY <1>2, <1>3, <2>1
  <2>4. PICK y : y = [x EXCEPT !.detailed = TRUE, !.lines = lines]
    OBVIOUS
  <2>5. /\ DOMAIN y = Columns /\ y.phone = x.phone /\ y.tracking = x.tracking
        /\ y.lines = lines /\ y.customer = x.customer
    BY <1>0, <2>2, <2>4 DEF DetailIs
  <2> QED
    BY <2>1, <2>2, <2>3, <2>4, <2>5 DEF DetailIs
<1>4. \A no \in OrderNos : no \notin Named(f) => online'[no] = online[no]
  BY <1>2
<1>5. OrdersAreWhole(online')
  BY <1>1, <1>2, <1>3, <1>4 DEF OrdersAreWhole
<1> QED
  BY <1>3, <1>4, <1>5

(* A push changes the status of orders there are, and nothing else of them.*)
LEMMA PushIsApplied ==
    ASSUME OnlineIsWhole, NEW p \in Pushes, ApplyTrackflowStatus(p)
    PROVE  OrdersAreWhole(online') /\ Agree(online, online')
<1>0. Columns = {"there", "tracking", "phone", "status", "lines", "customer", "shipped", "detailed", "synced"}
  BY DEF Columns, NewOrder
<1>1. OrdersAreWhole(online)
  BY DEF OnlineIsWhole
<1>2. PICK s, T : s = Translated(p.status) /\ T = Tracked(p.tracking)
  OBVIOUS
<1>3. online' = [no \in OrderNos |-> IF no \in T THEN [online[no] EXCEPT !.status = s, !.synced = TRUE]
                                     ELSE online[no]]
  BY <1>2 DEF ApplyTrackflowStatus
<1>4. \A no \in T : online[no] # Absent
  BY <1>2 DEF Tracked
<1>5. ASSUME NEW no \in OrderNos
      PROVE  (online'[no] = Absent \/ DOMAIN online'[no] = Columns) /\ SameOrder(online[no], online'[no])
  <2>1. CASE no \notin T
    BY <1>1, <1>3, <2>1 DEF OrdersAreWhole, SameOrder
  <2>2. CASE no \in T
    <3>1. PICK o : o = online[no] /\ o # Absent /\ DOMAIN o = Columns
      BY <1>1, <1>4, <2>2 DEF OrdersAreWhole
    <3>2. PICK x : x = [o EXCEPT !.status = s, !.synced = TRUE]
      OBVIOUS
    <3>3. /\ DOMAIN x = Columns /\ x.phone = o.phone /\ x.tracking = o.tracking
          /\ x.lines = o.lines /\ x.customer = o.customer
      BY <1>0, <3>1, <3>2
    <3>4. DOMAIN Absent # Columns
      BY <1>0 DEF Absent
    <3>5. online'[no] = x
      BY <1>3, <2>2, <3>1, <3>2
    <3> QED
      BY <3>1, <3>3, <3>4, <3>5 DEF SameOrder
  <2> QED
    BY <2>1, <2>2
<1> QED
  BY <1>3, <1>5 DEF OrdersAreWhole, Agree

(* The orders the worker has read stay as they were read.                  *)
LEMMA OnlineStaysWhole == OnlineIsWhole /\ [Next]_vars => OnlineIsWhole'
<1> SUFFICES ASSUME OnlineIsWhole, [Next]_vars PROVE OnlineIsWhole'
  OBVIOUS
<1>0. /\ WorkerIsSound(worker, jobs) /\ OrdersAreWhole(online)
      /\ worker.pc \in {"read", "link"} => OrdersAreWhole(worker.read) /\ Agree(worker.read, online)
      /\ "pc" \in DOMAIN worker /\ "read" \in DOMAIN worker
  BY DEF OnlineIsWhole, WorkerIsSound
<1>1. CASE UNCHANGED <<worker, jobs, online>>
  BY <1>0, <1>1 DEF OnlineIsWhole
<1>2. CASE UploadsNext
  <2>1. WorkerIsSound(worker', jobs')
    BY <1>0, <1>2, UploadsWork
  <2>2. ASSUME worker'.pc \notin {"read", "link"}, OrdersAreWhole(online') PROVE OnlineIsWhole'
    BY <2>1, <2>2 DEF OnlineIsWhole
  <2>0. Agree(online, online)
    BY DEF Agree, SameOrder
  <2>3. ASSUME worker' = worker, OrdersAreWhole(online'), Agree(online, online') PROVE OnlineIsWhole'
    BY <1>0, <2>1, <2>3 DEF OnlineIsWhole, Agree, SameOrder
  <2>4. Resting.pc = "rest" /\ \A i : [Resting EXCEPT !.pc = "end", !.job = i].pc = "end"
        /\ \A j : [Resting EXCEPT !.pc = "start", !.job = j].pc = "start"
    BY DEF Resting
  <2>5. CASE JobFails \/ WorkerDies \/ JobEnds
    <3>1. worker' = Resting /\ online' = online
      BY <2>5 DEF JobFails, WorkerDies, JobEnds
    <3> QED
      BY <1>0, <2>2, <2>4, <3>1
  <2>6. CASE TakeJob
    <3>1. online' = online /\ \E j : worker' = [Resting EXCEPT !.pc = "start", !.job = j]
      BY <2>6 DEF TakeJob
    <3> QED
      BY <1>0, <2>2, <2>4, <3>1
  <2>7. CASE CommitMain \/ CommitDetail
    <3>1. worker' = [Resting EXCEPT !.pc = "end", !.job = worker.job]
      BY <2>7 DEF CommitMain, CommitDetail
    <3>2. OrdersAreWhole(online')
      BY <2>7, MainIsCommitted, DetailIsCommitted
    <3> QED
      BY <2>2, <2>4, <3>1, <3>2
  <2>8. CASE RowsEnd
    <3>1. worker' = [Resting EXCEPT !.pc = "end", !.job = worker.job] /\ online' = online
      BY <2>8 DEF RowsEnd
    <3> QED
      BY <1>0, <2>2, <2>4, <3>1
  <2>9. CASE OpenRows \/ ImportRow
    <3>1. PICK k : worker' = [worker EXCEPT !.pc = "row", !.row = 1] \/ worker' = [worker EXCEPT !.row = k]
      BY <2>9 DEF OpenRows, ImportRow
    <3>2. online' = online /\ (worker.pc = "row" \/ worker' = [worker EXCEPT !.pc = "row", !.row = 1])
      BY <2>9 DEF OpenRows, ImportRow
    <3>3. worker'.pc = "row"
      BY <1>0, <3>1, <3>2
    <3> QED
      BY <1>0, <2>2, <3>2, <3>3
  <2>10. CASE ReadOnline
    <3>1. worker' = [worker EXCEPT !.pc = "read", !.read = online] /\ online' = online
      BY <2>10 DEF ReadOnline
    <3>2. worker'.read = online
      BY <1>0, <3>1
    <3> QED
      BY <1>0, <2>1, <3>1, <3>2 DEF OnlineIsWhole, Agree, SameOrder
  <2>11. CASE LookForCustomers
    <3>1. /\ worker' = [worker EXCEPT !.pc = "link", !.table = customers]
          /\ online' = online /\ worker.pc = "read"
      BY <2>11 DEF LookForCustomers
    <3>2. worker'.read = worker.read
      BY <1>0, <3>1
    <3> QED
      BY <1>0, <2>1, <3>1, <3>2 DEF OnlineIsWhole
  <2>12. ASSUME NEW f \in DOMAIN Files, Upload(f) PROVE OnlineIsWhole'
    BY <1>0, <2>0, <2>3, <2>12 DEF Upload
  <2>13. ASSUME NEW p \in Pushes, Shipped(p) PROVE OnlineIsWhole'
    BY <1>0, <2>0, <2>3, <2>13 DEF Shipped
  <2>14. ASSUME NEW p \in Pushes, ApplyTrackflowStatus(p) PROVE OnlineIsWhole'
    <3>1. OrdersAreWhole(online') /\ Agree(online, online') /\ worker' = worker
      BY <2>14, PushIsApplied DEF ApplyTrackflowStatus
    <3> QED
      BY <2>3, <3>1
  <2> QED
    BY <1>1, <1>2, <2>5, <2>6, <2>7, <2>8, <2>9, <2>10, <2>11, <2>12, <2>13, <2>14
       DEF UploadsNext, uploadVars
<1> QED
  BY <1>1, <1>2 DEF Next, vars, uploadVars

(* There are no orders at first.                                           *)
LEMMA OnlineStartsWhole == Init => OnlineIsWhole
<1> SUFFICES ASSUME Init PROVE OnlineIsWhole
  OBVIOUS
<1>1. IInv
  BY InitIsSound
<1>2. worker.pc = "rest" /\ online = [no \in OrderNos |-> Absent]
  BY DEF Init, UploadsInit, Resting
<1> QED
  BY <1>1, <1>2 DEF IInv, OnlineIsWhole, OrdersAreWhole

(* A status is TRACKFLOW's or DETAIL's: a MAIN file that was being read    *)
(* while TRACKFLOW changed it does not put the old one back, because it    *)
(* updates its own columns only (online_orders/services.py).               *)
THEOREM MainKeepsEveryStatus == Spec => MainKeepsStatus
<1>1. Init => OnlineIsWhole
  BY OnlineStartsWhole
<1>2. OnlineIsWhole /\ [Next]_vars => OnlineIsWhole'
  BY OnlineStaysWhole
<1>3. ASSUME OnlineIsWhole, [Next]_vars
      PROVE  [worker.pc = "link" /\ landed' # landed =>
                 \A no \in OrderNos : online[no] # Absent => online'[no].status = online[no].status]_online
  <2>1. ASSUME worker.pc = "link", landed' # landed
        PROVE  CommitMain
    <3>1. Next
      BY <1>3, <2>1 DEF vars, uploadVars
    <3>2. UploadsNext
      BY <2>1, <3>1 DEF Next, uploadVars
    <3> QED
      BY <2>1, <3>2 DEF UploadsNext, Upload, TakeJob, JobFails, WorkerDies, JobEnds, ReadOnline,
         LookForCustomers, CommitDetail, OpenRows, ImportRow, RowsEnd, Shipped, ApplyTrackflowStatus, uploadVars
  <2> QED
    <3>1. ASSUME CommitMain, NEW no \in OrderNos, online[no] # Absent
          PROVE  online'[no].status = online[no].status
      <4>1. PICK f : f = Content(worker.job)
        OBVIOUS
      <4>2. Known(online[no]) = online[no]
        BY <3>1 DEF Known
      <4> QED
        BY <1>3, <3>1, <4>1, <4>2, MainIsCommitted
    <3> QED
      BY <2>1, <3>1
<1> QED
  BY <1>1, <1>2, <1>3, PTL DEF Spec, MainKeepsStatus

-----------------------------------------------------------------------------
(* What the status page says of the jobs.                                  *)

Recorded(st, j) == {x.row : x \in {y \in st : y.job = j}}

(* All the rows of a file are recorded, or its online orders are written.  *)
Written(f, j, st, ld) ==
    IF f.kind \in {"ROWS", "WIDE"} THEN Recorded(st, j) = DOMAIN SalesRows(f) ELSE j \in Range(ld)

JobIsSound(j, x, resting, job, st, ld, kd) ==
    /\ x.kept <=> x.status \in {"queued", "running"}
    /\ x.status = "queued" => Recorded(st, j) = {} /\ j \notin Range(ld)
    /\ x.status = "running" => (~ resting /\ job = j) \/ j \in kd
    /\ x.status = "failed" => j \notin Range(ld)
    /\ x.status = "done" => Written(Files[x.file], j, st, ld)

(* What the worker has done for its job so far.                            *)
TaskIsSound(pc, k, f, j, st, ld) ==
    /\ pc \in {"start", "read", "link"} => Recorded(st, j) = {} /\ j \notin Range(ld)
    /\ pc \in {"read", "link"} => f.kind \in {"MAIN", "DETAIL"}
    /\ pc = "link" => f.kind = "MAIN"
    /\ pc = "row" => /\ f.kind \in {"ROWS", "WIDE"} /\ j \notin Range(ld)
                     /\ k \in Nat \ {0} /\ k - 1 <= Len(SalesRows(f))
                     /\ Recorded(st, j) = 1..(k - 1)
    /\ pc = "end" => Written(f, j, st, ld)

JobsAreSound(js, wk, st, ld, kd) ==
    /\ \A x \in st : x.job \in DOMAIN js
    /\ \E S : ld \in Seq(S)
    /\ \A j \in Range(ld) : j \in DOMAIN js
    /\ \A j \in DOMAIN js : JobIsSound(j, js[j], wk.pc = "rest", wk.job, st, ld, kd)
    /\ wk.pc # "rest" => TaskIsSound(wk.pc, wk.row, Files[js[wk.job].file], wk.job, st, ld)

JInv ==
    /\ WorkerIsSound(worker, jobs)
    /\ \E S : staged \in Seq(S)
    /\ JobsAreSound(jobs, worker, Range(staged), landed, killed)

(* What a job is depends on its own rows and files.                        *)
LEMMA JobStaysSound ==
    ASSUME NEW j, NEW x, NEW r, NEW r2, NEW k, NEW k2, NEW st, NEW st2, NEW ld, NEW ld2, NEW kd, NEW kd2,
           JobIsSound(j, x, r, k, st, ld, kd),
           Recorded(st2, j) = Recorded(st, j), j \in Range(ld2) <=> j \in Range(ld),
           x.status = "running" /\ ((~ r /\ k = j) \/ j \in kd) => (~ r2 /\ k2 = j) \/ j \in kd2
    PROVE  JobIsSound(j, x, r2, k2, st2, ld2, kd2)
  BY DEF JobIsSound, Written

(* The worker goes on with a job: it has done what it had, or more of it,  *)
(* and nothing for another.                                                *)
LEMMA JobsGoOn ==
    ASSUME JInv, WorkerIsSound(worker', jobs'), jobs' = jobs, killed' = killed,
           worker.pc # "rest", worker'.pc # "rest", worker'.job = worker.job,
           \E S : staged' \in Seq(S),
           \A x \in Range(staged') : x \in Range(staged) \/ x.job = worker.job,
           \A x \in Range(staged) : x \in Range(staged'),
           \E S : landed' \in Seq(S),
           \A j \in Range(landed') : j \in Range(landed) \/ j = worker.job,
           \A j \in Range(landed) : j \in Range(landed'),
           TaskIsSound(worker'.pc, worker'.row, Content(worker.job), worker.job, Range(staged'), landed')
    PROVE  JInv'
<1>1. worker.job \in DOMAIN jobs /\ jobs[worker.job].status = "running"
  BY DEF JInv, WorkerIsSound
<1>2. ASSUME NEW j \in DOMAIN jobs
      PROVE  JobIsSound(j, jobs[j], worker'.pc = "rest", worker'.job, Range(staged'), landed', killed')
  <2>1. JobIsSound(j, jobs[j], worker.pc = "rest", worker.job, Range(staged), landed, killed)
    BY DEF JInv, JobsAreSound
  <2>2. CASE j = worker.job
    BY <1>1, <2>1, <2>2 DEF JobIsSound
  <2>3. CASE j # worker.job
    <3>1. Recorded(Range(staged'), j) = Recorded(Range(staged), j)
      BY <2>3 DEF Recorded
    <3>2. j \in Range(landed') <=> j \in Range(landed)
      BY <2>3
    <3> QED
      BY <2>1, <3>1, <3>2, JobStaysSound
  <2> QED
    BY <2>2, <2>3
<1>3. (\A x \in Range(staged') : x.job \in DOMAIN jobs) /\ (\A j \in Range(landed') : j \in DOMAIN jobs)
  BY <1>1 DEF JInv, JobsAreSound
<1> QED
  BY <1>2, <1>3 DEF JInv, JobsAreSound, Content

(* The job is over, for good or bad, and the worker rests.                 *)
LEMMA JobsAreOver ==
    ASSUME JInv, worker.pc # "rest", NEW s \in {"done", "failed"},
           jobs' = Outcome(s), worker' = Resting, UNCHANGED <<staged, landed, killed>>,
           s = "done" => worker.pc = "end",
           s = "failed" => worker.pc \in {"start", "read", "link", "row"}
    PROVE  JInv'
<1>1. /\ WorkerIsSound(worker', jobs') /\ DOMAIN jobs' = DOMAIN jobs
      /\ \A j \in DOMAIN jobs :
            /\ jobs'[j].file = jobs[j].file
            /\ j # worker.job => jobs'[j] = jobs[j]
            /\ j = worker.job => jobs'[j].status = s /\ jobs'[j].kept = FALSE
  BY WorkerStops DEF JInv
<1>2. worker'.pc = "rest" /\ worker.job \in DOMAIN jobs
  BY DEF Resting, JInv, WorkerIsSound
<1>3. ASSUME NEW j \in DOMAIN jobs
      PROVE  JobIsSound(j, jobs'[j], worker'.pc = "rest", worker'.job, Range(staged), landed, killed)
  <2>1. JobIsSound(j, jobs[j], worker.pc = "rest", worker.job, Range(staged), landed, killed)
    BY DEF JInv, JobsAreSound
  <2>2. CASE j # worker.job
    BY <1>1, <2>1, <2>2, JobStaysSound
  <2>3. CASE j = worker.job
    <3>1. TaskIsSound(worker.pc, worker.row, Files[jobs[j].file], j, Range(staged), landed)
      BY <2>3 DEF JInv, JobsAreSound
    <3>2. s = "done" => Written(Files[jobs'[j].file], j, Range(staged), landed)
      BY <1>1, <3>1 DEF TaskIsSound
    <3>3. s = "failed" => j \notin Range(landed)
      BY <3>1 DEF TaskIsSound
    <3> QED
      BY <1>1, <2>3, <3>2, <3>3 DEF JobIsSound
  <2> QED
    BY <2>2, <2>3
<1> QED
  BY <1>1, <1>2, <1>3 DEF JInv, JobsAreSound

(* A file is queued.                                                       *)
LEMMA JobIsQueued ==
    ASSUME JInv, NEW f \in DOMAIN Files, Upload(f)
    PROVE  JInv'
<1>1. PICK x : x = [file |-> f, kept |-> TRUE, status |-> "queued"]
  OBVIOUS
<1>2. PICK js \in Seq(Job) : js = jobs
  BY DEF JInv, WorkerIsSound
<1>3. PICK n \in Nat : n = Len(js) /\ DOMAIN js = 1..n
  BY <1>2
<1>4. jobs' = Append(js, x) /\ UNCHANGED <<worker, staged, landed, killed>>
  BY <1>1, <1>2 DEF Upload
<1>5. DOMAIN jobs' = 1..(n + 1) /\ jobs'[n + 1] = x /\ \A j \in 1..n : jobs'[j] = js[j]
  BY <1>3, <1>4
<1>6. WorkerIsSound(worker', jobs')
  <2>1. UploadsNext
    BY DEF UploadsNext
  <2> QED
    BY <2>1, UploadsWork DEF JInv
<1>7. Recorded(Range(staged), n + 1) = {} /\ n + 1 \notin Range(landed)
  <2>1. n + 1 \notin 1..n
    OBVIOUS
  <2>2. (\A y \in Range(staged) : y.job \in 1..n) /\ (\A j \in Range(landed) : j \in 1..n)
    BY <1>2, <1>3 DEF JInv, JobsAreSound
  <2> QED
    BY <2>1, <2>2 DEF Recorded
<1>8. ASSUME NEW j \in DOMAIN jobs'
      PROVE  JobIsSound(j, jobs'[j], worker.pc = "rest", worker.job, Range(staged), landed, killed)
  <2>1. CASE j \in 1..n
    <3>1. JobIsSound(j, js[j], worker.pc = "rest", worker.job, Range(staged), landed, killed)
      BY <1>2, <1>3, <2>1 DEF JInv, JobsAreSound
    <3> QED
      BY <1>5, <2>1, <3>1
  <2>2. CASE j = n + 1
    <3>1. jobs'[j].kept = TRUE /\ jobs'[j].status = "queued"
      BY <1>1, <1>5, <2>2
    <3> QED
      BY <1>7, <2>2, <3>1 DEF JobIsSound
  <2> QED
    BY <1>5, <2>1, <2>2
<1>9. worker.pc # "rest" => worker.job \in 1..n
  BY <1>2, <1>3 DEF JInv, WorkerIsSound
<1>10. worker.pc # "rest" => TaskIsSound(worker.pc, worker.row, Files[jobs'[worker.job].file], worker.job, Range(staged), landed)
  BY <1>2, <1>5, <1>9 DEF JInv, JobsAreSound
<1>11. (\A y \in Range(staged) : y.job \in DOMAIN jobs') /\ (\A j \in Range(landed) : j \in DOMAIN jobs')
  BY <1>2, <1>3, <1>5 DEF JInv, JobsAreSound
<1> QED
  BY <1>4, <1>6, <1>8, <1>10, <1>11 DEF JInv, JobsAreSound

(* The worker takes a job: there is nothing of it yet.                     *)
LEMMA JobIsTaken ==
    ASSUME JInv, TakeJob
    PROVE  JInv'
<1>1. PICK k \in DOMAIN jobs : /\ jobs[k].status = "queued"
                               /\ jobs' = [jobs EXCEPT ![k].status = "running"]
                               /\ worker' = [Resting EXCEPT !.pc = "start", !.job = k]
  BY DEF TakeJob
<1>2. worker.pc = "rest" /\ UNCHANGED <<staged, landed, killed>>
  BY DEF TakeJob
<1>3. worker'.pc = "start" /\ worker'.job = k
  BY <1>1 DEF Resting
<1>4. WorkerIsSound(worker', jobs')
  <2>1. UploadsNext
    BY DEF UploadsNext
  <2> QED
    BY <2>1, UploadsWork DEF JInv
<1>5. PICK js \in Seq(Job) : js = jobs
  BY DEF JInv, WorkerIsSound
<1>6. js[k] \in Job
  BY <1>5
<1>7. PICK x : x = [js[k] EXCEPT !.status = "running"]
  OBVIOUS
<1>8. x.status = "running" /\ x.kept = js[k].kept /\ x.file = js[k].file
  BY <1>6, <1>7 DEF Job
<1>9. /\ DOMAIN jobs' = DOMAIN jobs
      /\ \A j \in DOMAIN jobs : jobs'[j] = IF j = k THEN x ELSE jobs[j]
  BY <1>1, <1>5, <1>7
<1>10. \A j \in DOMAIN jobs : JobIsSound(j, jobs[j], TRUE, worker.job, Range(staged), landed, killed)
  <2>1. (worker.pc = "rest") = TRUE
    BY <1>2
  <2> QED
    BY <2>1 DEF JInv, JobsAreSound
<1>11. Recorded(Range(staged), k) = {} /\ k \notin Range(landed) /\ jobs[k].kept
  BY <1>1, <1>10 DEF JobIsSound
<1>12. ASSUME NEW j \in DOMAIN jobs
       PROVE  JobIsSound(j, jobs'[j], FALSE, k, Range(staged), landed, killed)
  <2>1. CASE j = k
    BY <1>5, <1>8, <1>9, <1>11, <2>1 DEF JobIsSound
  <2>2. CASE j # k
    <3>1. JobIsSound(j, jobs[j], TRUE, worker.job, Range(staged), landed, killed) /\ jobs'[j] = jobs[j]
      BY <1>9, <1>10, <2>2
    <3>2. JobIsSound(j, jobs[j], FALSE, k, Range(staged), landed, killed)
      BY <3>1 DEF JobIsSound
    <3> QED
      BY <3>1, <3>2
  <2> QED
    BY <2>1, <2>2
<1>13. (worker'.pc = "rest") = FALSE
  BY <1>3
<1>14. \A f : TaskIsSound("start", worker'.row, f, k, Range(staged), landed)
  BY <1>11 DEF TaskIsSound
<1>15. JobsAreSound(jobs', worker', Range(staged), landed, killed)
  BY <1>3, <1>9, <1>12, <1>13, <1>14 DEF JInv, JobsAreSound
<1> QED
  BY <1>2, <1>4, <1>15 DEF JInv

(* The worker is killed: its job runs for ever.                            *)
LEMMA JobIsKilled ==
    ASSUME JInv, WorkerDies
    PROVE  JInv'
<1>1. /\ worker' = Resting /\ killed' = killed \cup {worker.job} /\ worker.pc # "rest"
      /\ UNCHANGED <<jobs, staged, landed>>
  BY DEF WorkerDies
<1>2. worker'.pc = "rest"
  BY <1>1 DEF Resting
<1>3. WorkerIsSound(worker', jobs')
  <2>1. UploadsNext
    BY DEF UploadsNext
  <2> QED
    BY <2>1, UploadsWork DEF JInv
<1>4. ASSUME NEW j \in DOMAIN jobs
      PROVE  JobIsSound(j, jobs[j], worker'.pc = "rest", worker'.job, Range(staged), landed, killed')
  <2>1. JobIsSound(j, jobs[j], worker.pc = "rest", worker.job, Range(staged), landed, killed)
    BY DEF JInv, JobsAreSound
  <2> QED
    BY <1>1, <2>1, JobStaysSound
<1> QED
  BY <1>1, <1>2, <1>3, <1>4 DEF JInv, JobsAreSound

(* A row is recorded, or the online orders are written, as the worker goes *)
(* on.                                                                     *)
LEMMA RowIsRecorded ==
    ASSUME JInv, ImportRow
    PROVE  JInv'
<1>1. PICK j, k, f : j = worker.job /\ k = worker.row /\ f = Content(worker.job)
  OBVIOUS
<1>2. worker.pc = "row" /\ k <= Len(SalesRows(f)) /\ j \in DOMAIN jobs
  BY <1>1 DEF ImportRow, JInv, WorkerIsSound
<1>3. PICK s : staged' = Append(staged, [job |-> j, row |-> k, sale |-> s])
  BY <1>1 DEF ImportRow
<1>4. PICK x : x = [job |-> j, row |-> k, sale |-> s]
  OBVIOUS
<1>5. x.job = j /\ x.row = k /\ (\E S : staged' \in Seq(S)) /\ Range(staged') = Range(staged) \cup {x}
  BY <1>3, <1>4, RangeGrows DEF JInv
<1>6. worker' = [worker EXCEPT !.row = @ + 1] /\ UNCHANGED <<jobs, landed, killed>>
  BY DEF ImportRow
<1>7. worker'.pc = "row" /\ worker'.job = j /\ worker'.row = k + 1
  BY <1>1, <1>2, <1>6 DEF JInv, WorkerIsSound
<1>8. WorkerIsSound(worker', jobs')
  <2>1. UploadsNext
    BY DEF UploadsNext
  <2> QED
    BY <2>1, UploadsWork DEF JInv
<1>9. TaskIsSound("row", k, f, j, Range(staged), landed)
  BY <1>1, <1>2 DEF JInv, JobsAreSound, Content
<1>10. Recorded(Range(staged'), j) = Recorded(Range(staged), j) \cup {k}
  BY <1>5 DEF Recorded
<1>11. k \in Nat \ {0} /\ Recorded(Range(staged), j) = 1..(k - 1)
  BY <1>9 DEF TaskIsSound
<1>12. Recorded(Range(staged'), j) = 1..((k + 1) - 1) /\ k + 1 \in Nat \ {0} /\ (k + 1) - 1 <= Len(SalesRows(f))
  <2>1. 1..(k - 1) \cup {k} = 1..k
    BY <1>11
  <2> QED
    BY <1>2, <1>10, <1>11, <2>1
<1>13. TaskIsSound("row", k + 1, f, j, Range(staged'), landed)
  BY <1>9, <1>12 DEF TaskIsSound
<1> QED
  BY <1>1, <1>2, <1>5, <1>6, <1>7, <1>8, <1>13, JobsGoOn, ZenonT(60) DEF JInv, JobsAreSound

(* A file of online orders is written, and its job can end.                *)
LEMMA FileLands ==
    ASSUME JInv, CommitMain \/ CommitDetail
    PROVE  JInv'
<1>1. PICK j, f : j = worker.job /\ f = Content(worker.job)
  OBVIOUS
<1>2. worker.pc \in {"read", "link"} /\ j \in DOMAIN jobs
  BY <1>1 DEF CommitMain, CommitDetail, JInv, WorkerIsSound
<1>3. /\ landed' = Append(landed, j) /\ worker' = [Resting EXCEPT !.pc = "end", !.job = j]
      /\ UNCHANGED <<jobs, staged, killed>>
  BY <1>1 DEF CommitMain, CommitDetail
<1>4. worker'.pc = "end" /\ worker'.job = j
  BY <1>3 DEF Resting
<1>5. WorkerIsSound(worker', jobs')
  <2>1. UploadsNext
    BY DEF UploadsNext
  <2> QED
    BY <2>1, UploadsWork DEF JInv
<1>6. PICK S : landed \in Seq(S)
  BY DEF JInv, JobsAreSound
<1>7. PICK n \in Nat : n = Len(landed) /\ DOMAIN landed = 1..n
  BY <1>6
<1>8. /\ landed' \in Seq(S \cup {j}) /\ DOMAIN landed' = 1..(n + 1)
      /\ landed'[n + 1] = j /\ \A i \in 1..n : landed'[i] = landed[i]
  <2>1. landed \in Seq(S \cup {j})
    BY <1>6
  <2> QED
    BY <1>3, <1>7, <2>1
<1>9. \A i \in 1..(n + 1) : i \in 1..n \/ i = n + 1
  OBVIOUS
<1>10. \A i \in Range(landed') : i \in Range(landed) \/ i = j
  BY <1>7, <1>8, <1>9 DEF Range
<1>11. (\A i \in Range(landed) : i \in Range(landed')) /\ j \in Range(landed')
  <2>1. n + 1 \in 1..(n + 1) /\ \A i \in 1..n : i \in 1..(n + 1)
    OBVIOUS
  <2> QED
    BY <1>7, <1>8, <2>1 DEF Range
<1>12. f.kind \in {"MAIN", "DETAIL"}
  BY <1>1, <1>2 DEF JInv, JobsAreSound, TaskIsSound, Content
<1>13. TaskIsSound("end", worker'.row, f, j, Range(staged), landed')
  BY <1>11, <1>12 DEF TaskIsSound, Written
<1>14. \E T : staged \in Seq(T)
  BY DEF JInv
<1> QED
  BY <1>1, <1>2, <1>3, <1>4, <1>5, <1>8, <1>10, <1>11, <1>13, <1>14, JobsGoOn

(* The steps at which nothing is written.                                  *)
LEMMA JobMovesOn ==
    ASSUME JInv, ReadOnline \/ LookForCustomers \/ OpenRows \/ RowsEnd
    PROVE  JInv'
<1>1. PICK j, f : j = worker.job /\ f = Content(worker.job)
  OBVIOUS
<1>2. worker.pc # "rest" /\ UNCHANGED <<jobs, staged, landed, killed>>
  BY DEF ReadOnline, LookForCustomers, OpenRows, RowsEnd
<1>3. WorkerIsSound(worker', jobs')
  <2>1. UploadsNext
    BY DEF UploadsNext
  <2> QED
    BY <2>1, UploadsWork DEF JInv
<1>4. TaskIsSound(worker.pc, worker.row, f, j, Range(staged), landed)
  BY <1>1, <1>2 DEF JInv, JobsAreSound, Content
<1>5. ASSUME worker'.pc # "rest", worker'.job = j, TaskIsSound(worker'.pc, worker'.row, f, j, Range(staged), landed)
      PROVE  JInv'
  <2>1. (\E S : landed \in Seq(S)) /\ \E S : staged \in Seq(S)
    BY DEF JInv, JobsAreSound
  <2> QED
    BY <1>1, <1>2, <1>3, <1>5, <2>1, JobsGoOn
<1>6. CASE ReadOnline
  <2>1. worker.pc = "start" /\ f.kind \in {"MAIN", "DETAIL"} /\ worker' = [worker EXCEPT !.pc = "read", !.read = online]
    BY <1>1, <1>6 DEF ReadOnline
  <2>2. worker'.pc = "read" /\ worker'.job = j
    BY <1>1, <2>1 DEF JInv, WorkerIsSound
  <2>3. TaskIsSound("read", worker'.row, f, j, Range(staged), landed)
    BY <1>4, <2>1 DEF TaskIsSound
  <2> QED
    BY <1>5, <2>2, <2>3
<1>7. CASE LookForCustomers
  <2>1. worker.pc = "read" /\ f.kind = "MAIN" /\ worker' = [worker EXCEPT !.pc = "link", !.table = customers]
    BY <1>1, <1>7 DEF LookForCustomers
  <2>2. worker'.pc = "link" /\ worker'.job = j
    BY <1>1, <2>1 DEF JInv, WorkerIsSound
  <2>3. TaskIsSound("link", worker'.row, f, j, Range(staged), landed)
    BY <1>4, <2>1 DEF TaskIsSound
  <2> QED
    BY <1>5, <2>2, <2>3
<1>8. f \in Range(Files)
  <2>1. j \in DOMAIN jobs
    BY <1>1, <1>2 DEF JInv, WorkerIsSound
  <2> QED
    BY <1>1, <2>1, ContentIsAFile DEF JInv
<1>9. CASE OpenRows
  <2>1. worker.pc = "start" /\ f.kind \in {"ROWS", "WIDE"} /\ worker' = [worker EXCEPT !.pc = "row", !.row = 1]
    BY <1>1, <1>9 DEF OpenRows
  <2>2. worker'.pc = "row" /\ worker'.job = j /\ worker'.row = 1
    BY <1>1, <2>1 DEF JInv, WorkerIsSound
  <2>3. Len(SalesRows(f)) \in Nat
    BY <1>8, <2>1, SheetsAreSequences
  <2>4. TaskIsSound("row", 1, f, j, Range(staged), landed)
    BY <1>4, <2>1, <2>3 DEF TaskIsSound
  <2> QED
    BY <1>5, <2>2, <2>4
<1>10. CASE RowsEnd
  <2>1. worker.pc = "row" /\ worker.row > Len(SalesRows(f)) /\ worker' = [Resting EXCEPT !.pc = "end", !.job = j]
    BY <1>1, <1>10 DEF RowsEnd
  <2>2. worker'.pc = "end" /\ worker'.job = j
    BY <2>1 DEF Resting
  <2>3. PICK k : k = worker.row
    OBVIOUS
  <2>4. /\ f.kind \in {"ROWS", "WIDE"} /\ k \in Nat \ {0} /\ k - 1 <= Len(SalesRows(f))
        /\ Recorded(Range(staged), j) = 1..(k - 1)
    BY <1>4, <2>1, <2>3 DEF TaskIsSound
  <2>5. PICK n \in Nat : n = Len(SalesRows(f)) /\ DOMAIN SalesRows(f) = 1..n
    BY <1>8, <2>4, SheetsAreSequences
  <2>6. k - 1 = n
    BY <2>1, <2>3, <2>4, <2>5
  <2>7. Recorded(Range(staged), j) = DOMAIN SalesRows(f)
    BY <2>4, <2>5, <2>6
  <2>8. TaskIsSound("end", worker'.row, f, j, Range(staged), landed)
    BY <2>4, <2>7 DEF TaskIsSound, Written
  <2> QED
    BY <1>5, <2>2, <2>8
<1> QED
  BY <1>6, <1>7, <1>9, <1>10

(* There are no jobs at first.                                             *)
LEMMA JobsStartSound == Init => JInv
<1> SUFFICES ASSUME Init PROVE JInv
  OBVIOUS
<1>1. WorkerIsSound(worker, jobs)
  BY InitIsSound DEF IInv
<1>2. worker.pc = "rest" /\ staged = <<>> /\ jobs = <<>> /\ landed = <<>>
  BY DEF Init, UploadsInit, Resting
<1>3. PICK e : e = <<>>
  OBVIOUS
<1>4. DOMAIN e = {} /\ e \in Seq(Files) /\ (\A T : e \in Seq(T))
  BY <1>3
<1>5. jobs = e /\ landed = e /\ staged = e /\ Range(landed) = {} /\ Range(staged) = {}
  BY <1>2, <1>3, <1>4 DEF Range
<1> QED
  BY <1>1, <1>2, <1>4, <1>5 DEF JInv, JobsAreSound

(* Every step keeps the jobs sound.                                        *)
LEMMA JobsStaySound == JInv /\ [Next]_vars => JInv'
<1> SUFFICES ASSUME JInv, [Next]_vars PROVE JInv'
  OBVIOUS
<1>1. CASE UNCHANGED <<worker, jobs, staged, landed, killed>>
  BY <1>1 DEF JInv
<1>2. CASE JobFails
  BY <1>2, JobsAreOver DEF JobFails
<1>3. CASE JobEnds
  BY <1>3, JobsAreOver DEF JobEnds
<1>4. ASSUME NEW p \in Pushes, Shipped(p) \/ ApplyTrackflowStatus(p)
      PROVE  UNCHANGED <<worker, jobs, staged, landed, killed>>
  BY <1>4 DEF Shipped, ApplyTrackflowStatus
<1> QED
  BY <1>1, <1>2, <1>3, <1>4, JobIsQueued, JobIsTaken, JobIsKilled, RowIsRecorded, FileLands, JobMovesOn
     DEF Next, UploadsNext, vars, uploadVars

(* So the status page is true.                                             *)
LEMMA StatusPageIsTrue == JInv => JobsTellTheTruth
<1> SUFFICES ASSUME JInv PROVE JobsTellTheTruth
  OBVIOUS
<1>1. ASSUME NEW j \in DOMAIN jobs
      PROVE  JobIsSound(j, jobs[j], worker.pc = "rest", worker.job, Range(staged), landed, killed)
  BY DEF JInv, JobsAreSound
<1>2. ASSUME NEW j \in DOMAIN jobs
      PROVE  /\ jobs[j].status = "running" => worker.job = j \/ j \in killed
             /\ jobs[j].status = "failed" => j \notin Range(landed)
             /\ jobs[j].kept <=> jobs[j].status \in {"queued", "running"}
             /\ jobs[j].status = "done" => Written(Content(j), j, Range(staged), landed)
  BY <1>1 DEF JobIsSound, Content
<1>3. ASSUME NEW j \in DOMAIN jobs, Written(Content(j), j, Range(staged), landed)
      PROVE  CASE Content(j).kind \in {"ROWS", "WIDE"} ->
                    {st.row : st \in {x \in Range(staged) : x.job = j}} = DOMAIN SalesRows(Content(j))
               [] OTHER -> j \in Range(landed)
  BY <1>3 DEF Written, Recorded
<1> QED
  BY <1>2, <1>3 DEF JobsTellTheTruth

-----------------------------------------------------------------------------
(* The tables an upload leaves behind.                                     *)

CustomerRec == [phone : Phones, staff : Codes \cup {Blank}, last : Nat \cup {Blank}, count : Nat]
StagedRec(n, k) == [job : 1..n, row : Nat, sale : 0..k]

(* A table as it was read, and a later one: customers keep their phones.   *)
Extends(t, c) ==
    /\ \E S : t \in Seq(S)
    /\ \A i \in DOMAIN t : i \in DOMAIN c /\ c[i].phone = t[i].phone

SalesAreSound(sl) ==
    /\ \E S : sl \in Seq(S)
    /\ \A s \in DOMAIN sl : DOMAIN sl[s] = {"customer", "no", "lines"}

OwnersAreThere(o, c) ==
    \A no \in OrderNos : o[no] = Absent \/ o[no].customer \in {NoCustomer} \cup DOMAIN c

Tables ==
    /\ CustomersOK
    /\ SalesAreSound(sales)
    /\ OwnersAreThere(online, customers)
    /\ worker.job \in 0..Len(jobs)
    /\ staged \in Seq(StagedRec(Len(jobs), Len(sales)))
    /\ outbox \subseteq Pushes /\ killed \subseteq DOMAIN jobs
    /\ worker.pc = "link" => Extends(worker.table, customers)

TInv == JInv /\ OnlineIsWhole /\ Tables

(* The oldest customer with a key has the key, or there is none.           *)
LEMMA OldestHasTheKey ==
    ASSUME NEW table, \E S : table \in Seq(S), NEW key
    PROVE  /\ Oldest(table, key) # NoCustomer =>
                 Oldest(table, key) \in DOMAIN table /\ table[Oldest(table, key)].phone = key
           /\ DOMAIN table \in SUBSET Nat /\ NoCustomer \notin DOMAIN table
<1>1. DOMAIN table \in SUBSET Nat /\ 0 \notin DOMAIN table
  OBVIOUS
<1>2. PICK Same : Same = {c \in DOMAIN table : table[c].phone = key}
  OBVIOUS
<1>3. Oldest(table, key) = IF Same = {} THEN NoCustomer ELSE CHOOSE c \in Same : \A d \in Same : c <= d
  BY <1>2 DEF Oldest
<1>4. CASE Same = {}
  BY <1>1, <1>3, <1>4 DEF NoCustomer
<1>5. CASE Same # {}
  <2>1. \E m \in Same : \A n \in Same : m <= n
    BY <1>1, <1>2, <1>5, LeastOfNaturals
  <2>2. Oldest(table, key) \in Same
    BY <1>3, <1>5, <2>1
  <2> QED
    BY <1>1, <1>2, <2>2 DEF NoCustomer
<1> QED
  BY <1>4, <1>5

(* A customer more.                                                        *)
LEMMA CustomerIsAdded ==
    ASSUME NEW table \in Seq(CustomerRec), NEW x \in CustomerRec
    PROVE  Append(table, x) \in Seq(CustomerRec) /\ Extends(table, Append(table, x))
<1>1. PICK t : t = Append(table, x)
  OBVIOUS
<1>2. t \in Seq(CustomerRec) /\ \A i \in DOMAIN table : i \in DOMAIN t /\ t[i] = table[i]
  BY <1>1
<1> QED
  BY <1>1, <1>2 DEF Extends

(* The commit of a MAIN file adds the customers it has not found, and      *)
(* finds all the others where they were.                                   *)
LEMMA MainAddsCustomers ==
    ASSUME TInv, CommitMain, NEW f, f = Content(worker.job)
    PROVE  /\ customers' \in Seq(CustomerRec) /\ Len(customers') <= MaxCustomers
           /\ Extends(customers, customers')
           /\ \A p \in PhonesOf(f) :
                 Found(f)[p] \in DOMAIN customers' \ {NoCustomer} /\ customers'[Found(f)[p]].phone = p
<1> DEFINE P == {p \in PhonesOf(f) : Oldest(worker.table, p) = NoCustomer}
<1>1. f \in Range(Files) /\ IsFiniteSet(Named(f)) /\ f.kind = "MAIN" /\ Extends(worker.table, customers)
  <2>1. worker.pc = "link" /\ worker.job \in DOMAIN jobs
    BY DEF CommitMain, TInv, JInv, WorkerIsSound
  <2>2. TaskIsSound(worker.pc, worker.row, f, worker.job, Range(staged), landed)
    BY <2>1 DEF TInv, JInv, JobsAreSound, Content
  <2> QED
    BY <2>1, <2>2, ContentIsAFile DEF TInv, JInv, TaskIsSound, Tables
<1>2. PhonesOf(f) \subseteq Phones
  <2>1. \A no \in Named(f) : LastAbout(f, no) \in Range(f.rows)
    BY <1>1, OrdersOfAFile
  <2>2. \A r \in Range(f.rows) : r.phone \in Phones \cup {Blank}
    BY <1>1, FilesAreWorkbooks
  <2> QED
    BY <2>1, <2>2 DEF PhonesOf, PhoneOf
<1>3. IsFiniteSet(P)
  <2> DEFINE Image == {PhoneOf(f, no) : no \in Named(f)}
             g == [no \in Named(f) |-> PhoneOf(f, no)]
  <2>1. g \in Surjection(Named(f), Image)
    BY DEF Surjection
  <2>2. IsFiniteSet(Image)
    <3> HIDE DEF g, Image
    <3> QED
      BY <1>1, <2>1, FS_Surjection
  <2>3. P \in SUBSET Image
    BY DEF PhonesOf
  <2> HIDE DEF P, Image
  <2> QED
    BY <2>2, <2>3, FS_Subset
<1>4. Unknown(f) = SetToSeq(P)
  BY DEF Unknown
<1>5. \A p \in P : p \in PhonesOf(f) /\ p \in Phones
  BY <1>2
<1>6. \A p \in PhonesOf(f) : p \notin P => Oldest(worker.table, p) # NoCustomer
  OBVIOUS
<1> HIDE DEF P
<1>7. PICK new \in Seq(P) : new = Unknown(f) /\ \A p \in P : \E i \in DOMAIN new : new[i] = p
  BY <1>3, <1>4, SequenceOfSet
<1>8. PICK n \in Nat : n = Len(new) /\ DOMAIN new = 1..n
  BY <1>7
<1>9. PICK added : added = [i \in 1..n |-> Customer(new[i], Blank)]
  OBVIOUS
<1>10. customers' = customers \o added /\ Len(customers) + n <= MaxCustomers
  BY <1>7, <1>8, <1>9 DEF CommitMain
<1>11. \A i \in 1..n : new[i] \in P
  BY <1>7, <1>8
<1>12. \A i \in 1..n : added[i] \in CustomerRec /\ added[i].phone = new[i]
  BY <1>5, <1>9, <1>11 DEF Customer, CustomerRec
<1>13. PICK CR : CR = CustomerRec
  OBVIOUS
<1>14. customers \in Seq(CR)
  BY <1>13 DEF TInv, Tables, CustomersOK, CustomerRec
<1>15. added \in Seq(CR) /\ Len(added) = n
  <2>1. added \in [1..n -> CR]
    BY <1>9, <1>12, <1>13
  <2>2. \A h \in [1..n -> CR] : h \in Seq(CR) /\ Len(h) = n
    OBVIOUS
  <2> QED
    BY <2>1, <2>2
<1>16. PICK m \in Nat : m = Len(customers) /\ DOMAIN customers = 1..m
  BY <1>14
<1>a. PICK c2 : c2 = customers \o added
  OBVIOUS
<1>17. /\ c2 \in Seq(CR) /\ Len(c2) = m + n /\ DOMAIN c2 = 1..(m + n)
       /\ \A i \in 1..m : c2[i] = customers[i]
       /\ \A i \in 1..n : c2[m + i] = added[i]
  <2>1. PICK c1 : c1 = customers
    OBVIOUS
  <2>2. c1 \in Seq(CR) /\ Len(c1) = m
    BY <1>14, <1>16, <2>1
  <2>3. c1 \o added \in Seq(CR) /\ Len(c1 \o added) = m + n /\ DOMAIN (c1 \o added) = 1..(m + n)
    BY <1>15, <2>2
  <2>4. PICK cc : cc = c1 \o added
    OBVIOUS
  <2>5. \A i \in 1..(m + n) : cc[i] = IF i <= m THEN c1[i] ELSE added[i - m]
    <3>1. \A a, b \in Seq(CR) : \A i \in 1..(Len(a) + Len(b)) :
             (a \o b)[i] = IF i <= Len(a) THEN a[i] ELSE b[i - Len(a)]
      OBVIOUS
    <3>2. \A i \in 1..(Len(c1) + Len(added)) :
             (c1 \o added)[i] = IF i <= Len(c1) THEN c1[i] ELSE added[i - Len(c1)]
      BY <1>15, <2>2, <3>1
    <3> QED
      BY <1>15, <2>2, <2>4, <3>2
  <2>6. \A i \in 1..m : cc[i] = c1[i]
    BY <1>8, <1>16, <2>5
  <2>7. \A i \in 1..n : cc[m + i] = added[i]
    <3>1. TAKE i \in 1..n
    <3>2. PICK j : j = m + i
      OBVIOUS
    <3>3. j \in 1..(m + n) /\ ~ (j <= m) /\ j - m = i
      BY <1>8, <1>16, <3>2
    <3>4. cc[j] = added[j - m]
      BY <2>5, <3>3
    <3> QED
      BY <3>2, <3>3, <3>4
  <2> QED
    BY <1>a, <2>1, <2>3, <2>4, <2>6, <2>7
<1>18. Extends(customers, c2)
  <2>1. \A i \in 1..m : i \in 1..(m + n)
    BY <1>16
  <2> QED
    BY <1>14, <1>16, <1>17, <2>1 DEF Extends
<1>19. ASSUME NEW p \in PhonesOf(f)
       PROVE  Found(f)[p] \in DOMAIN c2 \ {NoCustomer} /\ c2[Found(f)[p]].phone = p
  <2>1. CASE p \in P
    <3>1. p \in Range(new)
      BY <1>7, <2>1 DEF Range
    <3>2. PICK i : i = CHOOSE k \in DOMAIN new : new[k] = p
      OBVIOUS
    <3>3. i \in 1..n /\ new[i] = p
      BY <1>7, <1>8, <2>1, <3>2
    <3>4. Found(f)[p] = m + i
      BY <1>7, <1>16, <3>1, <3>2 DEF Found
    <3>5. m + i \in 1..(m + n) /\ m + i # 0
      BY <1>8, <1>16, <3>3
    <3> QED
      BY <1>12, <1>17, <3>3, <3>4, <3>5 DEF NoCustomer
  <2>2. CASE p \notin P
    <3>1. p \notin Range(new)
      BY <1>8, <1>11, <2>2 DEF Range
    <3>2. Found(f)[p] = Oldest(worker.table, p)
      BY <1>7, <3>1 DEF Found
    <3>3. PICK k : k = Oldest(worker.table, p)
      OBVIOUS
    <3>4. k # NoCustomer /\ k \in DOMAIN worker.table /\ worker.table[k].phone = p
      BY <1>1, <1>6, <2>2, <3>3, OldestHasTheKey DEF Extends
    <3>5. k \in DOMAIN customers /\ customers[k].phone = p
      BY <1>1, <3>4 DEF Extends
    <3>6. k \in DOMAIN c2 /\ c2[k].phone = p
      BY <1>18, <3>5 DEF Extends
    <3> QED
      BY <3>2, <3>3, <3>4, <3>6
  <2> QED
    BY <2>1, <2>2
<1> QED
  BY <1>10, <1>13, <1>16, <1>a, <1>17, <1>18, <1>19

(* A row that is valid has a key that is a phone.                          *)
LEMMA KeyIsAPhone ==
    ASSUME NEW p1 \in Phones \cup {Blank}, NEW p2 \in Phones \cup {Blank}, p1 # Blank \/ p2 # Blank
    PROVE  PhoneKey(p1, p2) \in Phones
  BY DEF PhoneKey

(* The orders of a customer are counted.                                   *)
LEMMA SalesAreCounted ==
    ASSUME NEW sl, \E S : sl \in Seq(S), NEW c
    PROVE  SalesOf(c, sl) \in Nat
<1>1. PICK n \in Nat : DOMAIN sl = 1..n
  OBVIOUS
<1>2. IsFiniteSet(1..n)
  BY FS_Interval
<1>3. PICK T : T = {s \in DOMAIN sl : sl[s].customer = c}
  OBVIOUS
<1>4. T \in SUBSET (1..n)
  BY <1>1, <1>3
<1>5. IsFiniteSet(T)
  BY <1>2, <1>4, FS_Subset
<1>6. Cardinality(T) \in Nat
  BY <1>5, FS_CardinalityType
<1> QED
  BY <1>3, <1>6 DEF SalesOf

(* The sale of a row is one there is, or none.                             *)
LEMMA SaleIsThere ==
    ASSUME \E S : sales \in Seq(S), NEW c, NEW r
    PROVE  SaleOf(c, r) = 0 \/ SaleOf(c, r) \in DOMAIN sales
<1>1. PICK Same : Same = {s \in DOMAIN sales : sales[s].customer = c /\ sales[s].no = r.no}
  OBVIOUS
<1>2. SaleOf(c, r) = IF r.no = Blank THEN 0
                     ELSE IF Same = {} THEN 0 ELSE CHOOSE s \in Same : \A t \in Same : s <= t
  BY <1>1 DEF SaleOf
<1>3. Same \in SUBSET Nat
  BY <1>1
<1>4. Same # {} => \E m \in Same : \A n \in Same : m <= n
  BY <1>3, LeastOfNaturals
<1> QED
  BY <1>1, <1>2, <1>4

(* What a row does to the sales: nothing, a line in a sale there is, or a  *)
(* sale more.                                                              *)
SalesTake(sl, sl2, r, v) ==
    \/ v = 0 /\ sl2 = sl /\ ~ Valid(r)
    \/ v \in DOMAIN sl /\ sl2 = [sl EXCEPT ![v].lines = Merged(@, r)]
    \/ v = Len(sl) + 1 /\ \E c : sl2 = Append(sl, [customer |-> c, no |-> r.no, lines |-> Merged(<<>>, r)])

(* The rows of a file, as the worker meets them.                           *)
LEMMA RowsAreTyped ==
    ASSUME TInv, ImportRow, NEW r, r = SalesRows(Content(worker.job))[worker.row]
    PROVE  /\ r.p1 \in Phones \cup {Blank} /\ r.p2 \in Phones \cup {Blank} /\ r.staff \in Codes \cup {Blank}
           /\ r.date \in Nat \cup {Blank} /\ r.qty \in Nat
           /\ worker.job \in DOMAIN jobs /\ worker.row \in Nat
<1>1. PICK f : f = Content(worker.job)
  OBVIOUS
<1>2. worker.pc = "row" /\ worker.row <= Len(SalesRows(f)) /\ worker.job \in DOMAIN jobs
  BY <1>1 DEF ImportRow, TInv, JInv, WorkerIsSound
<1>3. TaskIsSound("row", worker.row, f, worker.job, Range(staged), landed)
  BY <1>1, <1>2 DEF TInv, JInv, JobsAreSound, Content
<1>4. f.kind \in {"ROWS", "WIDE"} /\ worker.row \in Nat \ {0}
  BY <1>3 DEF TaskIsSound
<1>5. f \in Range(Files)
  BY <1>1, <1>2, ContentIsAFile DEF TInv, JInv
<1>6. /\ Len(SalesRows(f)) \in Nat /\ DOMAIN SalesRows(f) = 1..Len(SalesRows(f))
      /\ \A x \in Range(SalesRows(f)) :
            /\ {x.p1, x.p2} \subseteq Phones \cup {Blank} /\ x.staff \in Codes \cup {Blank}
            /\ x.date \in Nat \cup {Blank} /\ x.qty \in Nat
  BY <1>4, <1>5, SheetsAreSequences
<1>7. worker.row \in DOMAIN SalesRows(f)
  BY <1>2, <1>4, <1>6
<1>8. r \in Range(SalesRows(f))
  BY <1>1, <1>7 DEF Range
<1> QED
  BY <1>2, <1>4, <1>6, <1>8

(* A row of a table is updated: it keeps its phone.                        *)
Updated(t, c, last, count) == [t EXCEPT ![c].last = last, ![c].count = count]

LEMMA CustomerIsUpdated ==
    ASSUME NEW t \in Seq(CustomerRec), NEW c, NEW last \in Nat \cup {Blank}, NEW count \in Nat,
           NEW u, u = Updated(t, c, last, count)
    PROVE  u \in Seq(CustomerRec) /\ Len(u) = Len(t) /\ Extends(t, u)
<1>1. PICK n \in Nat : n = Len(t) /\ DOMAIN t = 1..n
  OBVIOUS
<1>2. CASE c \in 1..n
  <2>1. PICK y : y = t[c]
    OBVIOUS
  <2>2. y \in CustomerRec
    BY <1>1, <1>2, <2>1
  <2>3. PICK x : x = [y EXCEPT !.last = last, !.count = count]
    OBVIOUS
  <2>4. x \in CustomerRec /\ x.phone = y.phone
    BY <2>2, <2>3 DEF CustomerRec
  <2>5. u = [i \in 1..n |-> IF i = c THEN x ELSE t[i]]
    BY <1>1, <1>2, <2>1, <2>3 DEF Updated
  <2>6. PICK CR : CR = CustomerRec
    OBVIOUS
  <2>7. u \in [1..n -> CR]
    <3>1. \A i \in 1..n : t[i] \in CR
      BY <1>1, <2>6
    <3> QED
      BY <2>4, <2>5, <2>6, <3>1
  <2>8. \A h \in [1..n -> CR] : h \in Seq(CR) /\ Len(h) = n /\ DOMAIN h = 1..n
    OBVIOUS
  <2>9. \A i \in 1..n : u[i].phone = t[i].phone
    BY <2>1, <2>4, <2>5
  <2> QED
    BY <1>1, <2>6, <2>7, <2>8, <2>9 DEF Extends
<1>3. CASE c \notin 1..n
  <2>1. u = t
    BY <1>1, <1>3 DEF Updated
  <2> QED
    BY <2>1 DEF Extends
<1> QED
  BY <1>2, <1>3

(* import_row: what a row does to the three tables.                        *)
LEMMA RowIsImported ==
    ASSUME TInv, ImportRow, NEW r, r = SalesRows(Content(worker.job))[worker.row]
    PROVE  /\ customers' \in Seq(CustomerRec) /\ Len(customers') <= MaxCustomers
           /\ Extends(customers, customers')
           /\ \E v : /\ staged' = Append(staged, [job |-> worker.job, row |-> worker.row, sale |-> v])
                     /\ SalesTake(sales, sales', r, v)
<1> DEFINE key == PhoneKey(r.p1, r.p2)
           known == Oldest(customers, key)
           table == IF known # NoCustomer THEN customers ELSE Append(customers, Customer(key, r.staff))
           c == IF known # NoCustomer THEN known ELSE Len(table)
           sale == SaleOf(c, r)
           all == IF sale # 0 THEN [sales EXCEPT ![sale].lines = Merged(@, r)]
                  ELSE Append(sales, [customer |-> c, no |-> r.no, lines |-> Merged(<<>>, r)])
           newest == table[c].last = Blank \/ (r.date # Blank /\ r.date >= table[c].last)
<1>1. /\ r.p1 \in Phones \cup {Blank} /\ r.p2 \in Phones \cup {Blank} /\ r.staff \in Codes \cup {Blank}
      /\ r.date \in Nat \cup {Blank}
  BY RowsAreTyped
<1>2. customers \in Seq(CustomerRec) /\ Len(customers) <= MaxCustomers /\ \E S : sales \in Seq(S)
  BY DEF TInv, Tables, CustomersOK, CustomerRec, SalesAreSound
<1>3. CASE ~Valid(r)
  <2>1. UNCHANGED <<customers, sales>> /\ staged' = Append(staged, [job |-> worker.job, row |-> worker.row, sale |-> 0])
    BY <1>3 DEF ImportRow
  <2>2. SalesTake(sales, sales', r, 0)
    BY <1>3, <2>1 DEF SalesTake
  <2>3. Extends(customers, customers)
    BY <1>2 DEF Extends
  <2> QED
    BY <1>2, <2>1, <2>2, <2>3
<1>4. CASE Valid(r)
  <2>1. /\ Len(table) <= MaxCustomers
        /\ sales' = all
        /\ customers' = [table EXCEPT ![c].last = IF newest THEN r.date ELSE @, ![c].count = SalesOf(c, all)]
        /\ staged' = Append(staged, [job |-> worker.job, row |-> worker.row,
                                     sale |-> IF sale # 0 THEN sale ELSE Len(all)])
    BY <1>4, ZenonT(60) DEF ImportRow
  <2>2. key \in Phones
    BY <1>1, <1>4, KeyIsAPhone DEF Valid
  <2>3. Customer(key, r.staff) \in CustomerRec
    BY <1>1, <2>2 DEF Customer, CustomerRec
  <2>4. table \in Seq(CustomerRec) /\ Extends(customers, table)
    <3>1. PICK x \in CustomerRec : x = Customer(key, r.staff)
      BY <2>3
    <3>2. Extends(customers, customers)
      BY <1>2 DEF Extends
    <3> QED
      BY <1>2, <3>1, <3>2, CustomerIsAdded
  <2>5. c \in DOMAIN table
    <3>1. CASE known # NoCustomer
      BY <1>2, <3>1, OldestHasTheKey
    <3>2. CASE known = NoCustomer
      <4>1. PICK x \in CustomerRec : x = Customer(key, r.staff)
        BY <2>3
      <4>2. table = Append(customers, x) /\ c = Len(table)
        BY <3>2, <4>1
      <4>3. Len(Append(customers, x)) \in DOMAIN Append(customers, x)
        BY <1>2
      <4> QED
        BY <4>2, <4>3
    <3> QED
      BY <3>1, <3>2
  <2> HIDE DEF key, known, table, c
  <2>6. sale = 0 \/ sale \in DOMAIN sales
    BY <1>2, SaleIsThere
  <2>7. PICK n \in Nat : n = Len(sales) /\ DOMAIN sales = 1..n
    BY <1>2
  <2>8. PICK v : v = IF sale # 0 THEN sale ELSE Len(all)
    OBVIOUS
  <2>9. SalesTake(sales, all, r, v) /\ (\E S : all \in Seq(S))
    <3> HIDE DEF sale
    <3>1. CASE sale # 0
      <4>1. all = [sales EXCEPT ![sale].lines = Merged(@, r)] /\ v = sale
        BY <2>8, <3>1
      <4>2. SalesTake(sales, all, r, v)
        BY <2>6, <3>1, <4>1 DEF SalesTake
      <4>3. PICK m : m = Merged(sales[sale].lines, r)
        OBVIOUS
      <4>4. PICK x : x = [sales[sale] EXCEPT !.lines = m]
        OBVIOUS
      <4>5. all = [sales EXCEPT ![sale] = x]
        BY <4>1, <4>3, <4>4
      <4>6. PICK S : sales \in Seq(S)
        BY <1>2
      <4>7. PICK T : T = S \cup {x}
        OBVIOUS
      <4>8. all = [i \in 1..n |-> IF i = sale THEN x ELSE sales[i]]
        BY <2>7, <4>5
      <4>9. \A i \in 1..n : (IF i = sale THEN x ELSE sales[i]) \in T
        BY <2>7, <4>6, <4>7
      <4> HIDE DEF all
      <4>10. all \in [1..n -> T]
        BY <4>8, <4>9
      <4>11. \A h \in [1..n -> T] : h \in Seq(T)
        OBVIOUS
      <4> QED
        BY <4>2, <4>10, <4>11
    <3>2. CASE sale = 0
      <4>1. PICK x : x = [customer |-> c, no |-> r.no, lines |-> Merged(<<>>, r)]
        OBVIOUS
      <4>2. all = Append(sales, x) /\ v = Len(all)
        BY <2>8, <3>2, <4>1
      <4>3. (\E S : Append(sales, x) \in Seq(S)) /\ Len(Append(sales, x)) = Len(sales) + 1
        BY <1>2, RangeGrows
      <4> HIDE DEF all
      <4> QED
        BY <4>1, <4>2, <4>3 DEF SalesTake
    <3> QED
      BY <3>1, <3>2
  <2>10. SalesOf(c, all) \in Nat
    <3> HIDE DEF all
    <3> QED
      BY <2>9, SalesAreCounted
  <2>11. PICK count \in Nat : count = SalesOf(c, all)
    BY <2>10
  <2>12. PICK last : last = IF newest THEN r.date ELSE table[c].last
    OBVIOUS
  <2>13. last \in Nat \cup {Blank}
    <3> HIDE DEF newest
    <3>1. table[c] \in CustomerRec
      BY <2>4, <2>5
    <3>2. table[c].last \in Nat \cup {Blank}
      BY <3>1 DEF CustomerRec
    <3> QED
      BY <1>1, <2>12, <3>2
  <2> HIDE DEF newest, all, sale
  <2>14. customers' = [table EXCEPT ![c].last = last, ![c].count = count]
    BY <2>1, <2>11, <2>12
  <2>15. customers' \in Seq(CustomerRec) /\ Len(customers') = Len(table) /\ Extends(table, customers')
    <3>1. PICK t, d, u : t = table /\ d = c /\ u = customers'
      OBVIOUS
    <3>2. t \in Seq(CustomerRec) /\ u = Updated(t, d, last, count)
      BY <2>4, <2>14, <3>1 DEF Updated
    <3>3. u \in Seq(CustomerRec) /\ Len(u) = Len(t) /\ Extends(t, u)
      BY <2>11, <2>13, <3>2, CustomerIsUpdated
    <3> QED
      BY <3>1, <3>3
  <2>16. Extends(customers, customers')
    BY <2>4, <2>15 DEF Extends
  <2> QED
    BY <2>1, <2>8, <2>9, <2>15, <2>16
<1> QED
  BY <1>3, <1>4

(* Jobs stay, with their files.                                            *)
LEMMA JobsStay ==
    ASSUME WorkerIsSound(worker, jobs), [Next]_vars
    PROVE  /\ Len(jobs) \in Nat /\ DOMAIN jobs = 1..Len(jobs)
           /\ Len(jobs') \in Nat /\ DOMAIN jobs' = 1..Len(jobs') /\ Len(jobs) <= Len(jobs')
           /\ \A j \in DOMAIN jobs : j \in DOMAIN jobs' /\ jobs'[j].file = jobs[j].file
<1>1. PICK js \in Seq(Job) : js = jobs
  BY DEF WorkerIsSound
<1>2. PICK n \in Nat : n = Len(js) /\ DOMAIN js = 1..n
  BY <1>1
<1>3. CASE UNCHANGED jobs
  BY <1>1, <1>2, <1>3
<1>4. ASSUME NEW f \in DOMAIN Files, Upload(f)
      PROVE  Len(jobs') = n + 1 /\ DOMAIN jobs' = 1..(n + 1) /\ \A j \in 1..n : jobs'[j] = js[j]
  <2>1. PICK x : jobs' = Append(js, x)
    BY <1>1, <1>4 DEF Upload
  <2> QED
    BY <1>1, <1>2, <2>1
<1>5. ASSUME NEW j \in 1..n, NEW x, x.file = js[j].file, jobs' = [js EXCEPT ![j] = x]
      PROVE  Len(jobs') = n /\ DOMAIN jobs' = 1..n /\ \A i \in 1..n : jobs'[i].file = js[i].file
  <2>1. jobs' = [i \in 1..n |-> IF i = j THEN x ELSE js[i]]
    BY <1>2, <1>5
  <2>2. DOMAIN jobs' = 1..n /\ \A i \in 1..n : jobs'[i].file = js[i].file
    BY <1>5, <2>1
  <2>3. Len([js EXCEPT ![j] = x]) = Len(js)
    BY <1>1
  <2> QED
    BY <1>2, <1>5, <2>2, <2>3
<1>6. CASE TakeJob
  <2>1. PICK j \in 1..n : jobs' = [js EXCEPT ![j].status = "running"]
    BY <1>1, <1>2, <1>6 DEF TakeJob
  <2>2. js[j] \in Job
    BY <1>1, <1>2
  <2>3. PICK x : x = [js[j] EXCEPT !.status = "running"]
    OBVIOUS
  <2>4. x.file = js[j].file
    BY <2>2, <2>3 DEF Job
  <2> QED
    BY <1>1, <1>2, <1>5, <2>1, <2>3, <2>4
<1>7. CASE JobFails \/ JobEnds
  <2>1. PICK s \in {"done", "failed"} : jobs' = Outcome(s) /\ worker.job \in DOMAIN js
    BY <1>1, <1>7 DEF JobFails, JobEnds, WorkerIsSound
  <2>2. PICK j \in 1..n : j = worker.job
    BY <1>2, <2>1
  <2>3. js[j] \in Job
    BY <1>1, <1>2
  <2>4. PICK x : x = [js[j] EXCEPT !.status = s, !.kept = FALSE]
    OBVIOUS
  <2>5. x.file = js[j].file
    BY <2>3, <2>4 DEF Job
  <2>6. jobs' = [js EXCEPT ![j] = x]
    BY <1>1, <2>1, <2>2, <2>4 DEF Outcome
  <2> QED
    BY <1>1, <1>2, <1>5, <2>5, <2>6
<1>8. [Next]_vars => \/ UNCHANGED jobs \/ TakeJob \/ JobFails \/ JobEnds
                     \/ \E f \in DOMAIN Files : Upload(f)
  BY DEF Next, UploadsNext, vars, uploadVars, WorkerDies, ReadOnline, LookForCustomers, CommitMain, CommitDetail,
     OpenRows, ImportRow, RowsEnd, Shipped, ApplyTrackflowStatus
<1> QED
  BY <1>1, <1>2, <1>3, <1>4, <1>6, <1>7, <1>8

(* Customers keep their phones, and the bounds hold.                       *)
LEMMA CustomersStay ==
    ASSUME TInv, [Next]_vars
    PROVE  CustomersOK' /\ Extends(customers, customers')
<1>1. /\ customers \in Seq(CustomerRec) /\ Len(customers) <= MaxCustomers /\ ops \in 0..MaxOps /\ MaxOps \in Nat
  BY TableIsBounded DEF TInv, Tables, CustomersOK, CustomerRec
<1>2. ops' \in 0..MaxOps
  <2>1. Begun => ops' \in 0..MaxOps
    BY <1>1 DEF Begun
  <2>2. ops' = ops \/ Begun
    <3>1. DeskNext => ops' = ops \/ Begun
      BY DEF DeskNext, CloseTeam, OpenIntake, ResolveIntake, LockTeam, SaveTeam, ReadRow, EnsureLeadOrIntake,
         StartBackfill, BackfillChunk, BackfillCustomer, BackfillQueue, BackfillEnds, BackfillDies, AskTeam, Tick
    <3>2. UploadsNext => ops' = ops \/ Begun
      BY DEF UploadsNext, Upload, TakeJob, JobFails, WorkerDies, JobEnds, ReadOnline, LookForCustomers, CommitMain,
         CommitDetail, OpenRows, ImportRow, RowsEnd, Shipped, ApplyTrackflowStatus, CustomerArrives
    <3> QED
      BY <3>1, <3>2 DEF Next, vars
  <2> QED
    BY <1>1, <2>1, <2>2
<1>3. ASSUME customers' \in Seq(CustomerRec), Len(customers') <= MaxCustomers, Extends(customers, customers')
      PROVE  CustomersOK' /\ Extends(customers, customers')
  BY <1>2, <1>3 DEF CustomersOK, CustomerRec
<1>4. CASE UNCHANGED customers
  <2>1. Extends(customers, customers)
    BY <1>1 DEF Extends
  <2> QED
    BY <1>1, <1>3, <1>4, <2>1
<1>5. CASE CommitMain
  <2>1. PICK f : f = Content(worker.job)
    OBVIOUS
  <2> QED
    BY <1>3, <1>5, <2>1, MainAddsCustomers
<1>6. CASE ImportRow
  <2>1. PICK r : r = SalesRows(Content(worker.job))[worker.row]
    OBVIOUS
  <2> QED
    BY <1>3, <1>6, <2>1, RowIsImported
<1>7. ASSUME NEW phone \in Phones, NEW staff \in Codes \cup {Blank}, CustomerArrives(phone, staff),
             customers' # customers
      PROVE  CustomersOK' /\ Extends(customers, customers')
  <2>1. PICK x : x = Customer(phone, staff)
    OBVIOUS
  <2>2. x \in CustomerRec
    BY <2>1 DEF Customer, CustomerRec
  <2>3. customers' = Append(customers, x) /\ Len(customers) < MaxCustomers
    BY <1>7, <2>1 DEF CustomerArrives
  <2>4. Len(Append(customers, x)) = Len(customers) + 1 /\ Len(customers) \in Nat
    BY <1>1, RangeGrows
  <2>5. Len(Append(customers, x)) <= MaxCustomers
    BY <2>3, <2>4, TableIsBounded
  <2> QED
    BY <1>1, <1>3, <2>2, <2>3, <2>5, CustomerIsAdded
<1>8. DeskNext => UNCHANGED customers
  BY DEF DeskNext, CloseTeam, OpenIntake, ResolveIntake, LockTeam, SaveTeam, ReadRow, EnsureLeadOrIntake,
     StartBackfill, BackfillChunk, BackfillCustomer, BackfillQueue, BackfillEnds, BackfillDies, AskTeam, Tick
<1> QED
  BY <1>4, <1>5, <1>6, <1>7, <1>8
     DEF Next, UploadsNext, vars, Upload, TakeJob, JobFails, WorkerDies, JobEnds, ReadOnline, LookForCustomers,
         CommitDetail, OpenRows, RowsEnd, Shipped, ApplyTrackflowStatus

(* A row goes into one sale, and sales stay.                               *)
LEMMA SalesStay ==
    ASSUME NEW sl, NEW sl2, NEW r, NEW v, SalesAreSound(sl), SalesTake(sl, sl2, r, v)
    PROVE  /\ SalesAreSound(sl2) /\ Len(sl) \in Nat /\ Len(sl2) \in Nat /\ Len(sl) <= Len(sl2)
           /\ DOMAIN sl = 1..Len(sl) /\ DOMAIN sl2 = 1..Len(sl2)
           /\ v \in 0..Len(sl2)
           /\ \A s \in DOMAIN sl2 : s \in DOMAIN sl \/ s = v
           /\ \A s \in DOMAIN sl : s # v => sl2[s] = sl[s]
           /\ v \in DOMAIN sl => sl2[v].lines = Merged(sl[v].lines, r)
           /\ v # 0 /\ v \notin DOMAIN sl => v = Len(sl) + 1 /\ Len(sl2) = v /\ sl2[v].lines = Merged(<<>>, r)
<1> DEFINE Cols == {"customer", "no", "lines"}
<1>1. PICK S : sl \in Seq(S)
  BY DEF SalesAreSound
<1>2. PICK n \in Nat : n = Len(sl) /\ DOMAIN sl = 1..n
  BY <1>1
<1>3. CASE v = 0 /\ sl2 = sl
  BY <1>2, <1>3
<1>4. CASE v \in DOMAIN sl /\ sl2 = [sl EXCEPT ![v].lines = Merged(@, r)]
  <2>1. PICK y, m : y = sl[v] /\ m = Merged(sl[v].lines, r)
    OBVIOUS
  <2>2. PICK x : x = [y EXCEPT !.lines = m]
    OBVIOUS
  <2>3. DOMAIN y = Cols
    BY <1>4, <2>1 DEF SalesAreSound
  <2>4. DOMAIN x = Cols /\ x.lines = m
    BY <2>2, <2>3
  <2>5. sl2 = [i \in 1..n |-> IF i = v THEN x ELSE sl[i]]
    BY <1>2, <1>4, <2>1, <2>2
  <2>6. PICK T : T = S \cup {x}
    OBVIOUS
  <2>7. \A i \in 1..n : (IF i = v THEN x ELSE sl[i]) \in T
    BY <1>1, <1>2, <2>6
  <2>8. sl2 \in [1..n -> T]
    BY <2>5, <2>7
  <2>9. \A h \in [1..n -> T] : h \in Seq(T) /\ Len(h) = n /\ DOMAIN h = 1..n
    OBVIOUS
  <2>10. sl2 \in Seq(T) /\ Len(sl2) = n /\ DOMAIN sl2 = 1..n
    BY <2>8, <2>9
  <2>11. \A s \in 1..n : DOMAIN sl2[s] = Cols
    BY <1>2, <2>4, <2>5 DEF SalesAreSound
  <2>12. SalesAreSound(sl2)
    BY <2>10, <2>11 DEF SalesAreSound
  <2>13. v \in 1..n /\ v # 0
    BY <1>2, <1>4
  <2> QED
    BY <1>2, <2>1, <2>4, <2>5, <2>10, <2>12, <2>13
<1>5. ASSUME v = Len(sl) + 1, NEW c, sl2 = Append(sl, [customer |-> c, no |-> r.no, lines |-> Merged(<<>>, r)])
      PROVE  /\ SalesAreSound(sl2) /\ Len(sl2) = n + 1 /\ DOMAIN sl2 = 1..(n + 1)
             /\ \A s \in 1..n : sl2[s] = sl[s]
             /\ sl2[v].lines = Merged(<<>>, r)
  <2>1. PICK m : m = Merged(<<>>, r)
    OBVIOUS
  <2>2. PICK x : x = [customer |-> c, no |-> r.no, lines |-> m]
    OBVIOUS
  <2>3. DOMAIN x = Cols /\ x.lines = m
    BY <2>2
  <2>4. sl2 = Append(sl, x)
    BY <1>5, <2>1, <2>2
  <2>5. /\ \E T : sl2 \in Seq(T)
        /\ Len(sl2) = n + 1 /\ DOMAIN sl2 = 1..(n + 1) /\ sl2[n + 1] = x /\ \A s \in 1..n : sl2[s] = sl[s]
    BY <1>1, <1>2, <2>4, RangeGrows
  <2>6. \A s \in 1..(n + 1) : s \in 1..n \/ s = n + 1
    OBVIOUS
  <2>7. \A s \in 1..(n + 1) : DOMAIN sl2[s] = Cols
    BY <1>2, <2>3, <2>5, <2>6 DEF SalesAreSound
  <2>8. SalesAreSound(sl2)
    BY <2>5, <2>7 DEF SalesAreSound
  <2> QED
    BY <1>2, <1>5, <2>1, <2>3, <2>5, <2>8
<1>6. CASE \E c : v = Len(sl) + 1 /\ sl2 = Append(sl, [customer |-> c, no |-> r.no, lines |-> Merged(<<>>, r)])
  <2>1. /\ SalesAreSound(sl2) /\ Len(sl2) = n + 1 /\ DOMAIN sl2 = 1..(n + 1)
        /\ (\A s \in 1..n : sl2[s] = sl[s])
        /\ sl2[v].lines = Merged(<<>>, r) /\ v = n + 1
    BY <1>2, <1>5, <1>6
  <2>2. v \in 0..(n + 1) /\ v \notin 1..n
    BY <2>1
  <2> QED
    BY <1>2, <2>1, <2>2
<1> QED
  BY <1>3, <1>4, <1>6 DEF SalesTake

(* What is staged stays staged; a row that is imported is.                 *)
LEMMA StagedStay ==
    ASSUME TInv, [Next]_vars
    PROVE  /\ SalesAreSound(sales') /\ staged' \in Seq(StagedRec(Len(jobs'), Len(sales')))
<1>1. /\ staged \in Seq(StagedRec(Len(jobs), Len(sales))) /\ SalesAreSound(sales)
      /\ WorkerIsSound(worker, jobs)
  BY DEF TInv, Tables, JInv
<1>2. /\ Len(jobs) \in Nat /\ DOMAIN jobs = 1..Len(jobs)
      /\ Len(jobs') \in Nat /\ Len(jobs) <= Len(jobs')
  BY <1>1, JobsStay
<1>3. \A k, k2, n, n2 \in Nat : n <= n2 /\ k <= k2 => StagedRec(n, k) \subseteq StagedRec(n2, k2)
  <2>1. TAKE k, k2, n, n2 \in Nat
  <2>2. HAVE n <= n2 /\ k <= k2
  <2>3. 1..n \subseteq 1..n2 /\ 0..k \subseteq 0..k2
    BY <2>2
  <2> QED
    BY <2>3 DEF StagedRec
<1>4. \A A, B : A \subseteq B => \A q \in Seq(A) : q \in Seq(B)
  OBVIOUS
<1>5. CASE ImportRow
  <2>1. PICK r : r = SalesRows(Content(worker.job))[worker.row]
    OBVIOUS
  <2>2. PICK v : /\ staged' = Append(staged, [job |-> worker.job, row |-> worker.row, sale |-> v])
                 /\ SalesTake(sales, sales', r, v)
    BY <1>5, <2>1, RowIsImported
  <2>3. /\ SalesAreSound(sales') /\ Len(sales) \in Nat /\ Len(sales') \in Nat /\ Len(sales) <= Len(sales')
        /\ v \in 0..Len(sales')
    BY <1>1, <2>2, SalesStay
  <2>4. PICK A, B : A = StagedRec(Len(jobs), Len(sales)) /\ B = StagedRec(Len(jobs'), Len(sales'))
    OBVIOUS
  <2>5. A \subseteq B
    BY <1>2, <1>3, <2>3, <2>4
  <2>6. PICK x : x = [job |-> worker.job, row |-> worker.row, sale |-> v]
    OBVIOUS
  <2>7. worker.job \in 1..Len(jobs) /\ worker.row \in Nat
    BY <1>2, <1>5, <2>1, RowsAreTyped
  <2>8. worker.job \in 1..Len(jobs')
    BY <1>2, <2>7
  <2>9. x \in B
    BY <2>3, <2>4, <2>6, <2>7, <2>8 DEF StagedRec
  <2>10. staged \in Seq(B)
    BY <1>1, <1>4, <2>4, <2>5
  <2>11. Append(staged, x) \in Seq(B)
    BY <2>9, <2>10
  <2> QED
    BY <2>2, <2>3, <2>4, <2>6, <2>11
<1>6. CASE ~ ImportRow
  <2>1. UNCHANGED <<sales, staged>>
    BY <1>6 DEF Next, UploadsNext, vars, uploadVars, Upload, TakeJob, JobFails, WorkerDies, JobEnds, ReadOnline,
       LookForCustomers, CommitMain, CommitDetail, OpenRows, RowsEnd, Shipped, ApplyTrackflowStatus
  <2>2. Len(sales) \in Nat
    BY <1>1 DEF SalesAreSound
  <2>3. StagedRec(Len(jobs), Len(sales)) \subseteq StagedRec(Len(jobs'), Len(sales))
    BY <1>2, <1>3, <2>2
  <2>4. PICK A, B : A = StagedRec(Len(jobs), Len(sales)) /\ B = StagedRec(Len(jobs'), Len(sales))
    OBVIOUS
  <2>5. staged \in Seq(B)
    BY <1>1, <1>4, <2>3, <2>4
  <2> QED
    BY <1>1, <2>1, <2>4, <2>5
<1> QED
  BY <1>5, <1>6

(* An order's customer is one there is.                                    *)
LEMMA OwnersStay ==
    ASSUME TInv, [Next]_vars
    PROVE  OwnersAreThere(online', customers')
<1>1. /\ OwnersAreThere(online, customers) /\ OnlineIsWhole
      /\ DOMAIN customers \subseteq DOMAIN customers'
  <2>1. Extends(customers, customers')
    BY CustomersStay
  <2> QED
    BY <2>1 DEF TInv, Tables, Extends
<1>2. \A no \in OrderNos : Known(online[no]).customer \in {NoCustomer} \cup DOMAIN customers
  BY <1>1 DEF OwnersAreThere, Known, NewOrder
<1>3. CASE UNCHANGED online
  BY <1>1, <1>3 DEF OwnersAreThere
<1>4. CASE CommitMain
  <2>1. PICK f : f = Content(worker.job)
    OBVIOUS
  <2>2. \A p \in PhonesOf(f) : Found(f)[p] \in DOMAIN customers'
    BY <1>4, <2>1, MainAddsCustomers
  <2>3. ASSUME NEW no \in OrderNos, no \in Named(f)
        PROVE  online'[no].customer \in {NoCustomer} \cup DOMAIN customers'
    <3>1. PICK o, r : o = Known(online[no]) /\ r = LastAbout(f, no)
      OBVIOUS
    <3>2. online'[no].customer = IF r.phone = Blank THEN o.customer ELSE Found(f)[r.phone]
      BY <1>1, <1>4, <2>1, <2>3, <3>1, MainIsCommitted
    <3>3. r.phone # Blank => r.phone \in PhonesOf(f)
      BY <2>3, <3>1 DEF PhonesOf, PhoneOf
    <3> QED
      BY <1>1, <1>2, <2>2, <3>1, <3>2, <3>3
  <2>4. \A no \in OrderNos : no \notin Named(f) => online'[no] = online[no]
    BY <1>1, <1>4, <2>1, MainIsCommitted
  <2> QED
    BY <1>1, <2>3, <2>4 DEF OwnersAreThere
<1>5. CASE CommitDetail
  <2>1. PICK f : f = Content(worker.job)
    OBVIOUS
  <2>2. \A no \in OrderNos : IF no \in Named(f) THEN online'[no].customer = Known(online[no]).customer
                             ELSE online'[no] = online[no]
    BY <1>1, <1>5, <2>1, DetailIsCommitted
  <2> QED
    BY <1>1, <1>2, <2>2 DEF OwnersAreThere
<1>6. ASSUME NEW p \in Pushes, ApplyTrackflowStatus(p) PROVE OwnersAreThere(online', customers')
  <2>1. Agree(online, online')
    BY <1>1, <1>6, PushIsApplied
  <2> QED
    BY <1>1, <2>1 DEF OwnersAreThere, Agree, SameOrder
<1> QED
  BY <1>3, <1>4, <1>5, <1>6
     DEF Next, UploadsNext, vars, uploadVars, Upload, TakeJob, JobFails, WorkerDies, JobEnds, ReadOnline,
         LookForCustomers, OpenRows, ImportRow, RowsEnd, Shipped

(* The worker's job, what it has read of the customers, and the outbox.    *)
LEMMA WorkerStaysAtItsJob ==
    ASSUME TInv, [Next]_vars
    PROVE  /\ worker'.job \in 0..Len(jobs')
           /\ worker'.pc = "link" => Extends(worker'.table, customers')
           /\ outbox' \subseteq Pushes /\ killed' \subseteq DOMAIN jobs'
<1>0. /\ WorkerIsSound(worker, jobs) /\ worker.job \in 0..Len(jobs)
      /\ outbox \subseteq Pushes /\ killed \subseteq DOMAIN jobs
      /\ worker.pc = "link" => Extends(worker.table, customers)
      /\ DOMAIN worker = {"pc", "job", "row", "read", "table"}
  BY DEF TInv, JInv, Tables, WorkerIsSound
<1>1. /\ Len(jobs) \in Nat /\ Len(jobs') \in Nat /\ Len(jobs) <= Len(jobs')
      /\ DOMAIN jobs = 1..Len(jobs) /\ DOMAIN jobs \subseteq DOMAIN jobs'
  BY <1>0, JobsStay
<1>2. Extends(customers, customers')
  BY CustomersStay
<1>3. worker.pc = "link" => Extends(worker.table, customers')
  BY <1>0, <1>2 DEF Extends
<1>4. outbox' \subseteq Pushes
  <2>1. \A p \in Pushes : Shipped(p) \/ ApplyTrackflowStatus(p) => outbox' \subseteq Pushes
    BY <1>0 DEF Shipped, ApplyTrackflowStatus
  <2> QED
    BY <1>0, <2>1 DEF Next, UploadsNext, vars, uploadVars, Upload, TakeJob, JobFails, WorkerDies, JobEnds, ReadOnline,
       LookForCustomers, CommitMain, CommitDetail, OpenRows, ImportRow, RowsEnd
<1>5. killed' \subseteq DOMAIN jobs'
  <2>1. WorkerDies => killed' \subseteq DOMAIN jobs
    BY <1>0 DEF WorkerDies, WorkerIsSound
  <2>2. WorkerDies \/ UNCHANGED killed
    BY DEF Next, UploadsNext, vars, uploadVars, Upload, TakeJob, JobFails, JobEnds, ReadOnline,
       LookForCustomers, CommitMain, CommitDetail, OpenRows, ImportRow, RowsEnd, Shipped, ApplyTrackflowStatus
  <2> QED
    BY <1>0, <1>1, <2>1, <2>2
<1>6. \A j \in 0..Len(jobs) : j \in 0..Len(jobs')
  BY <1>1
<1>7. CASE worker' = worker
  BY <1>4, <1>5, <1>0, <1>3, <1>6, <1>7
<1>8. CASE worker' = Resting
  <2>1. worker'.job = 0 /\ worker'.pc = "rest"
    BY <1>8 DEF Resting
  <2> QED
    BY <1>4, <1>5, <1>1, <1>6, <2>1
<1>9. ASSUME NEW pc \in {"start", "end"}, NEW j \in 0..Len(jobs), worker' = [Resting EXCEPT !.pc = pc, !.job = j]
      PROVE  worker'.job \in 0..Len(jobs') /\ (worker'.pc = "link" => Extends(worker'.table, customers'))
  <2>1. worker'.job = j /\ worker'.pc = pc
    BY <1>9 DEF Resting
  <2> QED
    BY <1>6, <2>1
<1>10. CASE TakeJob
  <2>1. PICK j \in DOMAIN jobs : worker' = [Resting EXCEPT !.pc = "start", !.job = j]
    BY <1>10 DEF TakeJob
  <2>2. j \in 0..Len(jobs)
    BY <1>1
  <2> QED
    BY <1>4, <1>5, <1>9, <2>1, <2>2
<1>11. CASE CommitMain \/ CommitDetail \/ RowsEnd
  <2>1. worker' = [Resting EXCEPT !.pc = "end", !.job = worker.job]
    BY <1>11 DEF CommitMain, CommitDetail, RowsEnd
  <2> QED
    BY <1>4, <1>5, <1>0, <1>9, <2>1
<1>12. CASE ReadOnline \/ OpenRows
  <2>1. worker' = [worker EXCEPT !.pc = "read", !.read = online] \/ worker' = [worker EXCEPT !.pc = "row", !.row = 1]
    BY <1>12 DEF ReadOnline, OpenRows
  <2>2. worker'.job = worker.job /\ worker'.pc # "link"
    BY <1>0, <2>1
  <2> QED
    BY <1>4, <1>5, <1>0, <1>6, <2>2
<1>13. CASE ImportRow
  <2>1. PICK k : worker' = [worker EXCEPT !.row = k]
    BY <1>13 DEF ImportRow
  <2>2. worker'.job = worker.job /\ worker'.pc = worker.pc /\ worker'.table = worker.table
    BY <1>0, <2>1
  <2> QED
    BY <1>4, <1>5, <1>0, <1>3, <1>6, <2>2
<1>14. CASE LookForCustomers
  <2>1. worker' = [worker EXCEPT !.pc = "link", !.table = customers]
    BY <1>14 DEF LookForCustomers
  <2>2. worker'.job = worker.job /\ worker'.table = customers
    BY <1>0, <2>1
  <2> QED
    BY <1>4, <1>5, <1>0, <1>2, <1>6, <2>2
<1>15. \/ worker' = worker \/ worker' = Resting \/ TakeJob \/ CommitMain \/ CommitDetail \/ RowsEnd
       \/ ReadOnline \/ OpenRows \/ ImportRow \/ LookForCustomers
  BY DEF Next, UploadsNext, vars, uploadVars, Upload, JobFails, WorkerDies, JobEnds, Shipped, ApplyTrackflowStatus
<1> QED
  BY <1>4, <1>5, <1>7, <1>8, <1>10, <1>11, <1>12, <1>13, <1>14, <1>15

(* The tables are sound at first, and every step keeps them so.            *)
LEMMA TablesStartSound == Init => TInv
<1> SUFFICES ASSUME Init PROVE TInv
  OBVIOUS
<1>1. JInv /\ OnlineIsWhole
  BY JobsStartSound, OnlineStartsWhole
<1>2. /\ online = [no \in OrderNos |-> Absent] /\ worker = Resting /\ outbox = {} /\ killed = {}
      /\ customers = Existing /\ ops = 0
  BY DEF Init, UploadsInit
<1>3. PICK e : e = <<>>
  OBVIOUS
<1>4. (\A T : e \in Seq(T)) /\ DOMAIN e = {} /\ Len(e) = 0
  BY <1>3
<1>5. sales = e /\ staged = e /\ jobs = e
  BY <1>3 DEF Init, UploadsInit
<1>6. worker.job = 0 /\ worker.pc = "rest"
  BY <1>2 DEF Resting
<1>7. CustomersOK
  BY <1>2, ExistingFit, TableIsBounded DEF CustomersOK
<1>8. SalesAreSound(sales) /\ staged \in Seq(StagedRec(Len(jobs), Len(sales)))
  BY <1>4, <1>5 DEF SalesAreSound
<1>9. OwnersAreThere(online, customers)
  BY <1>2 DEF OwnersAreThere
<1>10. worker.job \in 0..Len(jobs)
  BY <1>4, <1>5, <1>6
<1> QED
  BY <1>1, <1>2, <1>6, <1>7, <1>8, <1>9, <1>10 DEF TInv, Tables

LEMMA TablesStaySound == TInv /\ [Next]_vars => TInv'
<1> SUFFICES ASSUME TInv, [Next]_vars PROVE TInv'
  OBVIOUS
<1>1. JInv' /\ OnlineIsWhole'
  BY JobsStaySound, OnlineStaysWhole DEF TInv
<1>2. CustomersOK'
  BY CustomersStay
<1>3. SalesAreSound(sales') /\ staged' \in Seq(StagedRec(Len(jobs'), Len(sales')))
  BY StagedStay
<1>4. OwnersAreThere(online', customers')
  BY OwnersStay
<1>5. /\ worker'.job \in 0..Len(jobs')
      /\ worker'.pc = "link" => Extends(worker'.table, customers')
      /\ outbox' \subseteq Pushes /\ killed' \subseteq DOMAIN jobs'
  BY WorkerStaysAtItsJob
<1>6. Tables'
  BY <1>2, <1>3, <1>4, <1>5 DEF Tables
<1> QED
  BY <1>1, <1>6 DEF TInv

(* So they have their types.                                               *)
LEMMA TablesAreTyped == TInv => UploadsTypeOK
<1> SUFFICES ASSUME TInv PROVE UploadsTypeOK
  OBVIOUS
<1>1. /\ jobs \in Seq([file : DOMAIN Files, kept : BOOLEAN, status : {"queued", "running", "done", "failed"}])
      /\ worker.pc \in {"rest", "start", "read", "link", "row", "end"}
  BY DEF TInv, JInv, WorkerIsSound, Job
<1>2. DOMAIN jobs = 1..Len(jobs)
  BY <1>1
<1>3. staged \in Seq([job : DOMAIN jobs, row : Nat, sale : 0..Len(sales)])
  BY <1>2 DEF TInv, Tables, StagedRec
<1>4. landed \in Seq(DOMAIN jobs)
  <2>1. PICK S : landed \in Seq(S)
    BY DEF TInv, JInv, JobsAreSound
  <2>2. \A i \in DOMAIN landed : landed[i] \in DOMAIN jobs
    BY DEF TInv, JInv, JobsAreSound, Range
  <2>3. PICK D : D = DOMAIN jobs
    OBVIOUS
  <2>4. \A i \in 1..Len(landed) : landed[i] \in D
    BY <2>1, <2>2, <2>3
  <2>5. landed \in Seq(D)
    BY <2>1, <2>4
  <2> QED
    BY <2>3, <2>5
<1> QED
  BY <1>1, <1>3, <1>4 DEF TInv, Tables, OwnersAreThere, UploadsTypeOK
-----------------------------------------------------------------------------
(* A line's quantity is the sum of the rows recorded for it.               *)

(* Total, for any addends.                                                 *)
Sums(a) == CHOOSE f : f = [n \in Nat |-> IF n = 0 THEN 0 ELSE f[n-1] + a[n]]
SumsTo(a, k, f) == f = [n \in 0..k |-> IF n = 0 THEN 0 ELSE f[n-1] + a[n]]

LEMMA SumsToExist ==
    ASSUME NEW a, NEW k \in Nat PROVE \E f : SumsTo(a, k, f)
<1> DEFINE S == {j \in Nat : ~ \E f : SumsTo(a, j, f)}
<1>1. SUFFICES ASSUME S # {} PROVE FALSE
  OBVIOUS
<1>2. PICK m \in S : \A j \in S : m <= j
  BY <1>1, LeastOfNaturals
<1>3. m # 0
  <2>1. SumsTo(a, 0, [n \in 0..0 |-> 0])
    BY DEF SumsTo
  <2> QED
    BY <1>2, <2>1
<1>4. m - 1 \in Nat /\ m - 1 \notin S
  BY <1>2, <1>3
<1>5. PICK f : SumsTo(a, m - 1, f)
  BY <1>4
<1> DEFINE g == [n \in 0..m |-> IF n = m THEN f[m-1] + a[m] ELSE f[n]]
<1>6. \A n \in 0..(m-1) : f[n] = IF n = 0 THEN 0 ELSE f[n-1] + a[n]
  BY <1>5 DEF SumsTo
<1>7. \A n \in 0..m : g[n] = IF n = 0 THEN 0 ELSE g[n-1] + a[n]
  BY <1>3, <1>6
<1>8. SumsTo(a, m, g)
  <2>1. g = [n \in 0..m |-> g[n]]
    OBVIOUS
  <2> HIDE DEF g
  <2> QED
    BY <1>7, <2>1 DEF SumsTo
<1> QED
  BY <1>2, <1>8

(* What is defined so, by addends that agree, agrees.                      *)
LEMMA SumsToAgree ==
    ASSUME NEW k \in Nat, NEW f, NEW g, NEW a, NEW b,
           \A n \in 1..k : a[n] = b[n],
           \A n \in 0..k : f[n] = IF n = 0 THEN 0 ELSE f[n-1] + a[n],
           \A n \in 0..k : g[n] = IF n = 0 THEN 0 ELSE g[n-1] + b[n]
    PROVE  \A n \in 0..k : f[n] = g[n]
<1> DEFINE S == {n \in Nat : n <= k /\ f[n] # g[n]}
<1>1. SUFFICES ASSUME S # {} PROVE FALSE
  OBVIOUS
<1>2. PICK m \in S : \A j \in S : m <= j
  BY <1>1, LeastOfNaturals
<1>3. m # 0 => f[m-1] = g[m-1]
  BY <1>2
<1>4. m \in 0..k /\ (m # 0 => m \in 1..k)
  BY <1>2
<1> QED
  BY <1>2, <1>3, <1>4

(* So the recursive definition defines a function.                         *)
LEMMA SumsRecur ==
    ASSUME NEW a
    PROVE  /\ Sums(a) = [n \in Nat |-> IF n = 0 THEN 0 ELSE Sums(a)[n-1] + a[n]]
           /\ \A n \in Nat : Sums(a)[n] = IF n = 0 THEN 0 ELSE Sums(a)[n-1] + a[n]
<1> DEFINE G(n) == CHOOSE f : SumsTo(a, n, f)
           F == [n \in Nat |-> G(n)[n]]
<1>1. \A k \in Nat : \A n \in 0..k : G(k)[n] = IF n = 0 THEN 0 ELSE G(k)[n-1] + a[n]
  <2>1. TAKE k \in Nat
  <2>2. PICK f : f = G(k) /\ SumsTo(a, k, f)
    BY SumsToExist
  <2>3. \A n \in 0..k : f[n] = IF n = 0 THEN 0 ELSE f[n-1] + a[n]
    BY <2>2 DEF SumsTo
  <2> QED
    BY <2>2, <2>3
<1> HIDE DEF G
<1>2. ASSUME NEW n \in Nat PROVE F[n] = IF n = 0 THEN 0 ELSE F[n-1] + a[n]
  <2>1. G(n)[n] = IF n = 0 THEN 0 ELSE G(n)[n-1] + a[n]
    BY <1>1
  <2>2. ASSUME n # 0 PROVE G(n)[n-1] = G(n-1)[n-1]
    <3>1. PICK k \in Nat : k = n - 1
      BY <2>2
    <3>2. PICK f, g : f = G(n) /\ g = G(k)
      OBVIOUS
    <3>3. /\ \A i \in 0..k : f[i] = IF i = 0 THEN 0 ELSE f[i-1] + a[i]
          /\ \A i \in 0..k : g[i] = IF i = 0 THEN 0 ELSE g[i-1] + a[i]
      BY <1>1, <3>1, <3>2
    <3>4. \A i \in 0..k : f[i] = g[i]
      BY <3>3, SumsToAgree
    <3> QED
      BY <3>1, <3>2, <3>4
  <2> QED
    BY <2>1, <2>2
<1>3. F = [n \in Nat |-> F[n]]
  OBVIOUS
<1> HIDE DEF F
<1>4. F = [n \in Nat |-> IF n = 0 THEN 0 ELSE F[n-1] + a[n]]
  BY <1>2, <1>3
<1>5. Sums(a) = [n \in Nat |-> IF n = 0 THEN 0 ELSE Sums(a)[n-1] + a[n]]
  BY <1>4 DEF Sums
<1>6. PICK H : H = Sums(a)
  OBVIOUS
<1>7. H = [n \in Nat |-> IF n = 0 THEN 0 ELSE H[n-1] + a[n]]
  BY <1>5, <1>6
<1>8. \A n \in Nat : H[n] = IF n = 0 THEN 0 ELSE H[n-1] + a[n]
  BY <1>7
<1> QED
  BY <1>5, <1>6, <1>8

LEMMA SumsAgree ==
    ASSUME NEW k \in Nat, NEW a, NEW b, \A n \in 1..k : a[n] = b[n]
    PROVE  Sums(a)[k] = Sums(b)[k]
<1>1. PICK f, g : f = Sums(a) /\ g = Sums(b)
  OBVIOUS
<1>2. /\ \A n \in 0..k : f[n] = IF n = 0 THEN 0 ELSE f[n-1] + a[n]
      /\ \A n \in 0..k : g[n] = IF n = 0 THEN 0 ELSE g[n-1] + b[n]
  BY <1>1, SumsRecur
<1>3. \A n \in 0..k : f[n] = g[n]
  BY <1>2, SumsToAgree
<1> QED
  BY <1>1, <1>3

LEMMA SumsOfNothing ==
    ASSUME NEW k \in Nat, NEW a, \A n \in 1..k : a[n] = 0
    PROVE  Sums(a)[k] = 0
<1>1. PICK f, g : f = Sums(a) /\ g = [n \in Nat |-> 0]
  OBVIOUS
<1>2. PICK b : b = [n \in Nat |-> 0]
  OBVIOUS
<1>3. /\ \A n \in 0..k : f[n] = IF n = 0 THEN 0 ELSE f[n-1] + a[n]
      /\ \A n \in 0..k : g[n] = IF n = 0 THEN 0 ELSE g[n-1] + b[n]
      /\ \A n \in 1..k : a[n] = b[n]
  BY <1>1, <1>2, SumsRecur
<1>4. \A n \in 0..k : f[n] = g[n]
  BY <1>3, SumsToAgree
<1> QED
  BY <1>1, <1>4
(* What the rows rw add to a line, when those at the places R are about it.*)
Addend(rw, R, i) ==
    IF i \notin R THEN 0
    ELSE IF rw[i].qty = 0 /\ i = Min(R) THEN 1 ELSE rw[i].qty
Addends(rw, R) == [i \in Nat |-> Addend(rw, R, i)]

(* A sale's line k, where the rows at R of the first n are about it.       *)
LineHolds(lines, k, rw, R, n) ==
    /\ k \in DOMAIN lines <=> k # Blank /\ R # {}
    /\ k \in DOMAIN lines => lines[k] \in Nat /\ lines[k] = Sums(Addends(rw, R))[n]

(* What merging a row does to the lines.                                   *)
LEMMA RowIsMerged ==
    ASSUME NEW lines, NEW r
    PROVE  /\ r.sku # Blank => DOMAIN Merged(lines, r) = DOMAIN lines \cup {r.sku}
           /\ r.sku = Blank => Merged(lines, r) = lines
           /\ \A k \in DOMAIN lines : k # r.sku => Merged(lines, r)[k] = lines[k]
           /\ r.sku \notin DOMAIN lines /\ r.sku # Blank =>
                 Merged(lines, r)[r.sku] = IF r.qty = 0 THEN 1 ELSE r.qty
<1>1. PICK k, q, m : k = r.sku /\ q = r.qty /\ m = Merged(lines, r)
  OBVIOUS
<1>2. CASE k = Blank
  BY <1>1, <1>2 DEF Merged
<1>3. CASE k # Blank /\ k \in DOMAIN lines
  <2>1. m = [lines EXCEPT ![k] = @ + q]
    BY <1>1, <1>3 DEF Merged
  <2> QED
    BY <1>1, <1>3, <2>1
<1>4. CASE k # Blank /\ k \notin DOMAIN lines
  <2>1. PICK v : v = IF q = 0 THEN 1 ELSE q
    OBVIOUS
  <2>2. m = [x \in DOMAIN lines \cup {k} |-> IF x \in DOMAIN lines THEN lines[x] ELSE v]
    BY <1>1, <1>4, <2>1 DEF Merged
  <2> QED
    BY <1>1, <1>4, <2>1, <2>2
<1> QED
  BY <1>2, <1>3, <1>4

(* The next row leaves a line alone that it is not about,                  *)
LEMMA LineStays ==
    ASSUME NEW lines, NEW lines2, NEW k, NEW n \in Nat, NEW rw, NEW rw2, NEW R \in SUBSET (1..n),
           \A i \in 1..n : rw2[i] = rw[i],
           LineHolds(lines, k, rw, R, n),
           k \in DOMAIN lines2 <=> k \in DOMAIN lines,
           k \in DOMAIN lines => lines2[k] = lines[k]
    PROVE  LineHolds(lines2, k, rw2, R, n) /\ LineHolds(lines2, k, rw2, R, n + 1)
<1>1. PICK a, b : a = Addends(rw, R) /\ b = Addends(rw2, R)
  OBVIOUS
<1>2. \A i \in 1..n : a[i] = b[i]
  BY <1>1 DEF Addends, Addend
<1>3. n + 1 \in Nat /\ b[n + 1] = 0
  BY <1>1 DEF Addends, Addend
<1>4. Sums(a)[n] = Sums(b)[n]
  BY <1>2, SumsAgree
<1>5. Sums(b)[n + 1] = Sums(b)[n] + b[n + 1]
  <2>1. n + 1 # 0 /\ (n + 1) - 1 = n
    OBVIOUS
  <2> QED
    BY <1>3, <2>1, SumsRecur
<1>6. CASE k \in DOMAIN lines
  <2>1. lines[k] \in Nat /\ lines[k] = Sums(a)[n]
    BY <1>1, <1>6 DEF LineHolds
  <2>2. lines2[k] = Sums(b)[n] /\ lines2[k] = Sums(b)[n + 1]
    BY <1>3, <1>4, <1>5, <1>6, <2>1
  <2> QED
    BY <1>1, <1>6, <2>1, <2>2 DEF LineHolds
<1>7. CASE k \notin DOMAIN lines
  BY <1>7 DEF LineHolds
<1> QED
  BY <1>6, <1>7

(* and adds to one it is about.                                            *)
LEMMA LineGrows ==
    ASSUME NEW lines, NEW n \in Nat, NEW rw, NEW rw2, NEW R \in SUBSET (1..n), NEW r,
           \A i \in 1..n : rw2[i] = rw[i], rw2[n + 1] = r, r.qty \in Nat,
           LineHolds(lines, r.sku, rw, R, n)
    PROVE  LineHolds(Merged(lines, r), r.sku, rw2, R \cup {n + 1}, n + 1)
<1>1. PICK a, b, k, q, m, Q :
         /\ a = Addends(rw, R) /\ b = Addends(rw2, R \cup {n + 1}) /\ k = r.sku /\ q = r.qty /\ m = Merged(lines, r)
         /\ Q = R \cup {n + 1}
  OBVIOUS
<1>2. n + 1 \in Nat /\ n + 1 # 0 /\ (n + 1) - 1 = n /\ n + 1 \in Q /\ Q \in SUBSET (1..(n + 1)) /\ n + 1 \notin R
  BY <1>1
<1>3. Sums(b)[n + 1] = Sums(b)[n] + b[n + 1]
  BY <1>2, SumsRecur
<1>4. CASE k = Blank
  <2>1. k \notin DOMAIN lines /\ m = lines
    BY <1>1, <1>4, RowIsMerged DEF LineHolds
  <2> QED
    BY <1>1, <1>4, <2>1 DEF LineHolds
<1>5. CASE k # Blank /\ R # {}
  <2>1. k \in DOMAIN lines /\ lines[k] \in Nat /\ lines[k] = Sums(a)[n]
    BY <1>1, <1>5 DEF LineHolds
  <2>2. k \in DOMAIN m /\ m[k] = lines[k] + q
    <3>1. m = [lines EXCEPT ![k] = @ + q]
      BY <1>1, <1>5, <2>1 DEF Merged
    <3> QED
      BY <2>1, <3>1
  <2>3. Min(Q) = Min(R)
    <3>1. Min(R) \in R /\ \A i \in R : Min(R) <= i
      BY <1>5, MinIsLeast
    <3>2. Min(Q) \in Q /\ \A i \in Q : Min(Q) <= i
      BY <1>2, MinIsLeast
    <3>3. Min(R) \in Q /\ Min(R) \in 1..n
      BY <1>1, <3>1
    <3>4. Min(Q) <= Min(R)
      BY <3>2, <3>3
    <3>5. Min(Q) \in R
      BY <1>1, <3>2, <3>3, <3>4
    <3> QED
      BY <3>1, <3>3, <3>4, <3>5
  <2>4. Min(R) \in 1..n
    BY <1>5, MinIsLeast
  <2>5. \A i \in 1..n : a[i] = b[i]
    BY <1>1, <2>3 DEF Addends, Addend
  <2>6. b[n + 1] = q
    BY <1>1, <1>2, <2>3, <2>4 DEF Addends, Addend
  <2>7. Sums(a)[n] = Sums(b)[n]
    BY <2>5, SumsAgree
  <2>8. m[k] \in Nat /\ m[k] = Sums(b)[n + 1]
    BY <1>1, <1>3, <2>1, <2>2, <2>6, <2>7
  <2> QED
    BY <1>1, <1>2, <1>5, <2>2, <2>8 DEF LineHolds
<1>6. CASE k # Blank /\ R = {}
  <2>1. k \notin DOMAIN lines
    BY <1>1, <1>6 DEF LineHolds
  <2>2. k \in DOMAIN m /\ m[k] = IF q = 0 THEN 1 ELSE q
    <3>1. m = [x \in DOMAIN lines \cup {k} |-> IF x \in DOMAIN lines THEN lines[x] ELSE IF q = 0 THEN 1 ELSE q]
      BY <1>1, <1>6, <2>1 DEF Merged
    <3> QED
      BY <2>1, <3>1
  <2>3. Min(Q) = n + 1
    BY <1>1, <1>2, <1>6, MinIsLeast
  <2>4. \A i \in 1..n : b[i] = 0
    BY <1>1, <1>6 DEF Addends, Addend
  <2>5. b[n + 1] = IF q = 0 THEN 1 ELSE q
    BY <1>1, <1>2, <2>3 DEF Addends, Addend
  <2>6. Sums(b)[n] = 0
    BY <2>4, SumsOfNothing
  <2>7. m[k] \in Nat /\ m[k] = Sums(b)[n + 1]
    BY <1>1, <1>3, <2>2, <2>5, <2>6
  <2> QED
    BY <1>1, <1>2, <1>6, <2>2, <2>7 DEF LineHolds
<1> QED
  BY <1>4, <1>5, <1>6
(* The rows that have been recorded, and those about a sale's line.        *)
RowsStaged == [i \in DOMAIN staged |-> RowOf(staged[i])]
RowsFor(st, rw, s, k) == {i \in DOMAIN st : st[i].sale = s /\ rw[i].sku = k}

(* Every line there is is the sum of the rows about it.                    *)
LinesHold(sl, st, rw) ==
    \A s \in DOMAIN sl : \A k : LineHolds(sl[s].lines, k, rw, RowsFor(st, rw, s, k), Len(st))

LInv == TInv /\ LinesHold(sales, staged, RowsStaged)

(* A row that is merged and recorded leaves it so.                         *)
LEMMA LinesTake ==
    ASSUME NEW sl, NEW sl2, NEW st, NEW st2, NEW rw, NEW rw2, NEW r, NEW v, NEW x,
           SalesAreSound(sl), SalesTake(sl, sl2, r, v), r.qty \in Nat,
           \E S : st \in Seq(S), \A i \in DOMAIN st : st[i].sale \in 0..Len(sl),
           st2 = Append(st, x), x.sale = v,
           \A i \in DOMAIN st : rw2[i] = rw[i], rw2[Len(st) + 1] = r,
           LinesHold(sl, st, rw)
    PROVE  LinesHold(sl2, st2, rw2)
<1>1. PICK n : n = Len(st)
  OBVIOUS
<1>2. /\ n \in Nat /\ DOMAIN st = 1..n /\ Len(st2) = n + 1 /\ DOMAIN st2 = 1..(n + 1)
      /\ st2[n + 1] = x /\ \A i \in 1..n : st2[i] = st[i]
  BY <1>1, RangeGrows
<1>3. SUFFICES ASSUME NEW s \in DOMAIN sl2, NEW k
               PROVE  LineHolds(sl2[s].lines, k, rw2, RowsFor(st2, rw2, s, k), n + 1)
  BY <1>2 DEF LinesHold
<1>4. PICK R, R2 : R = RowsFor(st, rw, s, k) /\ R2 = RowsFor(st2, rw2, s, k)
  OBVIOUS
<1>5. R \in SUBSET (1..n)
  BY <1>2, <1>4 DEF RowsFor
<1>6. R2 = R \cup (IF s = v /\ k = r.sku THEN {n + 1} ELSE {})
  <2>1. \A i \in 1..(n + 1) : i \in 1..n \/ i = n + 1
    BY <1>2
  <2>2. \A i \in 1..n : i \in R2 <=> i \in R
    BY <1>1, <1>2, <1>4 DEF RowsFor
  <2>3. n + 1 \in R2 <=> s = v /\ k = r.sku
    BY <1>1, <1>2, <1>4 DEF RowsFor
  <2>4. \A i \in R2 : i \in 1..(n + 1)
    BY <1>2, <1>4 DEF RowsFor
  <2> QED
    BY <1>2, <1>5, <2>1, <2>2, <2>3, <2>4
<1>7. /\ DOMAIN sl = 1..Len(sl) /\ Len(sl) \in Nat
      /\ s \in DOMAIN sl \/ s = v
      /\ s \in DOMAIN sl /\ s # v => sl2[s] = sl[s]
      /\ s \in DOMAIN sl /\ s = v => sl2[s].lines = Merged(sl[s].lines, r)
      /\ s \notin DOMAIN sl => sl2[s].lines = Merged(<<>>, r) /\ s = Len(sl) + 1
  BY SalesStay
<1>8. PICK lines : lines = IF s \in DOMAIN sl THEN sl[s].lines ELSE <<>>
  OBVIOUS
<1>9. LineHolds(lines, k, rw, R, n)
  <2>1. CASE s \in DOMAIN sl
    BY <1>1, <1>4, <1>8, <2>1 DEF LinesHold
  <2>2. CASE s \notin DOMAIN sl
    <3>1. R = {}
      BY <1>4, <1>7, <2>2 DEF RowsFor
    <3>2. DOMAIN lines = {}
      BY <1>8, <2>2
    <3> QED
      BY <3>1, <3>2 DEF LineHolds
  <2> QED
    BY <2>1, <2>2
<1>10. \A i \in 1..n : rw2[i] = rw[i]
  BY <1>2
<1>11. rw2[n + 1] = r
  BY <1>1
<1>12. CASE s = v /\ k = r.sku
  <2>1. sl2[s].lines = Merged(lines, r)
    BY <1>7, <1>8, <1>12
  <2>2. R2 = R \cup {n + 1}
    BY <1>6, <1>12
  <2>3. LineHolds(lines, r.sku, rw, R, n)
    BY <1>9, <1>12
  <2>4. LineHolds(Merged(lines, r), r.sku, rw2, R \cup {n + 1}, n + 1)
    BY <1>2, <1>5, <1>10, <1>11, <2>3, LineGrows
  <2> QED
    BY <1>4, <1>12, <2>1, <2>2, <2>4
<1>13. CASE ~ (s = v /\ k = r.sku)
  <2>1. PICK lines2 : lines2 = sl2[s].lines
    OBVIOUS
  <2>2. /\ k \in DOMAIN lines2 <=> k \in DOMAIN lines
        /\ k \in DOMAIN lines => lines2[k] = lines[k]
    <3>1. CASE s # v
      BY <1>7, <1>8, <2>1, <3>1
    <3>2. CASE s = v
      <4>1. lines2 = Merged(lines, r) /\ k # r.sku
        BY <1>7, <1>8, <1>13, <2>1, <3>2
      <4>2. CASE r.sku = Blank
        <5>1. lines2 = lines
          BY <4>1, <4>2, RowIsMerged
        <5> QED
          BY <5>1
      <4>3. CASE r.sku # Blank
        <5>1. DOMAIN lines2 = DOMAIN lines \cup {r.sku}
          BY <4>1, <4>3, RowIsMerged
        <5>2. k \in DOMAIN lines => Merged(lines, r)[k] = lines[k]
          BY <4>1, RowIsMerged
        <5> QED
          BY <4>1, <5>1, <5>2
      <4> QED
        BY <4>2, <4>3
    <3> QED
      BY <3>1, <3>2
  <2>3. R2 = R
    BY <1>6, <1>13
  <2>4. LineHolds(lines2, k, rw2, R, n + 1)
    BY <1>2, <1>5, <1>9, <1>10, <2>2, LineStays
  <2> QED
    BY <1>4, <2>1, <2>3, <2>4
<1> QED
  BY <1>12, <1>13

LEMMA LinesStay == LInv /\ [Next]_vars => LInv'
<1> SUFFICES ASSUME LInv, [Next]_vars PROVE LInv'
  OBVIOUS
<1>1. TInv /\ TInv' /\ LinesHold(sales, staged, RowsStaged)
  BY TablesStaySound DEF LInv
<1>2. PICK rw, rw2 : rw = RowsStaged /\ rw2 = RowsStaged'
  OBVIOUS
<1>3. SalesAreSound(sales) /\ staged \in Seq(StagedRec(Len(jobs), Len(sales))) /\ WorkerIsSound(worker, jobs)
  BY <1>1 DEF TInv, Tables, JInv
<1>4. PICK J, K : J = Len(jobs) /\ K = Len(sales)
  OBVIOUS
<1>5. \A i \in DOMAIN staged : staged[i].job \in 1..J /\ staged[i].sale \in 0..K
  <2>1. \A i \in DOMAIN staged : staged[i] \in StagedRec(J, K)
    BY <1>3, <1>4
  <2> QED
    BY <2>1 DEF StagedRec
<1>6. \A j \in 1..J : jobs'[j].file = jobs[j].file
  BY <1>3, <1>4, JobsStay
<1>7. \A i \in DOMAIN staged : RowOf(staged[i]) = SalesRows(Files[jobs'[staged[i].job].file])[staged[i].row]
  BY <1>5, <1>6 DEF RowOf, Content
<1>8. /\ rw = [i \in DOMAIN staged |-> SalesRows(Files[jobs'[staged[i].job].file])[staged[i].row]]
      /\ rw2 = [i \in DOMAIN staged' |-> SalesRows(Files[jobs'[staged'[i].job].file])[staged'[i].row]]
  BY <1>2, <1>7 DEF RowsStaged, RowOf, Content
<1>9. CASE ImportRow
  <2>1. PICK r : r = SalesRows(Content(worker.job))[worker.row]
    OBVIOUS
  <2>2. PICK v : /\ staged' = Append(staged, [job |-> worker.job, row |-> worker.row, sale |-> v])
                 /\ SalesTake(sales, sales', r, v)
    BY <1>1, <1>9, <2>1, RowIsImported
  <2>3. PICK x : x = [job |-> worker.job, row |-> worker.row, sale |-> v]
    OBVIOUS
  <2>4. r.qty \in Nat /\ worker.job \in DOMAIN jobs
    BY <1>1, <1>9, <2>1, RowsAreTyped
  <2>5. PICK n : n = Len(staged)
    OBVIOUS
  <2>6. PICK st2 : st2 = staged'
    OBVIOUS
  <2>7. /\ n \in Nat /\ DOMAIN staged = 1..n /\ DOMAIN st2 = 1..(n + 1)
        /\ st2[n + 1] = x /\ \A i \in 1..n : st2[i] = staged[i]
    BY <1>3, <2>2, <2>3, <2>5, <2>6, RangeGrows
  <2>8. \A i \in DOMAIN staged : rw2[i] = rw[i]
    BY <1>8, <2>6, <2>7
  <2>9. rw2[n + 1] = r
    <3>1. n + 1 \in 1..(n + 1)
      BY <2>7
    <3>2. rw2[n + 1] = SalesRows(Files[jobs'[x.job].file])[x.row]
      BY <1>8, <2>6, <2>7, <3>1
    <3>3. x.job = worker.job /\ x.row = worker.row
      BY <2>3
    <3>4. jobs'[worker.job].file = jobs[worker.job].file
      BY <1>3, <2>4, JobsStay
    <3> QED
      BY <2>1, <3>2, <3>3, <3>4 DEF Content
  <2>10. LinesHold(sales, staged, rw)
    BY <1>1, <1>2
  <2>11. st2 = Append(staged, x) /\ x.sale = v
    BY <2>2, <2>3, <2>6
  <2>12. \A i \in DOMAIN staged : staged[i].sale \in 0..Len(sales)
    BY <1>4, <1>5
  <2>13. \E S : staged \in Seq(S)
    BY <1>3
  <2>14. PICK sl2 : sl2 = sales'
    OBVIOUS
  <2>15. LinesHold(sl2, st2, rw2)
    BY <1>3, <2>2, <2>4, <2>5, <2>8, <2>9, <2>10, <2>11, <2>12, <2>13, <2>14, LinesTake
  <2> QED
    BY <1>1, <1>2, <2>6, <2>14, <2>15 DEF LInv
<1>10. CASE ~ ImportRow
  <2>1. UNCHANGED <<sales, staged>>
    BY <1>10 DEF Next, UploadsNext, vars, uploadVars, Upload, TakeJob, JobFails, WorkerDies, JobEnds, ReadOnline,
       LookForCustomers, CommitMain, CommitDetail, OpenRows, RowsEnd, Shipped, ApplyTrackflowStatus
  <2>2. rw2 = rw
    BY <1>8, <2>1
  <2>3. LinesHold(sales', staged', rw2)
    BY <1>1, <1>2, <2>1, <2>2
  <2> QED
    BY <1>1, <1>2, <2>3 DEF LInv
<1> QED
  BY <1>9, <1>10

LEMMA LinesStart == Init => LInv
<1> SUFFICES ASSUME Init PROVE LInv
  OBVIOUS
<1>1. DOMAIN sales = {}
  BY DEF Init, UploadsInit
<1> QED
  BY <1>1, TablesStartSound DEF LInv, LinesHold

(* The definition the run checks says the same.                            *)
LEMMA LinesAreSums == LInv => LinesAreTheRows
<1> SUFFICES ASSUME LInv, NEW s \in DOMAIN sales, NEW sku \in DOMAIN sales[s].lines
             PROVE  LET Rows == {i \in DOMAIN staged : staged[i].sale = s /\ RowOf(staged[i]).sku = sku}
                        Adds(i) == IF i \notin Rows THEN 0
                                   ELSE IF RowOf(staged[i]).qty = 0 /\ i = Min(Rows) THEN 1 ELSE RowOf(staged[i]).qty
                        Total[n \in Nat] == IF n = 0 THEN 0 ELSE Total[n-1] + Adds(n)
                    IN sales[s].lines[sku] = Total[Len(staged)]
  BY DEF LinesAreTheRows
<1> DEFINE Rows == {i \in DOMAIN staged : staged[i].sale = s /\ RowOf(staged[i]).sku = sku}
           Adds(i) == IF i \notin Rows THEN 0
                      ELSE IF RowOf(staged[i]).qty = 0 /\ i = Min(Rows) THEN 1 ELSE RowOf(staged[i]).qty
           Total == CHOOSE f : f = [n \in Nat |-> IF n = 0 THEN 0 ELSE f[n-1] + Adds(n)]
<1>1. PICK rw, R, a : rw = RowsStaged /\ R = Rows /\ a = Addends(rw, R)
  OBVIOUS
<1>2. R = RowsFor(staged, rw, s, sku)
  BY <1>1 DEF RowsFor, RowsStaged
<1>3. sales[s].lines[sku] = Sums(a)[Len(staged)]
  BY <1>1, <1>2 DEF LInv, LinesHold, LineHolds
<1>4. \A i \in Nat : Adds(i) = a[i]
  BY <1>1 DEF Addends, Addend, RowsStaged
<1>5. Len(staged) \in Nat
  BY DEF LInv, TInv, Tables
<1> HIDE DEF Adds
<1>6. PICK g : g = Sums(a)
  OBVIOUS
<1>7. g = [n \in Nat |-> IF n = 0 THEN 0 ELSE g[n-1] + a[n]]
  BY <1>6, SumsRecur
<1>8. g = [n \in Nat |-> IF n = 0 THEN 0 ELSE g[n-1] + Adds(n)]
  BY <1>4, <1>7
<1>9. Total = [n \in Nat |-> IF n = 0 THEN 0 ELSE Total[n-1] + Adds(n)]
  BY <1>8
<1>10. PICK h, k : h = Total /\ k = Len(staged)
  OBVIOUS
<1> HIDE DEF Total
<1>11. h = [n \in Nat |-> IF n = 0 THEN 0 ELSE h[n-1] + a[n]]
  BY <1>4, <1>9, <1>10
<1>12. \A n \in Nat : h[n] = IF n = 0 THEN 0 ELSE h[n-1] + a[n]
  BY <1>11
<1>13. \A n \in Nat : g[n] = IF n = 0 THEN 0 ELSE g[n-1] + a[n]
  BY <1>7
<1>14. \A n \in 0..k : h[n] = g[n]
  <2>1. k \in Nat
    BY <1>5, <1>10
  <2>2. \A n \in 0..k : h[n] = IF n = 0 THEN 0 ELSE h[n-1] + a[n]
    BY <1>12
  <2>3. \A n \in 0..k : g[n] = IF n = 0 THEN 0 ELSE g[n-1] + a[n]
    BY <1>13
  <2> QED
    BY <2>1, <2>2, <2>3, SumsToAgree
<1>15. sales[s].lines[sku] = Total[Len(staged)]
  BY <1>3, <1>5, <1>6, <1>10, <1>14
<1> QED
  BY <1>15 DEF Total, Adds

(* Whatever is uploaded, and whatever fails, the tables agree.             *)
THEOREM UploadsStayTrue == Spec => []UploadsAreTrue
<1>1. LInv => UploadsAreTrue
  BY TablesAreTyped, LinesAreSums, StatusPageIsTrue DEF LInv, TInv, Tables, UploadsAreTrue
<1> QED
  BY <1>1, LinesStart, LinesStay, PTL DEF Spec

-----------------------------------------------------------------------------
(* What the files that have landed come to.                                *)

(* The first and the last that is said, when one more is said.             *)
LEMMA SaidGrows ==
    ASSUME NEW n \in Nat, NEW M \in SUBSET (1..n), NEW v, NEW v2,
           DOMAIN v = M, DOMAIN v2 = M \cup {n + 1}, \A i \in M : v2[i] = v[i]
    PROVE  /\ FirstSaid(v2) = FillIfBlank(FirstSaid(v), v2[n + 1])
           /\ LastSaid(v2) = Owned(LastSaid(v), v2[n + 1])
<1>1. PICK S, S2 : S = Said(v) /\ S2 = Said(v2)
  OBVIOUS
<1>2. S \in SUBSET (1..n) /\ S2 = S \cup (IF v2[n + 1] = Blank THEN {} ELSE {n + 1})
  BY <1>1 DEF Said
<1>3. /\ FirstSaid(v) = IF S = {} THEN Blank ELSE v[Min(S)]
      /\ LastSaid(v) = IF S = {} THEN Blank ELSE v[Max(S)]
      /\ FirstSaid(v2) = IF S2 = {} THEN Blank ELSE v2[Min(S2)]
      /\ LastSaid(v2) = IF S2 = {} THEN Blank ELSE v2[Max(S2)]
  BY <1>1 DEF FirstSaid, LastSaid
<1>4. \A i \in S : i \in M /\ v2[i] = v[i] /\ v[i] # Blank
  BY <1>1 DEF Said
<1>5. CASE v2[n + 1] = Blank
  <2>1. S2 = S
    BY <1>2, <1>5
  <2>2. S # {} => Min(S) \in S /\ Max(S) \in S
    BY <1>2, MinIsLeast, MaxIsLast
  <2> QED
    BY <1>3, <1>4, <1>5, <2>1, <2>2 DEF FillIfBlank, Owned
<1>6. CASE v2[n + 1] # Blank
  <2>0. PICK p \in Nat : p = n + 1
    OBVIOUS
  <2>1. S2 = S \cup {n + 1} /\ S2 # {} /\ S2 \in SUBSET (1..p)
    BY <1>2, <1>6, <2>0
  <2>2. /\ Min(S2) \in S2 /\ \A k \in S2 : Min(S2) <= k
        /\ Max(S2) \in S2 /\ \A k \in S2 : k <= Max(S2)
    BY <2>1, MinIsLeast, MaxIsLast
  <2>3. Max(S2) = n + 1
    <3>1. PICK m : m = Max(S2)
      OBVIOUS
    <3>2. m \in 1..p /\ p <= m
      BY <2>0, <2>1, <2>2, <3>1
    <3> QED
      BY <2>0, <3>1, <3>2
  <2>4. CASE S = {}
    <3>1. Min(S2) = n + 1
      BY <2>1, <2>2, <2>4
    <3> QED
      BY <1>3, <2>1, <2>3, <2>4, <3>1 DEF FillIfBlank, Owned
  <2>5. CASE S # {}
    <3>1. /\ Min(S) \in S /\ \A k \in S : Min(S) <= k
          /\ Max(S) \in S
      BY <1>2, <2>5, MinIsLeast, MaxIsLast
    <3>2. PICK m, m2 : m = Min(S) /\ m2 = Min(S2)
      OBVIOUS
    <3>3. m \in 1..n /\ m \in S2 /\ m2 <= m /\ m2 \in S2
      BY <1>2, <2>1, <2>2, <3>1, <3>2
    <3>4. m2 \in S
      BY <2>1, <3>3
    <3>5. m <= m2
      BY <3>1, <3>2, <3>4
    <3>6. m2 = m
      BY <1>2, <3>3, <3>4, <3>5
    <3>7. v2[m2] = v[m] /\ v[m] # Blank /\ v[Max(S)] # Blank
      BY <1>4, <3>1, <3>2, <3>6
    <3>8. PICK a, b, c : a = v[m] /\ b = v2[n + 1] /\ c = v[Max(S)]
      OBVIOUS
    <3>9. FirstSaid(v) = a /\ FirstSaid(v2) = a /\ LastSaid(v) = c /\ LastSaid(v2) = b
      BY <1>3, <2>1, <2>3, <2>5, <3>2, <3>7, <3>8
    <3> QED
      BY <1>6, <3>7, <3>8, <3>9 DEF FillIfBlank, Owned
  <2> QED
    BY <2>4, <2>5
<1> QED
  BY <1>5, <1>6

(* The committed files, and those of a kind that name an order.            *)
FilesLanded == [i \in DOMAIN landed |-> Content(landed[i])]
FilesOf(ff, kind, no) == {i \in DOMAIN ff : ff[i].kind = kind /\ no \in Named(ff[i])}

(* FilesConverge, of one order.                                            *)
ByMains(ff, no) == FirstSaid([i \in FilesOf(ff, "MAIN", no) |-> LastAbout(ff[i], no).tracking])
ByDetails(ff, no) == LastSaid([i \in FilesOf(ff, "DETAIL", no) |-> FirstAbout(ff[i], no).tracking])
PhoneBy(ff, no) == LastSaid([i \in FilesOf(ff, "MAIN", no) |-> LastAbout(ff[i], no).phone])
LinesBy(ff, no) ==
    IF FilesOf(ff, "DETAIL", no) = {} THEN <<>> ELSE Skus(ff[Max(FilesOf(ff, "DETAIL", no))], no)

OrderConverges(o, c, ff, no) ==
    /\ o = Absent <=> FilesOf(ff, "MAIN", no) = {} /\ FilesOf(ff, "DETAIL", no) = {}
    /\ o # Absent =>
          /\ o.tracking = Owned(ByMains(ff, no), ByDetails(ff, no))
          /\ o.phone = PhoneBy(ff, no)
          /\ o.lines = LinesBy(ff, no)
          /\ o.phone # Blank => o.customer # NoCustomer /\ c[o.customer].phone = o.phone

OrdersConverge(on, c, ff) == \A no \in OrderNos : OrderConverges(on[no], c, ff, no)

CInv == TInv /\ OrdersConverge(online, customers, FilesLanded)

(* Where the files in landed are.                                          *)
LEMMA LandedIsASequence ==
    ASSUME JInv
    PROVE  /\ \E S : landed \in Seq(S)
           /\ Len(landed) \in Nat /\ DOMAIN landed = 1..Len(landed)
           /\ \A i \in DOMAIN landed : landed[i] \in DOMAIN jobs
<1>1. PICK S : landed \in Seq(S)
  BY DEF JInv, JobsAreSound
<1>2. \A i \in DOMAIN landed : landed[i] \in DOMAIN jobs
  BY DEF JInv, JobsAreSound, Range
<1> QED
  BY <1>1, <1>2

LEMMA FilesDoConverge == CInv => FilesConverge
<1> SUFFICES ASSUME CInv PROVE FilesConverge
  OBVIOUS
<1>1. PICK ff : ff = FilesLanded
  OBVIOUS
<1>2. OrdersConverge(online, customers, ff)
  BY <1>1 DEF CInv
<1> SUFFICES ASSUME NEW no \in OrderNos
             PROVE  LET mains == LandedOf("MAIN", no)
                        details == LandedOf("DETAIL", no)
                        ByMain == FirstSaid([i \in mains |-> MainSays(i, no).tracking])
                        ByDetail == LastSaid([i \in details |-> DetailSays(i, no).tracking])
                    IN /\ online[no] = Absent <=> mains = {} /\ details = {}
                       /\ online[no] # Absent =>
                             /\ online[no].tracking = Owned(ByMain, ByDetail)
                             /\ online[no].phone = LastSaid([i \in mains |-> MainSays(i, no).phone])
                             /\ online[no].lines = IF details = {} THEN <<>>
                                                   ELSE Skus(Content(landed[Max(details)]), no)
                             /\ online[no].phone # Blank =>
                                   /\ online[no].customer # NoCustomer
                                   /\ customers[online[no].customer].phone = online[no].phone
  BY DEF FilesConverge
<1>3. OrderConverges(online[no], customers, ff, no)
  BY <1>2 DEF OrdersConverge
<1>4. LandedOf("MAIN", no) = FilesOf(ff, "MAIN", no) /\ LandedOf("DETAIL", no) = FilesOf(ff, "DETAIL", no)
  BY <1>1 DEF LandedOf, FilesOf, FilesLanded
<1>5. \A i \in FilesOf(ff, "MAIN", no) : MainSays(i, no) = LastAbout(ff[i], no)
  BY <1>1 DEF FilesOf, FilesLanded, MainSays
<1>6. \A i \in FilesOf(ff, "DETAIL", no) : DetailSays(i, no) = FirstAbout(ff[i], no) /\ Content(landed[i]) = ff[i]
  BY <1>1 DEF FilesOf, FilesLanded, DetailSays
<1>7. FirstSaid([i \in LandedOf("MAIN", no) |-> MainSays(i, no).tracking]) = ByMains(ff, no)
  BY <1>4, <1>5 DEF ByMains
<1>8. LastSaid([i \in LandedOf("DETAIL", no) |-> DetailSays(i, no).tracking]) = ByDetails(ff, no)
  BY <1>4, <1>6 DEF ByDetails
<1>9. LastSaid([i \in LandedOf("MAIN", no) |-> MainSays(i, no).phone]) = PhoneBy(ff, no)
  BY <1>4, <1>5 DEF PhoneBy
<1>10. (IF LandedOf("DETAIL", no) = {} THEN <<>> ELSE Skus(Content(landed[Max(LandedOf("DETAIL", no))]), no))
       = LinesBy(ff, no)
  <2>1. PICK n, D : n = Len(landed) /\ n \in Nat /\ DOMAIN landed = 1..n /\ D = FilesOf(ff, "DETAIL", no)
    BY LandedIsASequence DEF CInv, TInv
  <2>2. D \in SUBSET (1..n)
    BY <1>1, <2>1 DEF FilesOf, FilesLanded
  <2>3. D # {} => Max(D) \in D
    BY <2>1, <2>2, MaxIsLast
  <2> QED
    BY <1>4, <1>6, <2>1, <2>3 DEF LinesBy
<1> QED
  BY <1>3, <1>4, <1>7, <1>8, <1>9, <1>10 DEF OrderConverges
(* An order there is not is as one no file has named.                      *)
KnownConverges(k, c, ff, no) ==
    /\ k.tracking = Owned(ByMains(ff, no), ByDetails(ff, no))
    /\ k.phone = PhoneBy(ff, no)
    /\ k.lines = LinesBy(ff, no)
    /\ k.phone # Blank => k.customer # NoCustomer /\ c[k.customer].phone = k.phone

LEMMA AbsentIsUnnamed ==
    ASSUME NEW o, NEW c, NEW ff, NEW no, OrderConverges(o, c, ff, no)
    PROVE  KnownConverges(Known(o), c, ff, no)
<1>1. CASE o # Absent
  BY <1>1 DEF OrderConverges, KnownConverges, Known
<1>2. CASE o = Absent
  <2>1. FilesOf(ff, "MAIN", no) = {} /\ FilesOf(ff, "DETAIL", no) = {}
    BY <1>2 DEF OrderConverges
  <2>2. ASSUME NEW v, DOMAIN v = {} PROVE FirstSaid(v) = Blank /\ LastSaid(v) = Blank
    <3>1. Said(v) = {}
      BY <2>2 DEF Said
    <3> QED
      BY <3>1 DEF FirstSaid, LastSaid
  <2>3. ByMains(ff, no) = Blank
    <3>1. PICK v : v = [i \in FilesOf(ff, "MAIN", no) |-> LastAbout(ff[i], no).tracking]
      OBVIOUS
    <3> QED
      BY <2>1, <2>2, <3>1 DEF ByMains
  <2>4. PhoneBy(ff, no) = Blank
    <3>1. PICK v : v = [i \in FilesOf(ff, "MAIN", no) |-> LastAbout(ff[i], no).phone]
      OBVIOUS
    <3> QED
      BY <2>1, <2>2, <3>1 DEF PhoneBy
  <2>5. ByDetails(ff, no) = Blank
    <3>1. PICK v : v = [i \in FilesOf(ff, "DETAIL", no) |-> FirstAbout(ff[i], no).tracking]
      OBVIOUS
    <3> QED
      BY <2>1, <2>2, <3>1 DEF ByDetails
  <2>6. LinesBy(ff, no) = <<>>
    BY <2>1 DEF LinesBy
  <2>7. Known(o).tracking = Blank /\ Known(o).phone = Blank /\ Known(o).lines = <<>>
    BY <1>2 DEF Known, NewOrder
  <2> QED
    BY <2>3, <2>4, <2>5, <2>6, <2>7 DEF KnownConverges, Owned
<1> QED
  BY <1>1, <1>2

(* One file more.                                                          *)
OneMore(ff, ff2, n, f) ==
    /\ n \in Nat /\ DOMAIN ff = 1..n /\ DOMAIN ff2 = 1..(n + 1)
    /\ ff2[n + 1] = f /\ \A i \in 1..n : ff2[i] = ff[i]

LEMMA FilesAreOneMore ==
    ASSUME NEW ff, NEW ff2, NEW n, NEW f, OneMore(ff, ff2, n, f), NEW no, NEW kind
    PROVE  /\ FilesOf(ff, kind, no) \in SUBSET (1..n)
           /\ f.kind = kind /\ no \in Named(f) =>
                 FilesOf(ff2, kind, no) = FilesOf(ff, kind, no) \cup {n + 1}
           /\ f.kind # kind \/ no \notin Named(f) => FilesOf(ff2, kind, no) = FilesOf(ff, kind, no)
           /\ \A i \in FilesOf(ff, kind, no) : ff2[i] = ff[i]
<1>1. PICK F, F2 : F = FilesOf(ff, kind, no) /\ F2 = FilesOf(ff2, kind, no)
  OBVIOUS
<1>2. n \in Nat /\ DOMAIN ff = 1..n /\ DOMAIN ff2 = 1..(n + 1) /\ ff2[n + 1] = f /\ \A i \in 1..n : ff2[i] = ff[i]
  BY DEF OneMore
<1>3. F \in SUBSET (1..n) /\ F2 \in SUBSET (1..(n + 1))
  BY <1>1, <1>2 DEF FilesOf
<1>4. \A i \in 1..n : i \in F2 <=> i \in F
  BY <1>1, <1>2 DEF FilesOf
<1>5. n + 1 \in F2 <=> f.kind = kind /\ no \in Named(f)
  BY <1>1, <1>2 DEF FilesOf
<1>6. \A i \in 1..(n + 1) : i \in 1..n \/ i = n + 1
  BY <1>2
<1>7. F2 = F \cup (IF f.kind = kind /\ no \in Named(f) THEN {n + 1} ELSE {})
  BY <1>2, <1>3, <1>4, <1>5, <1>6
<1> QED
  BY <1>1, <1>2, <1>3, <1>7

(* MAIN files that are no more say what they said,                         *)
LEMMA MainsStay ==
    ASSUME NEW ff, NEW ff2, NEW n, NEW f, OneMore(ff, ff2, n, f), NEW no, f.kind # "MAIN" \/ no \notin Named(f)
    PROVE  /\ FilesOf(ff2, "MAIN", no) = FilesOf(ff, "MAIN", no)
           /\ ByMains(ff2, no) = ByMains(ff, no) /\ PhoneBy(ff2, no) = PhoneBy(ff, no)
<1>1. /\ FilesOf(ff2, "MAIN", no) = FilesOf(ff, "MAIN", no)
      /\ \A i \in FilesOf(ff, "MAIN", no) : ff2[i] = ff[i]
  <2>1. PICK kind : kind = "MAIN"
    OBVIOUS
  <2>2. f.kind # kind \/ no \notin Named(f)
    BY <2>1
  <2>3. FilesOf(ff2, kind, no) = FilesOf(ff, kind, no)
    BY <2>2, FilesAreOneMore
  <2>4. FilesOf(ff, kind, no) \in SUBSET (1..n) /\ \A i \in FilesOf(ff, kind, no) : ff2[i] = ff[i]
    BY FilesAreOneMore
  <2> QED
    BY <2>1, <2>3, <2>4
<1>2. [i \in FilesOf(ff2, "MAIN", no) |-> LastAbout(ff2[i], no).tracking]
      = [i \in FilesOf(ff, "MAIN", no) |-> LastAbout(ff[i], no).tracking]
  BY <1>1
<1>3. [i \in FilesOf(ff2, "MAIN", no) |-> LastAbout(ff2[i], no).phone]
      = [i \in FilesOf(ff, "MAIN", no) |-> LastAbout(ff[i], no).phone]
  BY <1>1
<1> QED
  BY <1>1, <1>2, <1>3 DEF ByMains, PhoneBy

(* and so do DETAIL files.                                                 *)
LEMMA DetailsStay ==
    ASSUME NEW ff, NEW ff2, NEW n, NEW f, OneMore(ff, ff2, n, f), NEW no, f.kind # "DETAIL" \/ no \notin Named(f)
    PROVE  /\ FilesOf(ff2, "DETAIL", no) = FilesOf(ff, "DETAIL", no)
           /\ ByDetails(ff2, no) = ByDetails(ff, no) /\ LinesBy(ff2, no) = LinesBy(ff, no)
<1>1. /\ FilesOf(ff2, "DETAIL", no) = FilesOf(ff, "DETAIL", no)
      /\ FilesOf(ff, "DETAIL", no) \in SUBSET (1..n)
      /\ \A i \in FilesOf(ff, "DETAIL", no) : ff2[i] = ff[i]
  <2>1. PICK kind : kind = "DETAIL"
    OBVIOUS
  <2>2. f.kind # kind \/ no \notin Named(f)
    BY <2>1
  <2>3. FilesOf(ff2, kind, no) = FilesOf(ff, kind, no)
    BY <2>2, FilesAreOneMore
  <2>4. FilesOf(ff, kind, no) \in SUBSET (1..n) /\ \A i \in FilesOf(ff, kind, no) : ff2[i] = ff[i]
    BY FilesAreOneMore
  <2> QED
    BY <2>1, <2>3, <2>4
<1>2. [i \in FilesOf(ff2, "DETAIL", no) |-> FirstAbout(ff2[i], no).tracking]
      = [i \in FilesOf(ff, "DETAIL", no) |-> FirstAbout(ff[i], no).tracking]
  BY <1>1
<1>3. n \in Nat
  BY DEF OneMore
<1>4. FilesOf(ff, "DETAIL", no) # {} => Max(FilesOf(ff, "DETAIL", no)) \in FilesOf(ff, "DETAIL", no)
  BY <1>1, <1>3, MaxIsLast
<1>5. LinesBy(ff2, no) = LinesBy(ff, no)
  BY <1>1, <1>4 DEF LinesBy
<1> QED
  BY <1>1, <1>2, <1>5 DEF ByDetails

(* What one more MAIN file changes,                                        *)
LEMMA MainSaysMore ==
    ASSUME NEW ff, NEW ff2, NEW n, NEW f, OneMore(ff, ff2, n, f), NEW no, f.kind = "MAIN", no \in Named(f)
    PROVE  /\ FilesOf(ff2, "MAIN", no) # {}
           /\ ByMains(ff2, no) = FillIfBlank(ByMains(ff, no), LastAbout(f, no).tracking)
           /\ PhoneBy(ff2, no) = Owned(PhoneBy(ff, no), LastAbout(f, no).phone)
<1>1. PICK M, M2 : M = FilesOf(ff, "MAIN", no) /\ M2 = FilesOf(ff2, "MAIN", no)
  OBVIOUS
<1>2. M \in SUBSET (1..n) /\ M2 = M \cup {n + 1} /\ \A i \in M : ff2[i] = ff[i]
  BY <1>1, FilesAreOneMore
<1>3. n \in Nat /\ ff2[n + 1] = f
  BY DEF OneMore
<1>4. PICK v, v2 : /\ v = [i \in M |-> LastAbout(ff[i], no).tracking]
                   /\ v2 = [i \in M2 |-> LastAbout(ff2[i], no).tracking]
  OBVIOUS
<1>5. FirstSaid(v2) = FillIfBlank(FirstSaid(v), LastAbout(f, no).tracking)
  <2>1. DOMAIN v = M /\ DOMAIN v2 = M \cup {n + 1} /\ \A i \in M : v2[i] = v[i]
    BY <1>2, <1>4
  <2>2. v2[n + 1] = LastAbout(f, no).tracking
    BY <1>2, <1>3, <1>4
  <2>3. FirstSaid(v2) = FillIfBlank(FirstSaid(v), v2[n + 1])
    BY <1>2, <1>3, <2>1, SaidGrows
  <2> QED
    BY <2>2, <2>3
<1>6. PICK w, w2 : /\ w = [i \in M |-> LastAbout(ff[i], no).phone]
                   /\ w2 = [i \in M2 |-> LastAbout(ff2[i], no).phone]
  OBVIOUS
<1>7. LastSaid(w2) = Owned(LastSaid(w), LastAbout(f, no).phone)
  <2>1. DOMAIN w = M /\ DOMAIN w2 = M \cup {n + 1} /\ \A i \in M : w2[i] = w[i]
    BY <1>2, <1>6
  <2>2. w2[n + 1] = LastAbout(f, no).phone
    BY <1>2, <1>3, <1>6
  <2>3. LastSaid(w2) = Owned(LastSaid(w), w2[n + 1])
    BY <1>2, <1>3, <2>1, SaidGrows
  <2> QED
    BY <2>2, <2>3
<1>8. ByMains(ff, no) = FirstSaid(v) /\ ByMains(ff2, no) = FirstSaid(v2)
  BY <1>1, <1>4 DEF ByMains
<1>9. PhoneBy(ff, no) = LastSaid(w) /\ PhoneBy(ff2, no) = LastSaid(w2)
  BY <1>1, <1>6 DEF PhoneBy
<1> QED
  BY <1>1, <1>2, <1>5, <1>7, <1>8, <1>9

(* and one more DETAIL file.                                               *)
LEMMA DetailSaysMore ==
    ASSUME NEW ff, NEW ff2, NEW n, NEW f, OneMore(ff, ff2, n, f), NEW no, f.kind = "DETAIL", no \in Named(f)
    PROVE  /\ FilesOf(ff2, "DETAIL", no) # {}
           /\ ByDetails(ff2, no) = Owned(ByDetails(ff, no), FirstAbout(f, no).tracking)
           /\ LinesBy(ff2, no) = Skus(f, no)
<1>1. PICK D, D2 : D = FilesOf(ff, "DETAIL", no) /\ D2 = FilesOf(ff2, "DETAIL", no)
  OBVIOUS
<1>2. D \in SUBSET (1..n) /\ D2 = D \cup {n + 1} /\ \A i \in D : ff2[i] = ff[i]
  BY <1>1, FilesAreOneMore
<1>3. n \in Nat /\ ff2[n + 1] = f
  BY DEF OneMore
<1>4. PICK v, v2 : /\ v = [i \in D |-> FirstAbout(ff[i], no).tracking]
                   /\ v2 = [i \in D2 |-> FirstAbout(ff2[i], no).tracking]
  OBVIOUS
<1>5. LastSaid(v2) = Owned(LastSaid(v), FirstAbout(f, no).tracking)
  <2>1. DOMAIN v = D /\ DOMAIN v2 = D \cup {n + 1} /\ \A i \in D : v2[i] = v[i]
    BY <1>2, <1>4
  <2>2. v2[n + 1] = FirstAbout(f, no).tracking
    BY <1>2, <1>3, <1>4
  <2>3. LastSaid(v2) = Owned(LastSaid(v), v2[n + 1])
    BY <1>2, <1>3, <2>1, SaidGrows
  <2> QED
    BY <2>2, <2>3
<1>6. ByDetails(ff, no) = LastSaid(v) /\ ByDetails(ff2, no) = LastSaid(v2)
  BY <1>1, <1>4 DEF ByDetails
<1>7. Max(D2) = n + 1
  <2>1. PICK p \in Nat : p = n + 1
    BY <1>3
  <2>2. D2 \in SUBSET (1..p) /\ p \in D2
    BY <1>2, <1>3, <2>1
  <2>3. Max(D2) \in D2 /\ \A k \in D2 : k <= Max(D2)
    BY <2>2, MaxIsLast
  <2>4. PICK m : m = Max(D2)
    OBVIOUS
  <2>5. m \in 1..p /\ p <= m
    BY <2>2, <2>3, <2>4
  <2> QED
    BY <2>1, <2>4, <2>5
<1>8. LinesBy(ff2, no) = Skus(f, no)
  BY <1>1, <1>2, <1>3, <1>7 DEF LinesBy
<1> QED
  BY <1>1, <1>2, <1>5, <1>6, <1>8
(* An order, when a MAIN file names it,                                    *)
LEMMA MainConverges ==
    ASSUME NEW ff, NEW ff2, NEW n, NEW f, OneMore(ff, ff2, n, f), NEW no, f.kind = "MAIN", no \in Named(f),
           NEW o, NEW c, OrderConverges(o, c, ff, no),
           NEW y, NEW c2, y # Absent,
           y.tracking = FillIfBlank(Known(o).tracking, LastAbout(f, no).tracking),
           y.phone = Owned(Known(o).phone, LastAbout(f, no).phone), y.lines = Known(o).lines,
           y.phone # Blank => y.customer # NoCustomer /\ c2[y.customer].phone = y.phone
    PROVE  OrderConverges(y, c2, ff2, no)
<1>1. PICK k : k = Known(o) /\ KnownConverges(k, c, ff, no)
  BY AbsentIsUnnamed
<1>2. PICK t, p : t = LastAbout(f, no).tracking /\ p = LastAbout(f, no).phone
  OBVIOUS
<1>3. /\ FilesOf(ff2, "MAIN", no) # {}
      /\ ByMains(ff2, no) = FillIfBlank(ByMains(ff, no), t) /\ PhoneBy(ff2, no) = Owned(PhoneBy(ff, no), p)
  BY <1>2, MainSaysMore
<1>4. ByDetails(ff2, no) = ByDetails(ff, no) /\ LinesBy(ff2, no) = LinesBy(ff, no)
  <2>1. f.kind # "DETAIL"
    OBVIOUS
  <2> QED
    BY <2>1, DetailsStay
<1>5. PICK m, d : m = ByMains(ff, no) /\ d = ByDetails(ff, no)
  OBVIOUS
<1>6. k.tracking = Owned(m, d) /\ k.phone = PhoneBy(ff, no) /\ k.lines = LinesBy(ff, no)
  BY <1>1, <1>5 DEF KnownConverges
<1>7. FillIfBlank(Owned(m, d), t) = Owned(FillIfBlank(m, t), d)
  BY DEF FillIfBlank, Owned
<1>8. y.tracking = Owned(ByMains(ff2, no), ByDetails(ff2, no))
  <2>1. y.tracking = FillIfBlank(k.tracking, t)
    BY <1>1, <1>2
  <2> QED
    BY <1>3, <1>4, <1>5, <1>6, <1>7, <2>1
<1>9. y.phone = PhoneBy(ff2, no) /\ y.lines = LinesBy(ff2, no)
  <2>1. y.phone = Owned(k.phone, p) /\ y.lines = k.lines
    BY <1>1, <1>2
  <2> QED
    BY <1>3, <1>4, <1>6, <2>1
<1> QED
  BY <1>3, <1>8, <1>9 DEF OrderConverges

(* when a DETAIL file does,                                                *)
LEMMA DetailConverges ==
    ASSUME NEW ff, NEW ff2, NEW n, NEW f, OneMore(ff, ff2, n, f), NEW no, f.kind = "DETAIL", no \in Named(f),
           NEW o, NEW c, OrderConverges(o, c, ff, no),
           NEW y, y # Absent,
           y.tracking = Owned(Known(o).tracking, FirstAbout(f, no).tracking),
           y.phone = Known(o).phone, y.lines = Skus(f, no), y.customer = Known(o).customer
    PROVE  OrderConverges(y, c, ff2, no)
<1>1. PICK k : k = Known(o) /\ KnownConverges(k, c, ff, no)
  BY AbsentIsUnnamed
<1>2. PICK t : t = FirstAbout(f, no).tracking
  OBVIOUS
<1>3. /\ FilesOf(ff2, "DETAIL", no) # {}
      /\ ByDetails(ff2, no) = Owned(ByDetails(ff, no), t) /\ LinesBy(ff2, no) = Skus(f, no)
  BY <1>2, DetailSaysMore
<1>4. ByMains(ff2, no) = ByMains(ff, no) /\ PhoneBy(ff2, no) = PhoneBy(ff, no)
  <2>1. f.kind # "MAIN"
    OBVIOUS
  <2> QED
    BY <2>1, MainsStay
<1>5. PICK m, d : m = ByMains(ff, no) /\ d = ByDetails(ff, no)
  OBVIOUS
<1>6. /\ k.tracking = Owned(m, d) /\ k.phone = PhoneBy(ff, no)
      /\ k.phone # Blank => k.customer # NoCustomer /\ c[k.customer].phone = k.phone
  BY <1>1, <1>5 DEF KnownConverges
<1>7. Owned(Owned(m, d), t) = Owned(m, Owned(d, t))
  BY DEF Owned
<1>8. y.tracking = Owned(ByMains(ff2, no), ByDetails(ff2, no))
  <2>1. y.tracking = Owned(k.tracking, t)
    BY <1>1, <1>2
  <2> QED
    BY <1>3, <1>4, <1>5, <1>6, <1>7, <2>1
<1>9. /\ y.phone = PhoneBy(ff2, no) /\ y.lines = LinesBy(ff2, no)
      /\ y.phone # Blank => y.customer # NoCustomer /\ c[y.customer].phone = y.phone
  <2>1. y.phone = k.phone /\ y.customer = k.customer /\ y.lines = Skus(f, no)
    BY <1>1
  <2> QED
    BY <1>3, <1>4, <1>6, <2>1
<1> QED
  BY <1>3, <1>8, <1>9 DEF OrderConverges

(* and when one does not.                                                  *)
LEMMA OtherConverges ==
    ASSUME NEW ff, NEW ff2, NEW n, NEW f, OneMore(ff, ff2, n, f), NEW no, no \notin Named(f),
           NEW o, NEW c, OrderConverges(o, c, ff, no)
    PROVE  OrderConverges(o, c, ff2, no)
<1>1. /\ FilesOf(ff2, "MAIN", no) = FilesOf(ff, "MAIN", no)
      /\ ByMains(ff2, no) = ByMains(ff, no) /\ PhoneBy(ff2, no) = PhoneBy(ff, no)
  BY MainsStay
<1>2. /\ FilesOf(ff2, "DETAIL", no) = FilesOf(ff, "DETAIL", no)
      /\ ByDetails(ff2, no) = ByDetails(ff, no) /\ LinesBy(ff2, no) = LinesBy(ff, no)
  BY DetailsStay
<1> QED
  BY <1>1, <1>2 DEF OrderConverges

(* A customer's phone does not change.                                     *)
LEMMA CustomerKeeps ==
    ASSUME NEW on, NEW c, NEW c2, NEW ff, OwnersAreThere(on, c), Extends(c, c2), OrdersConverge(on, c, ff)
    PROVE  OrdersConverge(on, c2, ff)
<1> SUFFICES ASSUME NEW no \in OrderNos PROVE OrderConverges(on[no], c2, ff, no)
  BY DEF OrdersConverge
<1>1. PICK o : o = on[no]
  OBVIOUS
<1>2. OrderConverges(o, c, ff, no)
  BY <1>1 DEF OrdersConverge
<1>3. o # Absent /\ o.phone # Blank => o.customer # NoCustomer /\ c[o.customer].phone = o.phone
  BY <1>2 DEF OrderConverges
<1>4. o # Absent => o.customer \in {NoCustomer} \cup DOMAIN c
  BY <1>1 DEF OwnersAreThere
<1>5. o # Absent /\ o.phone # Blank => o.customer # NoCustomer /\ c2[o.customer].phone = o.phone
  BY <1>3, <1>4 DEF Extends
<1> QED
  BY <1>1, <1>2, <1>5 DEF OrderConverges

(* Whatever a step does, the files that have landed are the same, and a    *)
(* commit adds its own.                                                    *)
LEMMA FilesLand ==
    ASSUME TInv, [Next]_vars
    PROVE  /\ landed' = landed => FilesLanded' = FilesLanded
           /\ landed' = Append(landed, worker.job) /\ worker.job \in DOMAIN jobs =>
                 OneMore(FilesLanded, FilesLanded', Len(landed), Content(worker.job))
<1>1. PICK ff, ff2, n, ld, j, D :
         /\ ff = FilesLanded /\ ff2 = FilesLanded' /\ n = Len(landed) /\ ld = landed' /\ j = worker.job
         /\ D = DOMAIN jobs
  OBVIOUS
<1>2. /\ \E S : landed \in Seq(S)
      /\ n \in Nat /\ DOMAIN landed = 1..n /\ \A i \in 1..n : landed[i] \in D
  BY <1>1, LandedIsASequence DEF TInv
<1>3. \A k \in D : Files[jobs'[k].file] = Files[jobs[k].file]
  BY <1>1, JobsStay DEF TInv, JInv
<1>4. /\ ff = [i \in 1..n |-> Files[jobs[landed[i]].file]]
      /\ ff2 = [i \in DOMAIN ld |-> Files[jobs'[ld[i]].file]]
  BY <1>1, <1>2 DEF FilesLanded, Content
<1>5. ASSUME landed' = landed PROVE FilesLanded' = FilesLanded
  <2>1. ld = landed /\ DOMAIN ld = 1..n
    BY <1>1, <1>2, <1>5
  <2>2. \A i \in 1..n : Files[jobs'[ld[i]].file] = Files[jobs[landed[i]].file]
    BY <1>2, <1>3, <2>1
  <2>3. ff2 = ff
    BY <1>4, <2>1, <2>2
  <2> QED
    BY <1>1, <2>3
<1>6. ASSUME landed' = Append(landed, worker.job), worker.job \in DOMAIN jobs
      PROVE  OneMore(FilesLanded, FilesLanded', Len(landed), Content(worker.job))
  <2>1. DOMAIN ld = 1..(n + 1) /\ ld[n + 1] = j /\ \A i \in 1..n : ld[i] = landed[i]
    BY <1>1, <1>2, <1>6, RangeGrows
  <2>2. \A i \in 1..n : Files[jobs'[ld[i]].file] = Files[jobs[landed[i]].file] /\ i \in 1..(n + 1)
    BY <1>2, <1>3, <2>1
  <2>3. n + 1 \in 1..(n + 1) /\ Files[jobs'[ld[n + 1]].file] = Files[jobs[j].file]
    BY <1>1, <1>2, <1>3, <1>6, <2>1
  <2>4. DOMAIN ff = 1..n /\ DOMAIN ff2 = 1..(n + 1) /\ \A i \in 1..n : ff2[i] = ff[i]
    BY <1>4, <2>1, <2>2
  <2>5. ff2[n + 1] = Content(j)
    BY <1>4, <2>1, <2>3 DEF Content
  <2>6. OneMore(ff, ff2, n, Content(j))
    BY <1>2, <2>4, <2>5 DEF OneMore
  <2> QED
    BY <1>1, <2>6
<1> QED
  BY <1>5, <1>6
LEMMA OrdersStayConverged == CInv /\ [Next]_vars => CInv'
<1> SUFFICES ASSUME CInv, [Next]_vars PROVE CInv'
  OBVIOUS
<1>1. /\ TInv /\ TInv' /\ OnlineIsWhole /\ OwnersAreThere(online, customers)
      /\ OrdersConverge(online, customers, FilesLanded)
  BY TablesStaySound DEF CInv, TInv, Tables
<1>2. PICK ff, ff2, n, f : ff = FilesLanded /\ ff2 = FilesLanded' /\ n = Len(landed) /\ f = Content(worker.job)
  OBVIOUS
<1>3. PICK on2, c2 : on2 = online' /\ c2 = customers'
  OBVIOUS
<1>4. SUFFICES OrdersConverge(on2, c2, ff2)
  BY <1>1, <1>2, <1>3 DEF CInv
<1>5. OrdersConverge(online, c2, ff)
  <2>1. Extends(customers, c2)
    BY <1>1, <1>3, CustomersStay
  <2> QED
    BY <1>1, <1>2, <2>1, CustomerKeeps
<1>6. \A x : DOMAIN x = Columns => x # Absent
  <2>1. "phone" \in Columns /\ "phone" \notin DOMAIN Absent
    BY DEF Columns, NewOrder, Absent
  <2> QED
    BY <2>1
<1>7. CASE CommitMain
  <2>1. worker.job \in DOMAIN jobs /\ f.kind = "MAIN"
    <3>1. worker.pc = "link"
      BY <1>7 DEF CommitMain
    <3>2. worker.job \in DOMAIN jobs
      BY <1>1, <3>1 DEF TInv, JInv, WorkerIsSound
    <3>3. TaskIsSound(worker.pc, worker.row, f, worker.job, Range(staged), landed)
      BY <1>1, <1>2, <3>1 DEF TInv, JInv, JobsAreSound, Content
    <3> QED
      BY <3>1, <3>2, <3>3 DEF TaskIsSound
  <2>2. OneMore(ff, ff2, n, f)
    BY <1>1, <1>2, <1>7, <2>1, FilesLand DEF CommitMain
  <2>3. SUFFICES ASSUME NEW no \in OrderNos PROVE OrderConverges(on2[no], c2, ff2, no)
    BY DEF OrdersConverge
  <2>4. OrderConverges(online[no], c2, ff, no)
    BY <1>5 DEF OrdersConverge
  <2>5. CASE no \notin Named(f)
    <3>1. on2[no] = online[no]
      BY <1>1, <1>2, <1>3, <1>7, <2>5, MainIsCommitted
    <3> QED
      BY <2>2, <2>4, <2>5, <3>1, OtherConverges
  <2>6. CASE no \in Named(f)
    <3>1. PICK o, r, y : o = Known(online[no]) /\ r = LastAbout(f, no) /\ y = on2[no]
      OBVIOUS
    <3>2. /\ DOMAIN y = Columns
          /\ y.phone = Owned(o.phone, r.phone) /\ y.tracking = FillIfBlank(o.tracking, r.tracking)
          /\ y.lines = o.lines
          /\ y.customer = IF r.phone = Blank THEN o.customer ELSE Found(f)[r.phone]
      BY <1>1, <1>2, <1>3, <1>7, <2>6, <3>1, MainIsCommitted
    <3>3. y # Absent
      BY <1>6, <3>2
    <3>4. CASE r.phone = Blank
      <4>1. y.phone = o.phone /\ y.customer = o.customer
        BY <3>2, <3>4 DEF Owned
      <4>2. o.phone # Blank => o.customer # NoCustomer /\ c2[o.customer].phone = o.phone
        BY <2>4, <3>1, AbsentIsUnnamed DEF KnownConverges
      <4>3. y.phone # Blank => y.customer # NoCustomer /\ c2[y.customer].phone = y.phone
        BY <4>1, <4>2
      <4> QED
        BY <2>1, <2>2, <2>4, <2>6, <3>1, <3>2, <3>3, <4>3, MainConverges
    <3>5. CASE r.phone # Blank
      <4>1. r.phone \in PhonesOf(f)
        BY <2>6, <3>1, <3>5 DEF PhonesOf, PhoneOf
      <4>2. Found(f)[r.phone] # NoCustomer /\ c2[Found(f)[r.phone]].phone = r.phone
        BY <1>1, <1>2, <1>3, <1>7, <4>1, MainAddsCustomers
      <4>3. y.customer # NoCustomer /\ c2[y.customer].phone = y.phone
        BY <3>2, <3>5, <4>2 DEF Owned
      <4> QED
        BY <2>1, <2>2, <2>4, <2>6, <3>1, <3>2, <3>3, <4>3, MainConverges
    <3> QED
      BY <3>4, <3>5
  <2> QED
    BY <2>5, <2>6
<1>8. CASE CommitDetail
  <2>1. worker.job \in DOMAIN jobs /\ f.kind = "DETAIL"
    <3>1. worker.pc = "read" /\ f.kind = "DETAIL"
      BY <1>2, <1>8 DEF CommitDetail
    <3> QED
      BY <1>1, <3>1 DEF TInv, JInv, WorkerIsSound
  <2>2. OneMore(ff, ff2, n, f)
    BY <1>1, <1>2, <1>8, <2>1, FilesLand DEF CommitDetail
  <2>3. SUFFICES ASSUME NEW no \in OrderNos PROVE OrderConverges(on2[no], c2, ff2, no)
    BY DEF OrdersConverge
  <2>4. OrderConverges(online[no], c2, ff, no)
    BY <1>5 DEF OrdersConverge
  <2>5. CASE no \notin Named(f)
    <3>1. on2[no] = online[no]
      BY <1>1, <1>2, <1>3, <1>8, <2>5, DetailIsCommitted
    <3> QED
      BY <2>2, <2>4, <2>5, <3>1, OtherConverges
  <2>6. CASE no \in Named(f)
    <3>1. PICK o, y : o = Known(online[no]) /\ y = on2[no]
      OBVIOUS
    <3>2. /\ DOMAIN y = Columns
          /\ y.tracking = Owned(o.tracking, FirstAbout(f, no).tracking)
          /\ y.lines = Skus(f, no) /\ y.phone = o.phone /\ y.customer = o.customer
      BY <1>1, <1>2, <1>3, <1>8, <2>6, <3>1, DetailIsCommitted
    <3>3. y # Absent
      BY <1>6, <3>2
    <3> QED
      BY <2>1, <2>2, <2>4, <2>6, <3>1, <3>2, <3>3, DetailConverges
  <2> QED
    BY <2>5, <2>6
<1>9. ASSUME NEW p \in Pushes, ApplyTrackflowStatus(p) PROVE OrdersConverge(on2, c2, ff2)
  <2>1. landed' = landed
    BY <1>9 DEF ApplyTrackflowStatus
  <2>2. ff2 = ff
    BY <1>1, <1>2, <2>1, FilesLand
  <2>3. Agree(online, on2)
    BY <1>1, <1>3, <1>9, PushIsApplied
  <2>4. SUFFICES ASSUME NEW no \in OrderNos PROVE OrderConverges(on2[no], c2, ff, no)
    BY <2>2 DEF OrdersConverge
  <2>5. OrderConverges(online[no], c2, ff, no) /\ SameOrder(online[no], on2[no])
    BY <1>5, <2>3 DEF OrdersConverge, Agree
  <2> QED
    BY <2>5 DEF OrderConverges, SameOrder
<1>10. CASE UNCHANGED <<online, landed>>
  <2>1. ff2 = ff /\ on2 = online
    BY <1>1, <1>2, <1>3, <1>10, FilesLand
  <2> QED
    BY <1>5, <2>1
<1> QED
  BY <1>7, <1>8, <1>9, <1>10
     DEF Next, UploadsNext, vars, uploadVars, Upload, TakeJob, JobFails, WorkerDies, JobEnds, ReadOnline,
         LookForCustomers, OpenRows, ImportRow, RowsEnd, Shipped

LEMMA OrdersStartConverged == Init => CInv
<1> SUFFICES ASSUME Init PROVE CInv
  OBVIOUS
<1>1. DOMAIN landed = {} /\ \A no \in OrderNos : online[no] = Absent
  BY DEF Init, UploadsInit
<1>2. \A no : FilesOf(FilesLanded, "MAIN", no) = {} /\ FilesOf(FilesLanded, "DETAIL", no) = {}
  BY <1>1 DEF FilesOf, FilesLanded
<1> QED
  BY <1>1, <1>2, TablesStartSound DEF CInv, OrdersConverge, OrderConverges

(* In whatever order and however often the files come, and whatever fails  *)
(* or TRACKFLOW does meanwhile.                                            *)
THEOREM FilesAlwaysConverge == Spec => []FilesConverge
  BY OrdersStartConverged, OrdersStayConverged, FilesDoConverge, PTL DEF Spec
=============================================================================
