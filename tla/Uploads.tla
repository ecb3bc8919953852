------------------------------ MODULE Uploads ------------------------------
(***************************************************************************)
(* Workbooks uploaded to the version 1 importer (crm/imports) and the      *)
(* online order channel they feed (crm/online_orders).                     *)
(*                                                                         *)
(* The view stores the file and queues a job; the one RQ worker takes jobs *)
(* in order.  A MAIN or DETAIL file is one transaction that reads the      *)
(* orders it names first and writes them at the end; a ROWS or WIDE file   *)
(* is one transaction per line of an order.  TRACKFLOW posts status        *)
(* changes to the web process at any time, and repeats those that are      *)
(* answered 404.                                                           *)
(*                                                                         *)
(* tracking stands for the fields both online files carry, phone for those *)
(* only MAIN has, status and lines for those only DETAIL has.              *)
(***************************************************************************)
EXTENDS Customers, FiniteSets, SequencesExt

CONSTANTS
    Files,      \* the workbooks there are: a sequence
    OrderNos,   \* online order numbers
    Pushes,     \* the status changes TRACKFLOW has to tell
    StatusMap,  \* TRACKFLOW status -> status here, where they differ
    MaxJobs     \* bound: uploads

ASSUME FilesAreWorkbooks ==
    \A f \in Range(Files) :
        /\ f.kind \in {"MAIN", "DETAIL", "ROWS", "WIDE", "BAD"}
        /\ Len(f.rows) \in Nat /\ DOMAIN f.rows = 1..Len(f.rows)
        /\ f.kind = "MAIN" => \A r \in Range(f.rows) : r.phone \in Phones \cup {Blank}

VARIABLES
    online,     \* online[no]: the online order, or Absent
    sales,      \* orders made from rows, in the order they were made
    jobs,       \* the uploaded files, oldest first
    worker,     \* what the worker is doing
    staged,     \* the rows recorded, oldest first: job, row, and the sale it went into
    landed,     \* jobs whose online file has been committed, in that order
    outbox,     \* changes TRACKFLOW has not been thanked for
    killed      \* jobs whose worker was killed

uploadVars == <<online, sales, jobs, worker, staged, landed, outbox, killed>>

-----------------------------------------------------------------------------
Absent == [there |-> FALSE]
NewOrder == [there |-> TRUE, tracking |-> Blank, phone |-> Blank, status |-> Blank, lines |-> <<>>,
             customer |-> NoCustomer, shipped |-> FALSE, detailed |-> FALSE, synced |-> FALSE]

Resting == [pc |-> "rest", job |-> 0, row |-> 0, read |-> <<>>, table |-> <<>>]

Content(j) == Files[jobs[j].file]

(* Rows without an order number are passed over.                           *)
Named(f) == {r.no : r \in Range(f.rows)} \ {Blank}

(* The rows about an order, by their place in the file.                    *)
RowsAbout(f, no) == {i \in DOMAIN f.rows : f.rows[i].no = no}
FirstAbout(f, no) == f.rows[Min(RowsAbout(f, no))]
LastAbout(f, no) == f.rows[Max(RowsAbout(f, no))]

UploadsTypeOK ==
    /\ \A no \in OrderNos :
          online[no] = Absent \/ online[no].customer \in {NoCustomer} \cup DOMAIN customers
    /\ jobs \in Seq([file : DOMAIN Files, kept : BOOLEAN,
                     status : {"queued", "running", "done", "failed"}])
    /\ worker.pc \in {"rest", "start", "read", "link", "row", "end"}
    /\ worker.job \in 0..Len(jobs)
    /\ staged \in Seq([job : DOMAIN jobs, row : Nat, sale : 0..Len(sales)])
    /\ landed \in Seq(DOMAIN jobs)
    /\ outbox \subseteq Pushes
    /\ killed \subseteq DOMAIN jobs

UploadsInit ==
    /\ online = [no \in OrderNos |-> Absent]
    /\ sales = <<>> /\ jobs = <<>> /\ staged = <<>> /\ landed = <<>>
    /\ outbox = {} /\ killed = {}
    /\ worker = Resting

-----------------------------------------------------------------------------
(* The job.                                                                *)

Upload(f) ==
    /\ Begun
    /\ Len(jobs) < MaxJobs
    /\ jobs' = Append(jobs, [file |-> f, kept |-> TRUE, status |-> "queued"])
    /\ UNCHANGED <<customers, online, sales, worker, staged, landed, outbox, killed>>

TakeJob ==
    /\ worker.pc = "rest"
    /\ \E j \in DOMAIN jobs :
          /\ jobs[j].status = "queued"
          /\ \A i \in 1..(j-1) : jobs[i].status # "queued"
          /\ jobs' = [jobs EXCEPT ![j].status = "running"]
          /\ worker' = [Resting EXCEPT !.pc = "start", !.job = j]
    /\ UNCHANGED <<customers, ops, online, sales, staged, landed, outbox, killed>>

(* The outcome, and the removal of the file, in one save.                  *)
Outcome(status) == [jobs EXCEPT ![worker.job].status = status, ![worker.job].kept = FALSE]

(* Mutant: the exception of an unexpected kind is not caught.              *)
UncaughtLeavesRunning ==
    /\ worker.pc \in {"start", "read", "link", "row"}
    /\ IF worker.pc = "start" /\ Content(worker.job).kind = "BAD"
       THEN UNCHANGED ops /\ jobs' = Outcome("failed")
       ELSE Begun /\ UNCHANGED jobs
    /\ worker' = Resting
    /\ UNCHANGED <<customers, online, sales, staged, landed, outbox, killed>>

(* A file that cannot be read, and any exception while its rows are        *)
(* written: what the transaction at hand has done is undone.               *)
JobFails ==
    /\ worker.pc \in {"start", "read", "link", "row"}
    /\ IF worker.pc = "start" /\ Content(worker.job).kind = "BAD" THEN UNCHANGED ops ELSE Begun
    /\ jobs' = Outcome("failed")
    /\ worker' = Resting
    /\ UNCHANGED <<customers, online, sales, staged, landed, outbox, killed>>

(* The worker is killed, by the system or a deployment.                    *)
WorkerDies ==
    /\ Begun
    /\ worker.pc # "rest"
    /\ killed' = killed \cup {worker.job}
    /\ worker' = Resting
    /\ UNCHANGED <<customers, online, sales, jobs, staged, landed, outbox>>

JobEnds ==
    /\ worker.pc = "end"
    /\ jobs' = Outcome("done")
    /\ worker' = Resting
    /\ UNCHANGED <<customers, ops, online, sales, staged, landed, outbox, killed>>

-----------------------------------------------------------------------------
(* The two online files.                                                   *)

(* Non-blank values overwrite.                                             *)
Owned(old, new) == IF new = Blank THEN old ELSE new
(* Non-blank values fill what is still blank.                              *)
FillIfBlank(old, new) == IF old = Blank THEN new ELSE old

(* Of several rows about an order, MAIN goes by the last, DETAIL by the    *)
(* first.                                                                  *)
WithMain(order, f, no) ==
    LET r == LastAbout(f, no)
    IN [order EXCEPT !.phone = Owned(@, r.phone), !.tracking = FillIfBlank(@, r.tracking)]
WithDetail(order, f, no) ==
    LET r == FirstAbout(f, no)
    IN [order EXCEPT !.status = Owned(@, r.status), !.tracking = Owned(@, r.tracking)]

Skus(f, no) ==
    LET about == SelectSeq(f.rows, LAMBDA r : r.no = no) IN [i \in DOMAIN about |-> about[i].sku]

(* The order in memory: as it was read, or a new one.                      *)
InMemory(no) == IF worker.read[no] = Absent THEN NewOrder ELSE worker.read[no]

ReadOnline ==
    /\ worker.pc = "start"
    /\ Content(worker.job).kind \in {"MAIN", "DETAIL"}
    /\ worker' = [worker EXCEPT !.pc = "read", !.read = online]
    /\ UNCHANGED <<customers, ops, online, sales, jobs, staged, landed, outbox, killed>>

(* Mutant: the whole order is saved, as it was read.                       *)
MainRowSavedWhole(no, order) == order

(* The row as it is written: created, or the columns the file updates.     *)
MainRow(no, order) ==
    IF online[no] = Absent THEN order
    ELSE [online[no] EXCEPT !.phone = order.phone, !.tracking = order.tracking]
DetailRow(no, order) ==
    IF online[no] = Absent THEN order
    ELSE [online[no] EXCEPT !.status = order.status, !.tracking = order.tracking]

(* MAIN has written its orders, not committed, and looks for customers.    *)
LookForCustomers ==
    /\ worker.pc = "read"
    /\ Content(worker.job).kind = "MAIN"
    /\ worker' = [worker EXCEPT !.pc = "link", !.table = customers]
    /\ UNCHANGED <<customers, ops, online, sales, jobs, staged, landed, outbox, killed>>

(* The phone an order gets from a file, and the phones no customer has.    *)
PhoneOf(f, no) == LastAbout(f, no).phone
PhonesOf(f) == {PhoneOf(f, no) : no \in Named(f)} \ {Blank}
Unknown(f) == SetToSeq({p \in PhonesOf(f) : Oldest(worker.table, p) = NoCustomer})

(* An order whose row carries a phone is pointed at the phone's customer.  *)
Linked(order, phone, key2customer) ==
    IF phone = Blank THEN order.customer ELSE key2customer[phone]

CommitMain ==
    /\ worker.pc = "link"
    /\ LET f == Content(worker.job)
           new == Unknown(f)
           found == [p \in PhonesOf(f) |->
                       IF p \in Range(new)
                       THEN Len(customers) + (CHOOSE i \in DOMAIN new : new[i] = p)
                       ELSE Oldest(worker.table, p)]
       IN /\ Len(customers) + Len(new) <= MaxCustomers
          /\ customers' = customers \o [i \in DOMAIN new |-> Customer(new[i], Blank)]
          /\ online' = [no \in OrderNos |->
                          IF no \notin Named(f) THEN online[no]
                          ELSE LET row == MainRow(no, WithMain(InMemory(no), f, no))
                               IN [row EXCEPT !.shipped = TRUE,
                                     !.customer = Linked(row, PhoneOf(f, no), found)]]
    /\ landed' = Append(landed, worker.job)
    /\ worker' = [Resting EXCEPT !.pc = "end", !.job = worker.job]
    /\ UNCHANGED <<ops, sales, jobs, staged, outbox, killed>>

(* DETAIL replaces the lines of every order it names.                      *)
CommitDetail ==
    /\ worker.pc = "read"
    /\ LET f == Content(worker.job)
       IN /\ f.kind = "DETAIL"
          /\ online' = [no \in OrderNos |->
                          IF no \notin Named(f) THEN online[no]
                          ELSE [DetailRow(no, WithDetail(InMemory(no), f, no)) EXCEPT
                                  !.detailed = TRUE, !.lines = Skus(f, no)]]
    /\ landed' = Append(landed, worker.job)
    /\ worker' = [Resting EXCEPT !.pc = "end", !.job = worker.job]
    /\ UNCHANGED <<customers, ops, sales, jobs, staged, outbox, killed>>

-----------------------------------------------------------------------------
(* The rows of the classic and the wide template.                          *)

(* A wide row is an order: it becomes a row for each product it names, and *)
(* without an order number or a product it is passed over.                 *)
Unfolded(r) ==
    LET skus == SelectSeq(r.skus, LAMBDA k : k.sku # Blank)
    IN IF r.no = Blank THEN <<>>
       ELSE [i \in DOMAIN skus |->
               [named |-> r.named, no |-> r.no, p1 |-> r.p1, p2 |-> r.p2, date |-> r.date,
                staff |-> Blank, sku |-> skus[i].sku, qty |-> skus[i].qty]]

SalesRows(f) ==
    IF f.kind = "WIDE" THEN FlattenSeq([i \in DOMAIN f.rows |-> Unfolded(f.rows[i])]) ELSE f.rows

ASSUME SheetsAreSequences ==
    \A f \in Range(Files) : f.kind \in {"ROWS", "WIDE"} =>
        /\ Len(SalesRows(f)) \in Nat /\ DOMAIN SalesRows(f) = 1..Len(SalesRows(f))
        /\ \A r \in Range(SalesRows(f)) :
              /\ {r.p1, r.p2} \subseteq Phones \cup {Blank} /\ r.staff \in Codes \cup {Blank}
              /\ r.date \in Nat \cup {Blank} /\ r.qty \in Nat

OpenRows ==
    /\ worker.pc = "start"
    /\ Content(worker.job).kind \in {"ROWS", "WIDE"}
    /\ worker' = [worker EXCEPT !.pc = "row", !.row = 1]
    /\ UNCHANGED <<customers, ops, online, sales, jobs, staged, landed, outbox, killed>>

Valid(r) == r.named /\ (r.p1 # Blank \/ r.p2 # Blank)

(* The sale a row belongs to: a row without a number is one of its own.    *)
SaleOf(c, r) ==
    IF r.no = Blank THEN 0
    ELSE LET Same == {s \in DOMAIN sales : sales[s].customer = c /\ sales[s].no = r.no}
         IN IF Same = {} THEN 0 ELSE CHOOSE s \in Same : \A t \in Same : s <= t

(* The lines of a sale with the row's product: a second row about it adds  *)
(* to the quantity, and a first without a quantity counts as one.          *)
Merged(lines, r) ==
    IF r.sku = Blank THEN lines
    ELSE IF r.sku \in DOMAIN lines THEN [lines EXCEPT ![r.sku] = @ + r.qty]
    ELSE [k \in DOMAIN lines \cup {r.sku} |->
            IF k \in DOMAIN lines THEN lines[k] ELSE IF r.qty = 0 THEN 1 ELSE r.qty]

SalesOf(c, all) == Cardinality({s \in DOMAIN all : all[s].customer = c})

(* import_row: the record of the row, the customer, the sale, the line and *)
(* the customer's rollups, in one transaction.                             *)
ImportRow ==
    /\ worker.pc = "row"
    /\ worker.row <= Len(SalesRows(Content(worker.job)))
    /\ LET r == SalesRows(Content(worker.job))[worker.row]
           key == PhoneKey(r.p1, r.p2)
           known == Oldest(customers, key)
           table == IF known # NoCustomer THEN customers ELSE Append(customers, Customer(key, r.staff))
           c == IF known # NoCustomer THEN known ELSE Len(table)
           s == SaleOf(c, r)
           all == IF s # 0 THEN [sales EXCEPT ![s].lines = Merged(@, r)]
                  ELSE Append(sales, [customer |-> c, no |-> r.no, lines |-> Merged(<<>>, r)])
           newest == table[c].last = Blank \/ (r.date # Blank /\ r.date >= table[c].last)
       IN IF ~Valid(r)
          THEN /\ UNCHANGED <<customers, sales>>
               /\ staged' = Append(staged, [job |-> worker.job, row |-> worker.row, sale |-> 0])
          ELSE /\ Len(table) <= MaxCustomers
               /\ sales' = all
               /\ customers' = [table EXCEPT ![c].last = IF newest THEN r.date ELSE @,
                                             ![c].count = SalesOf(c, all)]
               /\ staged' = Append(staged, [job |-> worker.job, row |-> worker.row,
                                             sale |-> IF s # 0 THEN s ELSE Len(all)])
    /\ worker' = [worker EXCEPT !.row = @ + 1]
    /\ UNCHANGED <<ops, online, jobs, landed, outbox, killed>>

RowsEnd ==
    /\ worker.pc = "row"
    /\ worker.row > Len(SalesRows(Content(worker.job)))
    /\ worker' = [Resting EXCEPT !.pc = "end", !.job = worker.job]
    /\ UNCHANGED <<customers, ops, online, sales, jobs, staged, landed, outbox, killed>>

-----------------------------------------------------------------------------
(* TRACKFLOW.                                                              *)

Translated(status) == IF status \in DOMAIN StatusMap THEN StatusMap[status] ELSE status

Shipped(p) ==
    /\ Begun
    /\ outbox' = outbox \cup {p}
    /\ UNCHANGED <<customers, online, sales, jobs, worker, staged, landed, killed>>

Tracked(tracking) == {no \in OrderNos : online[no] # Absent /\ online[no].tracking = tracking}

(* MAIN holds the rows it has written until it commits.                    *)
Held(no) == worker.pc = "link" /\ no \in Named(Content(worker.job)) /\ online[no] # Absent

(* Every order with the number gets the status.  Where there is none the   *)
(* answer is 404 and the change stays in the outbox: nothing happens.      *)
ApplyTrackflowStatus(p) ==
    /\ p \in outbox
    /\ Tracked(p.tracking) # {}
    /\ \A no \in Tracked(p.tracking) : ~Held(no)
    /\ online' = [no \in OrderNos |->
                    IF no \in Tracked(p.tracking)
                    THEN [online[no] EXCEPT !.status = Translated(p.status), !.synced = TRUE]
                    ELSE online[no]]
    /\ outbox' = outbox \ {p}
    /\ UNCHANGED <<customers, ops, sales, jobs, worker, staged, landed, killed>>

UploadsNext ==
    \/ \E f \in DOMAIN Files : Upload(f)
    \/ TakeJob \/ JobFails \/ WorkerDies \/ JobEnds
    \/ ReadOnline \/ LookForCustomers \/ CommitMain \/ CommitDetail
    \/ OpenRows \/ ImportRow \/ RowsEnd
    \/ \E p \in Pushes : Shipped(p) \/ ApplyTrackflowStatus(p)
    \/ \E phone \in Phones, staff \in Codes \cup {Blank} :
          CustomerArrives(phone, staff) /\ UNCHANGED uploadVars

-----------------------------------------------------------------------------
(* Properties.                                                             *)

(* The committed online files that name an order, by their place in landed,*)
(* and what one of them says of it.                                        *)
LandedOf(kind, no) ==
    {i \in DOMAIN landed : Content(landed[i]).kind = kind /\ no \in Named(Content(landed[i]))}
MainSays(i, no) == LastAbout(Content(landed[i]), no)
DetailSays(i, no) == FirstAbout(Content(landed[i]), no)

(* What values come to when the first, or the last, that is not blank      *)
(* counts.                                                                 *)
Said(values) == {i \in DOMAIN values : values[i] # Blank}
FirstSaid(values) == IF Said(values) = {} THEN Blank ELSE values[Min(Said(values))]
LastSaid(values) == IF Said(values) = {} THEN Blank ELSE values[Max(Said(values))]

(* Two kinds of files can come in either order and be uploaded again: an   *)
(* order depends on the MAIN files and on the DETAIL files that have named *)
(* it, never on how the ones came between the others; and however often    *)
(* its phone changes, it belongs to a customer with that phone             *)
(* (online_orders/services.py).                                            *)
FilesConverge ==
    \A no \in OrderNos :
        LET mains == LandedOf("MAIN", no)
            details == LandedOf("DETAIL", no)
            ByMain == FirstSaid([i \in mains |-> MainSays(i, no).tracking])
            ByDetail == LastSaid([i \in details |-> DetailSays(i, no).tracking])
        IN /\ online[no] = Absent <=> mains = {} /\ details = {}
           /\ online[no] # Absent =>
                 /\ online[no].tracking = Owned(ByMain, ByDetail)
                 /\ online[no].phone = LastSaid([i \in mains |-> MainSays(i, no).phone])
                 /\ online[no].lines = IF details = {} THEN <<>> ELSE Skus(Content(landed[Max(details)]), no)
                 /\ online[no].phone # Blank =>
                       /\ online[no].customer # NoCustomer
                       /\ customers[online[no].customer].phone = online[no].phone

(* A status is TRACKFLOW's or DETAIL's: a MAIN file that was being read    *)
(* while TRACKFLOW changed it does not put the old one back.               *)
MainKeepsStatus ==
    [][worker.pc = "link" /\ landed' # landed =>
          \A no \in OrderNos : online[no] # Absent => online'[no].status = online[no].status]_online

(* A row is recorded together with what it adds to the sales: through      *)
(* failures and repeated uploads, a line's quantity is the sum of the rows *)
(* recorded for it.                                                        *)
RowOf(st) == SalesRows(Content(st.job))[st.row]
LinesAreTheRows ==
    \A s \in DOMAIN sales : \A sku \in DOMAIN sales[s].lines :
        LET Rows == {i \in DOMAIN staged : staged[i].sale = s /\ RowOf(staged[i]).sku = sku}
            Adds(i) == IF i \notin Rows THEN 0
                       ELSE IF RowOf(staged[i]).qty = 0 /\ i = Min(Rows) THEN 1 ELSE RowOf(staged[i]).qty
            Total[n \in Nat] == IF n = 0 THEN 0 ELSE Total[n-1] + Adds(n)
        IN sales[s].lines[sku] = Total[Len(staged)]

(* The status page is true, whatever exception a job meets: a job that     *)
(* shows as running is the worker's, or was killed; one that failed has    *)
(* put no online order there, and one that is done has put all its rows.   *)
JobsTellTheTruth ==
    \A j \in DOMAIN jobs :
        /\ jobs[j].status = "running" => worker.job = j \/ j \in killed
        /\ jobs[j].status = "failed" => j \notin Range(landed)
        /\ jobs[j].status = "done" =>
              CASE Content(j).kind \in {"ROWS", "WIDE"} ->
                      {st.row : st \in {x \in Range(staged) : x.job = j}} = DOMAIN SalesRows(Content(j))
                [] OTHER -> j \in Range(landed)
        /\ jobs[j].kept <=> jobs[j].status \in {"queued", "running"}

(* Through failures, kills and repeated uploads the three tables an upload *)
(* leaves behind agree: the customers with their phones, the lines with    *)
(* the staged rows, the jobs with both (imports/services.py, tasks.py).    *)
UploadsAreTrue == CustomersOK /\ UploadsTypeOK /\ LinesAreTheRows /\ JobsTellTheTruth
=============================================================================
