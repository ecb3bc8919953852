----------------------------- MODULE OrderSync -----------------------------
(***************************************************************************)
(* An order is saved: what that does to the customer row and to each of    *)
(* the customer's leads (crm/orders/services.py, crm/leads/sync.py,        *)
(* crm/leads/recompute.py), while other orders are saved and assign_owner  *)
(* (crm/customers/services.py) moves the customer.                         *)
(*                                                                         *)
(* Every request is one transaction at READ COMMITTED: a row lock is held  *)
(* to the end, a statement sees what was committed before it began, and    *)
(* PostgreSQL aborts one of the transactions that wait in a circle.        *)
(*                                                                         *)
(* One customer, known by phone.  Leads are numbered by primary key.       *)
(* Instant 2d is the midnight that begins day d, 2d + 1 any time during    *)
(* it.  The requests all run on day 1, and orders carry its midnight; the  *)
(* customer, one order and the leads are from day 0.                       *)
(***************************************************************************)
EXTENDS Naturals, Sequences, FiniteSets, MissedChannel

CONSTANTS
    Leads,      \* how many leads the customer has
    Staff,      \* staff codes
    Worker,     \* requests that run at the same time
    Free,       \* value of a lock nobody holds
    Policy,     \* Policy[l]: the ownership policy of the lead's team
    Assignees,  \* whom managers assign the customer to meanwhile
    MaxOrders,  \* bound: orders of the customer
    MaxSaves    \* bound: quantity entered, one per save

Lead == 1..Leads

ASSUME NullsDiffer == Nobody \notin Staff /\ Free \notin Worker
ASSUME CountsAreNat == {Leads, MaxSaves} \subseteq Nat /\ MaxOrders \in Nat \ {0}
ASSUME LeadPolicies == Policy \in [Lead -> {"EXCLUSIVE", "LATEST_ORDER"}]
ASSUME AssigneesAreStaff == Assignees \subseteq Staff

VARIABLES
    orders,     \* the committed orders, by primary key
    customer,   \* the customer row: owner code and order_count
    custLock,   \* who holds the customer row
    lead,       \* lead[l]: the lead row
    leadLock,   \* leadLock[l]: who holds it
    unsynced,   \* leads the latest order that visited them failed to sync
    entered,    \* quantity entered by all committed saves
    req         \* req[w]: the transaction w runs

vars == <<orders, customer, custLock, lead, leadLock, unsynced, entered, req>>

-----------------------------------------------------------------------------
Midnight(t) == t - (t % 2)
Instant == 0..3
Today == 3
NoDate == Nobody
NoNumber == 0
Code == Staff \cup {Nobody}

Number == 1..MaxOrders

Order == [no : Number, date : Instant, staff : Code, qty : Nat]
LeadRow == [holder : Code, since : Instant, total : Nat,
            last : Instant \cup {NoDate}, missed : Nat]
NoRow == [holder |-> Nobody, since |-> 0, total |-> 0, last |-> NoDate, missed |-> 0]

(* op: follow is the add-order action of the follow-up page, manual the    *)
(* order form; staff: the owner's code of the customer instance in memory; *)
(* id: the existing order it merges into, or 0; count: the orders counted; *)
(* mine: lead rows written, not committed.                                 *)
Req == [op : {"idle", "follow", "manual", "assign"},
        pc : {"idle", "owner", "order", "insert", "customer", "lead", "rows", "done"},
        staff : Code, no : Number \cup {NoNumber},
        date : Instant, id : Nat, qty : Nat, count : Nat,
        cur : 0..Leads, todo : SUBSET Lead, synced : SUBSET Lead, skipped : SUBSET Lead,
        mine : [Lead -> LeadRow]]

Idle ==
    [op |-> "idle", pc |-> "idle", staff |-> Nobody, no |-> NoNumber, date |-> 0, id |-> 0, qty |-> 0, count |-> 0, cur |-> 0, todo |-> {},
     synced |-> {}, skipped |-> {}, mine |-> [l \in Lead |-> NoRow]]

TypeOK ==
    /\ orders \in Seq(Order)
    /\ customer \in [staff : Code, count : Nat]
    /\ custLock \in Worker \cup {Free}
    /\ lead \in [Lead -> LeadRow]
    /\ leadLock \in [Lead -> Worker \cup {Free}]
    /\ unsynced \subseteq Lead
    /\ entered \in Nat
    /\ req \in [Worker -> Req]

(* A customer nobody takes care of yet, with one order from an import.     *)
Init ==
    /\ orders = <<[no |-> 1, date |-> 0, staff |-> Nobody, qty |-> 1]>>
    /\ customer = [staff |-> Nobody, count |-> 1]
    /\ lead = [l \in Lead |-> [NoRow EXCEPT !.since = 1, !.total = 1, !.last = 0]]
    /\ custLock = Free
    /\ leadLock = [l \in Lead |-> Free]
    /\ unsynced = {}
    /\ entered = 1
    /\ req = [w \in Worker |-> Idle]

-----------------------------------------------------------------------------
(* Row locks.                                                              *)

IsOrder(w) == req[w].op \in {"follow", "manual"}
ExistingId(no) == {i \in DOMAIN orders : orders[i].no = no}

(* Mutant: the order to merge into is read without select_for_update.      *)
HoldsNone(w, i) == FALSE
HoldsOrder(w, i) ==
    \/ IsOrder(w) /\ req[w].id = i
    \/ req[w].op = "assign" /\ req[w].pc = "done"

(* An order inserted but not committed holds its place in the unique index *)
(* on (order_no, customer).                                                *)
Inserted(w) == IsOrder(w) /\ req[w].id = 0 /\ req[w].pc \in {"customer", "lead", "done"}

WaitsFor(w) ==
    LET r == req[w] IN
    {v \in Worker \ {w} :
        \/ r.pc \in {"owner", "customer"} /\ custLock = v
        \/ r.pc = "lead" /\ leadLock[r.cur] = v
        \/ r.pc = "order" /\ \E i \in ExistingId(r.no) : HoldsOrder(v, i)
        \/ r.pc = "insert" /\ Inserted(v) /\ req[v].no = r.no
        \/ r.pc = "rows" /\ \E i \in DOMAIN orders : HoldsOrder(v, i)}

(* The lock request is granted.                                            *)
Granted(w) == WaitsFor(w) = {}

Deadlocked(w) ==
    \E S \in SUBSET Worker :
        w \in S /\ \A v \in S : WaitsFor(v) \cap S # {}

ReleaseLocks(w) ==
    /\ custLock' = IF custLock = w THEN Free ELSE custLock
    /\ leadLock' = [l \in Lead |-> IF leadLock[l] = w THEN Free ELSE leadLock[l]]

-----------------------------------------------------------------------------
(* What a save computes.                                                   *)

NewOrder(r) == [no |-> r.no, date |-> r.date, staff |-> r.staff, qty |-> r.qty]

(* The orders as this transaction sees them: committed and its own.        *)
Visible(w) ==
    LET r == req[w] IN
    IF r.id = 0 THEN Append(orders, NewOrder(r)) ELSE [orders EXCEPT ![r.id].qty = r.qty]

TheOrder(w) == LET r == req[w] IN IF r.id = 0 THEN NewOrder(r) ELSE orders[r.id]

Newest(os) ==
    IF os = <<>> THEN NoDate
    ELSE CHOOSE d \in {os[i].date : i \in DOMAIN os} : \A i \in DOMAIN os : os[i].date <= d

MissedOf(os, since, holder) ==
    Missed([i \in DOMAIN os |-> [id |-> i, at |-> os[i].date, closer |-> os[i].staff,
                                 status |-> "PENDING_CONFIRMATION"]],
           since, holder, DefaultPolicy)

Resolve(l, closer) ==
    IF closer = Nobody \/ (Policy[l] = "EXCLUSIVE" /\ lead[l].holder # Nobody)
    THEN lead[l].holder ELSE closer

(* apply_order_to_lead, _refresh_order_rollups and the recompute.          *)
SyncedRow(w, l) ==
    LET o == TheOrder(w)
        moves == o.date >= Midnight(lead[l].since) /\ Resolve(l, o.staff) # lead[l].holder
        holder == IF moves THEN Resolve(l, o.staff) ELSE lead[l].holder
        since == IF moves /\ o.date > lead[l].since THEN o.date ELSE lead[l].since
    IN  [holder |-> holder, since |-> since, total |-> Len(Visible(w)),
         last |-> Newest(Visible(w)), missed |-> MissedOf(Visible(w), since, holder)]

(* reassign_caretaker, before the orders get the new owner's code.         *)
AssignedRow(w, l) ==
    [lead[l] EXCEPT !.holder = req[w].staff, !.since = Today,
                    !.missed = MissedOf(orders, Today, req[w].staff)]

(* The next lead: an order visits them in no order, assign_owner by id.    *)
FirstOf(op, S) == IF op = "assign" THEN {l \in S : \A k \in S : l <= k} ELSE S

-----------------------------------------------------------------------------
(* Requests arrive.                                                        *)

Begin(w, r) ==
    /\ req[w] = Idle
    /\ req' = [req EXCEPT ![w] = r]
    /\ UNCHANGED <<orders, customer, custLock, lead, leadLock, unsynced, entered>>

Loaded == [Idle EXCEPT !.staff = customer.staff, !.date = Midnight(Today), !.qty = 1]

(* Order numbers are names: take the least that is not in use.             *)
Typed ==
    LET used == {orders[i].no : i \in DOMAIN orders} \cup {req[w].no : w \in Worker}
    IN  {no \in Number : no \in used \/ \A k \in Number \ used : no <= k}

Room(no) ==
    LET saving == {w \in Worker : IsOrder(w)} IN
    /\ entered + Cardinality(saving) < MaxSaves
    /\ Len(orders) + Cardinality(saving) < MaxOrders \/ ExistingId(no) # {}

(* The follow-up page's add-order: the view loads the customer, and wants  *)
(* it owned; the new order copies the owner's code from that instance.     *)
BeginFollow(w, no) ==
    /\ Room(no) /\ customer.staff # Nobody
    /\ Begin(w, [Loaded EXCEPT !.op = "follow", !.pc = "order", !.no = no])

(* The order form finds the customer by phone.  A manager chooses the      *)
(* owner; a telesale passes only if the instance is hers, and keeps it.    *)
BeginManual(w, no, owner) ==
    /\ Room(no)
    /\ Begin(w, [Loaded EXCEPT !.op = "manual", !.pc = "owner", !.no = no,
                               !.staff = owner])

BeginAssign(w, u) ==
    \E l \in FirstOf("assign", Lead) :
        Begin(w, [Idle EXCEPT !.op = "assign", !.pc = "lead", !.staff = u,
                              !.cur = l, !.todo = Lead \ {l}])

-----------------------------------------------------------------------------
(* The steps of a save.                                                    *)

(* save_manual_order saves name and owner of the customer it found: both   *)
(* as the instance has them, a telesale's included.                        *)
WriteOwner(w) ==
    /\ req[w].pc = "owner" /\ Granted(w)
    /\ custLock' = w
    /\ req' = [req EXCEPT ![w].pc = "order"]
    /\ UNCHANGED <<orders, customer, lead, leadLock, unsynced, entered>>

(* select_for_update finds an order with the number: lines merge into it.  *)
MergeOrder(w) ==
    LET r == req[w] IN
    /\ r.pc = "order" /\ Granted(w)
    /\ \E i \in ExistingId(r.no) :
           req' = [req EXCEPT ![w].id = i, ![w].qty = orders[i].qty + 1,
                              ![w].count = Len(orders), ![w].pc = "customer"]
    /\ UNCHANGED <<orders, customer, custLock, lead, leadLock, unsynced, entered>>

NewNumber(w) ==
    /\ req[w].pc = "order" /\ ExistingId(req[w].no) = {}
    /\ req' = [req EXCEPT ![w].pc = "insert"]
    /\ UNCHANGED <<orders, customer, custLock, lead, leadLock, unsynced, entered>>

(* The row is inserted and the customer's orders are counted.              *)
InsertOrder(w) ==
    LET r == req[w] IN
    /\ r.pc = "insert" /\ Granted(w) /\ ExistingId(r.no) = {}
    /\ req' = [req EXCEPT ![w].count = Len(orders) + 1, ![w].pc = "customer"]
    /\ UNCHANGED <<orders, customer, custLock, lead, leadLock, unsynced, entered>>

(* Mutant: the leads are synced before the customer row is written.        *)
SaveCustomerLate(w) ==
    LET r == req[w] IN
    /\ r.pc = "customer" /\ IsOrder(w)
    /\ \E l \in FirstOf(r.op, Lead) :
           req' = [req EXCEPT ![w].pc = "lead", ![w].cur = l, ![w].todo = Lead \ {l}]
    /\ UNCHANGED <<orders, customer, custLock, lead, leadLock, unsynced, entered>>

(* customer.save; then the leads are listed.                               *)
SaveCustomer(w) ==
    LET r == req[w] IN
    /\ r.pc = "customer" /\ Granted(w) /\ IsOrder(w)
    /\ custLock' = w
    /\ \E l \in FirstOf(r.op, Lead) :
           req' = [req EXCEPT ![w].pc = "lead", ![w].cur = l, ![w].todo = Lead \ {l}]
    /\ UNCHANGED <<orders, customer, lead, leadLock, unsynced, entered>>

(* On to the next lead, or past the loop.                                  *)
Onward(w, r) ==
    IF r.todo = {}
    THEN req' = [req EXCEPT ![w] =
                    [r EXCEPT !.cur = 0, !.pc = IF r.op = "assign" THEN "customer" ELSE "done"]]
    ELSE \E l \in FirstOf(r.op, r.todo) :
            req' = [req EXCEPT ![w] = [r EXCEPT !.cur = l, !.todo = @ \ {l}]]

SyncLead(w) ==
    LET r == req[w] IN
    /\ r.pc = "lead" /\ Granted(w) /\ IsOrder(w)
    /\ leadLock' = [leadLock EXCEPT ![r.cur] = w]
    /\ Onward(w, [r EXCEPT !.synced = @ \cup {r.cur}, !.mine[r.cur] = SyncedRow(w, r.cur)])
    /\ UNCHANGED <<orders, customer, custLock, lead, unsynced, entered>>

(* Mutant: a lead that failed is put back and tried again.                 *)
SkipLeadAndRetry(w) ==
    LET r == req[w] IN
    /\ r.pc = "lead" /\ IsOrder(w)
    /\ Onward(w, [r EXCEPT !.todo = @ \cup {r.cur}])
    /\ UNCHANGED <<orders, customer, custLock, lead, leadLock, unsynced, entered>>

(* The savepoint of one lead fails; it is logged and the loop goes on.     *)
SkipLead(w) ==
    LET r == req[w] IN
    /\ r.pc = "lead" /\ IsOrder(w)
    /\ Onward(w, [r EXCEPT !.skipped = @ \cup {r.cur}])
    /\ UNCHANGED <<orders, customer, custLock, lead, leadLock, unsynced, entered>>

(* The customer row: the owner if the form wrote it, and the count taken   *)
(* before the row was locked.                                              *)
SavedCustomer(w) ==
    [staff |-> IF req[w].op = "manual" THEN req[w].staff ELSE customer.staff,
     count |-> req[w].count]

CommitOrder(w) ==
    LET r == req[w] IN
    /\ r.pc = "done" /\ IsOrder(w)
    /\ orders' = Visible(w)
    /\ customer' = SavedCustomer(w)
    /\ lead' = [l \in Lead |-> IF l \in r.synced THEN r.mine[l] ELSE lead[l]]
    /\ unsynced' = (unsynced \ r.synced) \cup r.skipped
    /\ entered' = entered + 1
    /\ ReleaseLocks(w)
    /\ req' = [req EXCEPT ![w] = Idle]

-----------------------------------------------------------------------------
(* assign_owner: the leads by id, the customer, then its orders.           *)

AssignLead(w) ==
    LET r == req[w] IN
    /\ r.pc = "lead" /\ Granted(w) /\ r.op = "assign"
    /\ leadLock' = [leadLock EXCEPT ![r.cur] = w]
    /\ Onward(w, [r EXCEPT !.synced = @ \cup {r.cur}, !.mine[r.cur] = AssignedRow(w, r.cur)])
    /\ UNCHANGED <<orders, customer, custLock, lead, unsynced, entered>>

(* Mutant: the orders are updated before the customer row is locked.       *)
AssignCustomerLate(w) ==
    /\ req[w].pc = "customer" /\ req[w].op = "assign"
    /\ req' = [req EXCEPT ![w].pc = "rows"]
    /\ UNCHANGED <<orders, customer, custLock, lead, leadLock, unsynced, entered>>

AssignCustomer(w) ==
    /\ req[w].pc = "customer" /\ Granted(w) /\ req[w].op = "assign"
    /\ custLock' = w
    /\ req' = [req EXCEPT ![w].pc = "rows"]
    /\ UNCHANGED <<orders, customer, lead, leadLock, unsynced, entered>>

(* orders.update: the rows committed by now; an insert under way is not    *)
(* among them.                                                             *)
AssignOrders(w) ==
    /\ req[w].pc = "rows" /\ Granted(w)
    /\ req' = [req EXCEPT ![w].pc = "done", ![w].count = Len(orders)]
    /\ UNCHANGED <<orders, customer, custLock, lead, leadLock, unsynced, entered>>

CommitAssign(w) ==
    LET r == req[w] IN
    /\ r.pc = "done" /\ r.op = "assign"
    /\ orders' = [i \in DOMAIN orders |->
           IF i <= r.count THEN [orders[i] EXCEPT !.staff = r.staff] ELSE orders[i]]
    /\ customer' = [customer EXCEPT !.staff = r.staff]
    /\ lead' = r.mine
    /\ ReleaseLocks(w)
    /\ req' = [req EXCEPT ![w] = Idle]
    /\ UNCHANGED <<unsynced, entered>>

-----------------------------------------------------------------------------
(* Ends that are no commit.                                                *)

Fail(w) ==
    /\ req[w] # Idle
    /\ ReleaseLocks(w)
    /\ req' = [req EXCEPT ![w] = Idle]
    /\ UNCHANGED <<orders, customer, lead, unsynced, entered>>

(* The insert meets a number committed meanwhile: IntegrityError.          *)
RefuseInsert(w) ==
    /\ req[w].pc = "insert" /\ ExistingId(req[w].no) # {}
    /\ Fail(w)

(* PostgreSQL ends a circle of waits by aborting one of its statements; an *)
(* order that waits for a lead loses that lead's savepoint only.           *)
AbortVictim(w) ==
    /\ Deadlocked(w)
    /\ IF req[w].pc = "lead" /\ IsOrder(w) THEN SkipLead(w) ELSE Fail(w)

Advance(w) ==
    \/ WriteOwner(w) \/ MergeOrder(w) \/ NewNumber(w) \/ InsertOrder(w) \/ RefuseInsert(w)
    \/ SaveCustomer(w) \/ SyncLead(w) \/ CommitOrder(w)
    \/ AssignLead(w) \/ AssignCustomer(w) \/ AssignOrders(w) \/ CommitAssign(w)

Arrive(w) ==
    \/ \E no \in Typed : BeginFollow(w, no)
    \/ \E no \in Typed, owner \in Staff : BeginManual(w, no, owner)
    \/ \E u \in Assignees : BeginAssign(w, u)

Next ==
    \E w \in Worker :
        \/ Arrive(w) \/ Advance(w) \/ SkipLead(w) \/ Fail(w) \/ AbortVictim(w)

(* A statement that can go on does, a lock request is granted in the end   *)
(* (PostgreSQL queues them), and deadlocks are detected.  Requests need    *)
(* not arrive, fail or skip.                                               *)
Fairness ==
    /\ \A w \in Worker : SF_vars(Advance(w))
    /\ WF_vars(\E w \in Worker : AbortVictim(w))

Spec == Init /\ [][Next]_vars /\ Fairness

-----------------------------------------------------------------------------
(* Properties.                                                             *)

(* A lead's total_orders and last_order_at are those of its customer's     *)
(* orders, however saves and assignments interleave, as soon as the lead's *)
(* last visit by an order did not fail: one failed sync is healed by the   *)
(* next one (sync._refresh_order_rollups recomputes).                      *)
RollupsAreExact ==
    \A l \in Lead \ unsynced :
        lead[l].total = Len(orders) /\ lead[l].last = Newest(orders)

(* The missed-channel count is what a recompute from all orders would give *)
(* now: nobody changes orders, owner or baseline behind it                 *)
(* (recompute.recompute_lead_missed_channel).                              *)
MissedIsExact ==
    \A l \in Lead \ unsynced :
        lead[l].missed = MissedOf(orders, lead[l].since, lead[l].holder)

(* The copies kept on lead and customer are those of the orders, once the  *)
(* lead's sync has not failed (sync.sync_leads_for_order).                 *)
CopiesAreExact == TypeOK /\ RollupsAreExact /\ MissedIsExact

Total[i \in Nat] == IF i = 0 THEN 0 ELSE Total[i-1] + orders[i].qty

(* Saves that merge into one order number add up: no quantity is lost      *)
(* when two of them are saved together (services.merge_lines).             *)
NoQuantityLost == Total[Len(orders)] = entered

(* An assignment reaches every order committed before it, whatever was     *)
(* being saved meanwhile: row scoping reads the copies                     *)
(* (customers.services.assign_owner).                                      *)
AssignmentReachesEveryOrder ==
    [][\A w \in Worker : CommitAssign(w) =>
          \A i \in DOMAIN orders : orders'[i].staff = req[w].staff]_vars

(* Every request ends: no circle of row locks keeps an order or an         *)
(* assignment waiting, and an aborted savepoint is not retried for ever    *)
(* (sync.sync_leads_for_order).                                            *)
EveryRequestEnds == \A w \in Worker : req[w] # Idle ~> req[w] = Idle
============================================================================
