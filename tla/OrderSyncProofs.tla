-------------------------- MODULE OrderSyncProofs --------------------------
(***************************************************************************)
(* Proofs about OrderSync, for every number of leads, every set of workers *)
(* and staff, every policy and every bound.                                *)
(***************************************************************************)
EXTENDS OrderSync, WellFoundedInduction, FiniteSetTheorems, TLAPS

-----------------------------------------------------------------------------
(* Quantities.                                                             *)

(* A set of natural numbers that is not empty has a least element.         *)
LEMMA LeastOfNaturals ==
    ASSUME NEW S \in SUBSET Nat, S # {}
    PROVE  \E m \in S : \A n \in S : m <= n
<1>1. IsWellFoundedOn(OpToRel(<, Nat), Nat)
  BY NatLessThanWellFounded
<1>2. PICK m \in S : \A n \in S : ~ (<<n, m>> \in OpToRel(<, Nat))
  BY <1>1, WFMin
<1>3. ASSUME NEW n \in S PROVE ~ (n < m)
  <2>1. <<n, m>> \notin {ss \in Nat \X Nat : ss[1] < ss[2]}
    BY <1>2 DEF OpToRel
  <2> QED
    BY <2>1
<1> QED
  BY <1>3

(* Total, for any list of orders.                                          *)
Sums(os) == CHOOSE f : f = [i \in Nat |-> IF i = 0 THEN 0 ELSE f[i-1] + os[i].qty]

(* The sums of the first n quantities only.                                *)
SumsTo(os, n, f) ==
    f = [i \in 0..n |-> IF i = 0 THEN 0 ELSE f[i-1] + os[i].qty]

(* They exist, for every n.                                                *)
LEMMA SumsToExist ==
    ASSUME NEW os, NEW n \in Nat PROVE \E f : SumsTo(os, n, f)
<1> DEFINE S == {k \in Nat : ~ \E f : SumsTo(os, k, f)}
<1>1. SUFFICES ASSUME S # {} PROVE FALSE
  OBVIOUS
<1>2. PICK m \in S : \A k \in S : m <= k
  BY <1>1, LeastOfNaturals
<1>3. m # 0
  <2>1. SumsTo(os, 0, [i \in 0..0 |-> 0])
    BY DEF SumsTo
  <2> QED
    BY <1>2, <2>1
<1>4. m - 1 \in Nat /\ m - 1 \notin S
  BY <1>2, <1>3
<1>5. PICK f : SumsTo(os, m - 1, f)
  BY <1>4
<1> DEFINE g == [i \in 0..m |-> IF i = m THEN f[m-1] + os[m].qty ELSE f[i]]
<1>6. \A i \in 0..(m-1) : f[i] = IF i = 0 THEN 0 ELSE f[i-1] + os[i].qty
  BY <1>5 DEF SumsTo
<1>7. \A i \in 0..m : g[i] = IF i = 0 THEN 0 ELSE g[i-1] + os[i].qty
  BY <1>3, <1>6
<1>8. SumsTo(os, m, g)
  <2>1. g = [i \in 0..m |-> g[i]]
    OBVIOUS
  <2> HIDE DEF g
  <2> QED
    BY <1>7, <2>1 DEF SumsTo
<1> QED
  BY <1>2, <1>8

(* And agree as far as they go.                                            *)
LEMMA SumsToAgree ==
    ASSUME NEW os, NEW m \in Nat, NEW n \in Nat, NEW f, NEW g,
           SumsTo(os, m, f), SumsTo(os, n, g), NEW i \in Nat, i <= m, i <= n
    PROVE  f[i] = g[i]
<1> DEFINE S == {k \in Nat : k <= m /\ k <= n /\ f[k] # g[k]}
<1>1. SUFFICES ASSUME S # {} PROVE FALSE
  OBVIOUS
<1>2. PICK j \in S : \A k \in S : j <= k
  BY <1>1, LeastOfNaturals
<1>3. /\ f[j] = IF j = 0 THEN 0 ELSE f[j-1] + os[j].qty
      /\ g[j] = IF j = 0 THEN 0 ELSE g[j-1] + os[j].qty
  BY <1>2 DEF SumsTo
<1>4. j # 0 => f[j-1] = g[j-1]
  BY <1>2
<1> QED
  BY <1>2, <1>3, <1>4

(* So the recursive definition of Total defines a function.                *)
LEMMA SumsRecur ==
    ASSUME NEW os
    PROVE  /\ Sums(os)[0] = 0
           /\ \A n \in Nat \ {0} : Sums(os)[n] = Sums(os)[n-1] + os[n].qty
<1> DEFINE G(n) == CHOOSE f : SumsTo(os, n, f)
           F == [n \in Nat |-> G(n)[n]]
<1>1. \A n \in Nat : SumsTo(os, n, G(n))
  BY SumsToExist
<1>2. ASSUME NEW n \in Nat PROVE F[n] = IF n = 0 THEN 0 ELSE F[n-1] + os[n].qty
  <2>1. G(n)[n] = IF n = 0 THEN 0 ELSE G(n)[n-1] + os[n].qty
    <3>1. PICK g : g = G(n) /\ SumsTo(os, n, g)
      BY <1>1
    <3>2. g[n] = IF n = 0 THEN 0 ELSE g[n-1] + os[n].qty
      BY <3>1 DEF SumsTo
    <3> QED
      BY <3>1, <3>2
  <2>2. n # 0 => G(n)[n-1] = G(n-1)[n-1]
    <3>1. ASSUME n # 0 PROVE G(n)[n-1] = G(n-1)[n-1]
      <4>1. n - 1 \in Nat /\ n - 1 <= n /\ n - 1 <= n - 1
        BY <3>1
      <4>2. SumsTo(os, n, G(n)) /\ SumsTo(os, n - 1, G(n-1))
        BY <1>1, <4>1
      <4> HIDE DEF G
      <4> QED
        BY <4>1, <4>2, SumsToAgree
    <3> QED
      BY <3>1
  <2> HIDE DEF G
  <2> QED
    BY <2>1, <2>2
<1>3. F = [i \in Nat |-> F[i]]
  OBVIOUS
<1> HIDE DEF F
<1>4. F = [i \in Nat |-> IF i = 0 THEN 0 ELSE F[i-1] + os[i].qty]
  BY <1>2, <1>3
<1>5. Sums(os) = [i \in Nat |-> IF i = 0 THEN 0 ELSE Sums(os)[i-1] + os[i].qty]
  BY <1>4 DEF Sums
<1> DEFINE H == Sums(os)
<1>6. H = [i \in Nat |-> IF i = 0 THEN 0 ELSE H[i-1] + os[i].qty]
  BY <1>5
<1> HIDE DEF H
<1>7. H[0] = 0 /\ \A n \in Nat \ {0} : H[n] = H[n-1] + os[n].qty
  BY <1>6
<1> QED
  BY <1>7 DEF H

(* Total is that function.                                                 *)
LEMMA TotalIsSums == Total = Sums(orders)
  BY DEF Total, Sums

(* The sum is a number, and grows by one when the k-th quantity does.      *)
LEMMA SumsGrow ==
    ASSUME NEW os, NEW ot, NEW n \in Nat, NEW k \in Nat,
           \A i \in 1..n : os[i].qty \in Nat
                           /\ ot[i].qty = os[i].qty + (IF i = k THEN 1 ELSE 0)
    PROVE  /\ Sums(os)[n] \in Nat
           /\ Sums(ot)[n] = Sums(os)[n] + (IF k \in 1..n THEN 1 ELSE 0)
<1> DEFINE Holds(m) == /\ Sums(os)[m] \in Nat
                       /\ Sums(ot)[m] = Sums(os)[m] + (IF k \in 1..m THEN 1 ELSE 0)
           S == {m \in Nat : m <= n /\ ~Holds(m)}
<1>1. SUFFICES ASSUME S # {} PROVE FALSE
  OBVIOUS
<1>2. PICK m \in S : \A j \in S : m <= j
  BY <1>1, LeastOfNaturals
<1>3. m # 0
  BY <1>2, SumsRecur
<1>4. m \in Nat \ {0} /\ m - 1 \in Nat /\ m - 1 <= n /\ m <= n
  BY <1>2, <1>3
<1>5. Holds(m - 1)
  BY <1>2, <1>4
<1>6. /\ Sums(os)[m] = Sums(os)[m-1] + os[m].qty
      /\ Sums(ot)[m] = Sums(ot)[m-1] + ot[m].qty
  BY <1>4, SumsRecur
<1>7. os[m].qty \in Nat /\ ot[m].qty = os[m].qty + (IF m = k THEN 1 ELSE 0)
  BY <1>4
<1>8. Holds(m)
  BY <1>4, <1>5, <1>6, <1>7
<1> QED
  BY <1>2, <1>8

-----------------------------------------------------------------------------
(* What a lead keeps of its customer's orders.                             *)

(* Of some instants one is the latest.                                     *)
LEMMA LatestInstant ==
    ASSUME NEW D \in SUBSET Instant, D # {}
    PROVE  \E d \in D : \A e \in D : e <= d
<1>1. Instant = {0, 1, 2, 3}
  BY DEF Instant
<1>2. \A d \in D : d \in {0, 1, 2, 3}
  BY <1>1
<1>3. CASE 3 \in D
  BY <1>2, <1>3
<1>4. CASE 3 \notin D /\ 2 \in D
  BY <1>2, <1>4
<1>5. CASE 3 \notin D /\ 2 \notin D /\ 1 \in D
  BY <1>2, <1>5
<1>6. CASE 3 \notin D /\ 2 \notin D /\ 1 \notin D
  BY <1>2, <1>6
<1> QED
  BY <1>3, <1>4, <1>5, <1>6

(* The newest date is that of an order, and depends on the dates only.     *)
LEMMA NewestIsADate ==
    ASSUME NEW os \in Seq(Order)
    PROVE  /\ Newest(os) \in Instant \cup {NoDate}
           /\ os # <<>> => \E i \in DOMAIN os : Newest(os) = os[i].date
           /\ \A ot \in Seq(Order) : 
                 /\ DOMAIN ot = DOMAIN os
                 /\ \A i \in DOMAIN os : ot[i].date = os[i].date
                 => Newest(ot) = Newest(os)
<1> DEFINE D(s) == {s[i].date : i \in DOMAIN s}
           Top(s, d) == d \in D(s) /\ \A i \in DOMAIN s : s[i].date <= d
<1>1. ASSUME NEW s \in Seq(Order), s # <<>>
      PROVE  /\ \E d \in Instant : Top(s, d)
             /\ Top(s, Newest(s)) /\ Newest(s) \in Instant
  <2>1. \A i \in DOMAIN s : s[i] \in Order
    OBVIOUS
  <2>2. \A i \in DOMAIN s : s[i].date \in Instant
    BY <2>1 DEF Order
  <2>3. D(s) \in SUBSET Instant /\ D(s) # {}
    BY <1>1, <2>2
  <2>4. PICK d \in D(s) : \A e \in D(s) : e <= d
    <3> HIDE DEF D
    <3> QED
      BY <2>3, LatestInstant
  <2>5. Top(s, d) /\ d \in Instant
    BY <2>3, <2>4
  <2>6. Newest(s) = CHOOSE e \in D(s) : \A i \in DOMAIN s : s[i].date <= e
    BY <1>1 DEF Newest
  <2>7. Top(s, Newest(s))
    BY <2>5, <2>6
  <2> QED
    BY <2>3, <2>5, <2>7
<1>2. Newest(os) \in Instant \cup {NoDate}
  <2>1. os = <<>> => Newest(os) = NoDate
    BY DEF Newest
  <2> QED
    BY <1>1, <2>1
<1>3. ASSUME NEW ot \in Seq(Order), DOMAIN ot = DOMAIN os,
             \A i \in DOMAIN os : ot[i].date = os[i].date
      PROVE  Newest(ot) = Newest(os)
  <2>1. CASE os = <<>>
    BY <1>3, <2>1 DEF Newest
  <2>2. CASE os # <<>>
    <3>1. ot # <<>>
      BY <1>3, <2>2
    <3>2. /\ Top(os, Newest(os)) /\ Newest(os) \in Instant
          /\ Top(ot, Newest(ot)) /\ Newest(ot) \in Instant
      BY <1>1, <2>2, <3>1
    <3>3. PICK i \in DOMAIN os, j \in DOMAIN os : os[i].date = Newest(os) /\ ot[j].date = Newest(ot)
      BY <1>3, <3>2
    <3>4. Newest(ot) <= Newest(os) /\ Newest(os) <= Newest(ot)
      BY <1>3, <3>2, <3>3
    <3> QED
      BY <3>2, <3>4 DEF Instant
  <2> QED
    BY <2>1, <2>2
<1>4. os # <<>> => \E i \in DOMAIN os : Newest(os) = os[i].date
  BY <1>1
<1> QED
  BY <1>2, <1>3, <1>4

(* The missed-channel count is a number; it is 0 when all orders are from  *)
(* before the baseline.                                                    *)
LEMMA MissedIsACount ==
    ASSUME NEW os \in Seq(Order), NEW since, NEW holder
    PROVE  /\ MissedOf(os, since, holder) \in Nat
           /\ (\A i \in DOMAIN os : os[i].date < since) => MissedOf(os, since, holder) = 0
<1> DEFINE rows == [i \in DOMAIN os |-> [id |-> i, at |-> os[i].date, closer |-> os[i].staff,
                                         status |-> "PENDING_CONFIRMATION"]]
           says(o) == Verdict(o, since, holder, DefaultPolicy)
           counted == {o \in Latest(rows) : says(o) = "count" /\
                          \A r \in Latest(rows) : says(r) = "reset" => SortsBefore(r, o)}
           R == {rows[i] : i \in DOMAIN rows}
<1>1. DefaultPolicy.enabled = TRUE
  BY DEF DefaultPolicy
<1>2. MissedOf(os, since, holder) = Cardinality(counted)
  BY <1>1 DEF MissedOf, Missed
<1>3. Len(os) \in Nat /\ DOMAIN os = 1..Len(os)
  OBVIOUS
<1>4. IsFiniteSet(DOMAIN rows)
  BY <1>3, FS_Interval
<1>5. Latest(rows) \subseteq R
  BY DEF Latest
<1>6. IsFiniteSet(counted)
  <2> HIDE DEF rows
  <2>1. [i \in DOMAIN rows |-> rows[i]] \in Surjection(DOMAIN rows, R)
    BY DEF Surjection
  <2>2. IsFiniteSet(R)
    BY <1>4, <2>1, FS_Surjection
  <2>3. counted \in SUBSET R
    BY <1>5
  <2> QED
    BY <2>2, <2>3, FS_Subset
<1>7. Cardinality(counted) \in Nat
  BY <1>6, FS_CardinalityType
<1>8. ASSUME \A i \in DOMAIN os : os[i].date < since PROVE counted = {}
  <2>1. ASSUME NEW o \in R PROVE says(o) = "skip"
    <3>1. PICK i \in DOMAIN os : o = rows[i]
      OBVIOUS
    <3>2. o.at < since
      BY <1>8, <3>1
    <3> QED
      BY <3>2 DEF Verdict
  <2>2. \A o \in Latest(rows) : says(o) # "count"
    BY <1>5, <2>1
  <2> QED
    BY <2>2
<1> QED
  BY <1>2, <1>7, <1>8, FS_EmptySet

-----------------------------------------------------------------------------
(* The inductive invariant.                                                *)

Saves == {"follow", "manual"}   \* requests that save an order
Past == {"lead", "done"}        \* steps of a save that holds the customer row

(* A request goes through its steps in order, and visits every lead.       *)
StepIsSound(r) ==
    /\ r.op = "idle" => r = Idle
    /\ r.op \in Saves => /\ r.pc \in {"owner", "order", "insert", "customer", "lead", "done"}
                        /\ r.no \in Number /\ r.date <= Midnight(Today)
    /\ r.op = "assign" => /\ r.pc \in {"lead", "customer", "rows", "done"}
                         /\ r.skipped = {} /\ r.staff \in Staff
    /\ r.op \in Saves /\ r.pc \notin Past => r.synced = {} /\ r.skipped = {}
    /\ r.pc = "lead" => r.cur \in Lead /\ r.synced \cup r.skipped \cup r.todo \cup {r.cur} = Lead
    /\ r.pc \in {"rows", "done"} \/ (r.pc = "customer" /\ r.op = "assign")
          => r.synced \cup r.skipped = Lead

(* It holds the rows it has written.                                       *)
Holds(w, r, cl, ll) ==
    /\ r.op \in Saves /\ r.pc \in Past => cl = w
    /\ r.op = "assign" /\ r.pc \in {"rows", "done"} => cl = w
    /\ \A l \in r.synced : ll[l] = w

(* The order it merges into is as it was read.                             *)
MergeIsSound(r, os) ==
    r.op \in Saves =>
        IF r.id = 0 THEN r.qty = 1
        ELSE r.id \in DOMAIN os /\ r.qty = os[r.id].qty + 1

(* The row's copies are those of the orders os.                            *)
Exact(row, os) ==
    /\ row.total = Len(os) /\ row.last = Newest(os)
    /\ row.missed = MissedOf(os, row.since, row.holder)

(* The orders as a save sees them.                                         *)
Seen(r, os) ==
    IF r.id = 0 THEN Append(os, NewOrder(r)) ELSE [os EXCEPT ![r.id].qty = r.qty]

(* What it has written is what the orders will be when it commits.         *)
WriteIsSound(r, os, skipped) ==
    /\ r.op \in Saves => \A l \in r.synced : Exact(r.mine[l], Seen(r, os))
    /\ r.op = "assign" => \A l \in r.synced :
          /\ r.mine[l].since = Today /\ r.mine[l].holder = r.staff
          /\ l \notin skipped => Exact(r.mine[l], os)
    /\ r.op = "assign" /\ r.pc = "done" => r.count = Len(os)

RequestIsSound(w, r, os, skipped, cl, ll) ==
    StepIsSound(r) /\ Holds(w, r, cl, ll) /\ MergeIsSound(r, os) /\ WriteIsSound(r, os, skipped)

(* No two saves merge into one order.                                      *)
MergesApart ==
    \A v, w \in Worker :
        v # w /\ req[v].op \in Saves /\ req[w].op \in Saves /\ req[v].id # 0
            => req[v].id # req[w].id

OrdersAreOld == \A i \in DOMAIN orders : orders[i].date <= Midnight(Today)

IInv ==
    /\ TypeOK
    /\ \A w \in Worker : RequestIsSound(w, req[w], orders, unsynced, custLock, leadLock)
    /\ MergesApart /\ OrdersAreOld
    /\ \A l \in Lead \ unsynced : Exact(lead[l], orders)
    /\ NoQuantityLost

-----------------------------------------------------------------------------
(* Requests.                                                               *)

(* No request is one of the type.                                          *)
LEMMA IdleIsARequest ==
    /\ Idle \in Req /\ Idle.op = "idle" /\ Idle.pc = "idle" /\ Idle.synced = {}
    /\ Midnight(Today) = 2 /\ Today \in Instant /\ Today = 3 /\ Midnight(Today) \in Instant
    /\ NoRow \in LeadRow
<1>1. NoRow \in LeadRow
  BY DEF NoRow, LeadRow, Code, Instant
<1>2. [l \in Lead |-> NoRow] \in [Lead -> LeadRow]
  BY <1>1
<1>3. 0 \in 0..Leads
  BY CountsAreNat
<1>4. Idle \in Req
  BY <1>2, <1>3 DEF Idle, Req, Code, Instant
<1>5. Midnight(Today) = 2 /\ Today \in Instant /\ Today = 3 /\ Midnight(Today) \in Instant
  BY DEF Midnight, Today, Instant
<1> QED
  BY <1>1, <1>4, <1>5 DEF Idle

(* It is sound whatever the others do.                                     *)
LEMMA IdleIsSound ==
    ASSUME NEW w, NEW os, NEW skipped, NEW cl, NEW ll
    PROVE  RequestIsSound(w, Idle, os, skipped, cl, ll)
<1>1. Idle.op = "idle" /\ Idle.pc = "idle" /\ Idle.synced = {}
  BY IdleIsARequest
<1> QED
  BY <1>1 DEF RequestIsSound, StepIsSound, Holds, MergeIsSound, WriteIsSound, Saves, Past

(* A step of one request that commits nothing.                             *)
LEMMA RequestPreserves ==
    ASSUME IInv, NEW w \in Worker, NEW r \in Req, req' = [req EXCEPT ![w] = r],
           UNCHANGED <<orders, customer, lead, unsynced, entered>>,
           custLock' \in Worker \cup {Free}, leadLock' \in [Lead -> Worker \cup {Free}],
           \A v \in Worker \ {w} : custLock = v => custLock' = v,
           \A l \in Lead, v \in Worker \ {w} : leadLock[l] = v => leadLock'[l] = v,
           RequestIsSound(w, r, orders, unsynced, custLock', leadLock'),
           r.op \in Saves /\ r.id # 0 =>
               \A v \in Worker \ {w} : req[v].op \in Saves => req[v].id # r.id
    PROVE  IInv'
<1>1. /\ req \in [Worker -> Req] /\ req' \in [Worker -> Req] /\ req'[w] = r
      /\ \A v \in Worker \ {w} : req'[v] = req[v]
  BY DEF IInv, TypeOK
<1>2. TypeOK'
  BY <1>1 DEF IInv, TypeOK
<1>3. ASSUME NEW v \in Worker
      PROVE  RequestIsSound(v, req'[v], orders', unsynced', custLock', leadLock')
  <2>1. CASE v = w
    BY <1>1, <2>1
  <2>2. CASE v # w
    <3>1. req'[v] = req[v] /\ req[v].synced \subseteq Lead
      BY <1>1, <2>2 DEF Req
    <3>2. RequestIsSound(v, req[v], orders, unsynced, custLock, leadLock)
      BY DEF IInv
    <3>3. Holds(v, req[v], custLock', leadLock')
      BY <2>2, <3>1, <3>2 DEF RequestIsSound, Holds
    <3> QED
      BY <3>1, <3>2, <3>3 DEF RequestIsSound
  <2> QED
    BY <2>1, <2>2
<1>4. MergesApart'
  BY <1>1 DEF IInv, MergesApart
<1>5. OrdersAreOld' /\ (\A l \in Lead \ unsynced : Exact(lead[l], orders))'
  BY DEF IInv, OrdersAreOld, Exact
<1>6. NoQuantityLost'
  <2>1. Total' = Total
    BY DEF Total
  <2> QED
    BY <2>1 DEF IInv, NoQuantityLost
<1> QED
  BY <1>2, <1>3, <1>4, <1>5, <1>6 DEF IInv

(* What the invariant says of one request.                                 *)
LEMMA RequestFacts ==
    ASSUME IInv, NEW w \in Worker
    PROVE  /\ req \in [Worker -> Req] /\ req[w] \in Req
           /\ StepIsSound(req[w]) /\ Holds(w, req[w], custLock, leadLock)
           /\ MergeIsSound(req[w], orders) /\ WriteIsSound(req[w], orders, unsynced)
           /\ custLock \in Worker \cup {Free} /\ leadLock \in [Lead -> Worker \cup {Free}]
           /\ orders \in Seq(Order) /\ lead \in [Lead -> LeadRow]
           /\ customer.staff \in Code /\ Free \notin Worker
  BY NullsDiffer DEF IInv, TypeOK, RequestIsSound

(* A request for a save, as it arrives.                                    *)
LEMMA ArrivingSave ==
    ASSUME IInv, NEW op \in Saves, NEW pc \in {"owner", "order"}, NEW no \in Number, NEW s \in Code
    PROVE  LET r == [Idle EXCEPT !.op = op, !.pc = pc, !.staff = s, !.no = no,
                                 !.date = Midnight(Today), !.qty = 1]
           IN  /\ r \in Req
               /\ \A w, cl, ll : RequestIsSound(w, r, orders, unsynced, cl, ll)
               /\ r.id = 0
<1> DEFINE r == [Idle EXCEPT !.op = op, !.pc = pc, !.staff = s, !.no = no,
                             !.date = Midnight(Today), !.qty = 1]
<1>1. op \in {"idle", "follow", "manual", "assign"} /\ pc \in {"owner", "order"}
  BY DEF Saves
<1>2. r \in Req
  BY <1>1, IdleIsARequest DEF Req
<1>3. /\ r.op = op /\ r.pc = pc /\ r.no = no /\ r.date = Midnight(Today) /\ r.qty = 1 /\ r.id = 0
      /\ r.synced = {} /\ r.skipped = {}
  BY DEF Idle
<1>4. Midnight(Today) = 2
  BY IdleIsARequest
<1> HIDE DEF r
<1>5. StepIsSound(r)
  BY <1>1, <1>3, <1>4 DEF StepIsSound, Saves, Past
<1>6. \A w, cl, ll : Holds(w, r, cl, ll)
  BY <1>3 DEF Holds, Past, Saves
<1>7. MergeIsSound(r, orders) /\ WriteIsSound(r, orders, unsynced)
  BY <1>3 DEF MergeIsSound, WriteIsSound, Saves
<1>8. r \in Req /\ r.id = 0 /\ \A w, cl, ll : RequestIsSound(w, r, orders, unsynced, cl, ll)
  BY <1>2, <1>3, <1>5, <1>6, <1>7 DEF RequestIsSound
<1> QED
  BY <1>8 DEF r

(* Requests arrive.                                                        *)
LEMMA ArrivePreserves == ASSUME IInv, NEW w \in Worker, Arrive(w) PROVE IInv'
<1>1. /\ Typed \subseteq Number /\ Staff \subseteq Code /\ customer.staff \in Code
      /\ custLock \in Worker \cup {Free} /\ leadLock \in [Lead -> Worker \cup {Free}]
  BY RequestFacts DEF Typed, Code
<1>2. ASSUME NEW r \in Req, Begin(w, r), r.id = 0,
             \A cl, ll : RequestIsSound(w, r, orders, unsynced, cl, ll)
      PROVE  IInv'
  BY <1>1, <1>2, RequestPreserves DEF Begin
<1>3. ASSUME NEW no \in Typed, BeginFollow(w, no) PROVE IInv'
  <2> DEFINE r == [Idle EXCEPT !.op = "follow", !.pc = "order", !.staff = customer.staff, !.no = no,
                               !.date = Midnight(Today), !.qty = 1]
  <2>1. [Loaded EXCEPT !.op = "follow", !.pc = "order", !.no = no] = r
    BY DEF Loaded, Idle
  <2>2. /\ r \in Req /\ r.id = 0
        /\ \A v, cl, ll : RequestIsSound(v, r, orders, unsynced, cl, ll)
    BY <1>1, ArrivingSave DEF Saves
  <2> HIDE DEF r
  <2>3. Begin(w, r)
    BY <1>3, <2>1 DEF BeginFollow
  <2> QED
    BY <1>2, <2>2, <2>3
<1>4. ASSUME NEW no \in Typed, NEW owner \in Staff, BeginManual(w, no, owner) PROVE IInv'
  <2> DEFINE r == [Idle EXCEPT !.op = "manual", !.pc = "owner", !.staff = owner, !.no = no,
                               !.date = Midnight(Today), !.qty = 1]
  <2>1. [Loaded EXCEPT !.op = "manual", !.pc = "owner", !.no = no, !.staff = owner] = r
    BY DEF Loaded, Idle
  <2>2. /\ r \in Req /\ r.id = 0
        /\ \A v, cl, ll : RequestIsSound(v, r, orders, unsynced, cl, ll)
    BY <1>1, ArrivingSave DEF Saves
  <2> HIDE DEF r
  <2>3. Begin(w, r)
    BY <1>4, <2>1 DEF BeginManual
  <2> QED
    BY <1>2, <2>2, <2>3
<1>5. ASSUME NEW u \in Assignees, BeginAssign(w, u) PROVE IInv'
  <2>1. PICK l \in FirstOf("assign", Lead) :
            Begin(w, [Idle EXCEPT !.op = "assign", !.pc = "lead", !.staff = u,
                                  !.cur = l, !.todo = Lead \ {l}])
    BY <1>5 DEF BeginAssign
  <2>2. l \in Lead /\ u \in Staff /\ l \in 0..Leads
    BY CountsAreNat, AssigneesAreStaff DEF FirstOf, Lead
  <2> DEFINE r == [Idle EXCEPT !.op = "assign", !.pc = "lead", !.staff = u,
                               !.cur = l, !.todo = Lead \ {l}]
  <2>3. r \in Req
    BY <1>1, <2>2, IdleIsARequest DEF Req
  <2>4. /\ r.op = "assign" /\ r.pc = "lead" /\ r.staff = u /\ r.cur = l /\ r.todo = Lead \ {l}
        /\ r.id = 0 /\ r.synced = {} /\ r.skipped = {}
    BY DEF Idle
  <2> HIDE DEF r
  <2>5. StepIsSound(r)
    BY <2>2, <2>4 DEF StepIsSound, Saves, Past
  <2>6. \A cl, ll : RequestIsSound(w, r, orders, unsynced, cl, ll)
    BY <2>4, <2>5 DEF RequestIsSound, Holds, MergeIsSound, WriteIsSound, Saves
  <2>7. Begin(w, r)
    BY <2>1 DEF r
  <2> QED
    BY <1>2, <2>3, <2>4, <2>6, <2>7
<1> QED
  BY <1>3, <1>4, <1>5 DEF Arrive

(* A lock that is granted is held by no other request.                     *)
LEMMA GrantedIsFree ==
    ASSUME NEW w \in Worker, Granted(w), NEW v \in Worker \ {w}
    PROVE  /\ req[w].pc \in {"owner", "customer"} => custLock # v
           /\ req[w].pc = "lead" => leadLock[req[w].cur] # v
           /\ req[w].pc = "order" => \A i \in ExistingId(req[w].no) : ~HoldsOrder(v, i)
  BY DEF Granted, WaitsFor

(* Which requests are at which step.                                       *)
LEMMA WhoseStep ==
    ASSUME NEW r \in Req, StepIsSound(r)
    PROVE  /\ r.op \in Saves \/ r.op = "assign" \/ r = Idle
           /\ r.pc \in {"owner", "order", "insert"} => r.op \in Saves
           /\ r.pc = "rows" => r.op = "assign"
           /\ r.op \notin Saves => r.op \notin {"follow", "manual"}
  BY IdleIsARequest DEF Req, StepIsSound, Saves

(* A save goes on to its next step, before it writes any lead.             *)
LEMMA EarlyStepPreserves ==
    ASSUME IInv, NEW w \in Worker, req[w].op \in Saves, req[w].pc \notin Past,
           NEW p \in {"order", "insert", "customer"}, NEW c \in Nat,
           req' = [req EXCEPT ![w].pc = p, ![w].count = c],
           UNCHANGED <<orders, customer, lead, leadLock, unsynced, entered>>,
           custLock' = custLock \/ (custLock' = w /\ \A v \in Worker \ {w} : custLock # v)
    PROVE  IInv'
<1>1. PICK r \in Req : r = req[w]
  BY RequestFacts
<1>2. /\ StepIsSound(r) /\ MergeIsSound(r, orders)
      /\ leadLock \in [Lead -> Worker \cup {Free}] /\ req \in [Worker -> Req]
      /\ custLock \in Worker \cup {Free}
  BY <1>1, RequestFacts
<1>3. r.op \in Saves /\ r.pc \notin Past
  BY <1>1
<1> DEFINE q == [r EXCEPT !.pc = p, !.count = c]
<1>4. q \in Req
  BY DEF Req
<1>5. /\ q.op = r.op /\ q.pc = p /\ q.id = r.id /\ q.qty = r.qty /\ q.synced = r.synced
      /\ q.skipped = r.skipped /\ q.no = r.no /\ q.date = r.date
  BY DEF Req
<1>6. req' = [req EXCEPT ![w] = q]
  BY <1>1
<1> HIDE DEF q
<1>7. r.synced = {} /\ r.skipped = {}
  BY <1>2, <1>3 DEF StepIsSound
<1>8. StepIsSound(q)
  BY <1>2, <1>3, <1>5, <1>7 DEF StepIsSound, Saves, Past
<1>9. /\ Holds(w, q, custLock', leadLock') /\ MergeIsSound(q, orders)
      /\ WriteIsSound(q, orders, unsynced)
  BY <1>2, <1>3, <1>5, <1>7 DEF Holds, MergeIsSound, WriteIsSound, Saves, Past
<1>10. \A v \in Worker \ {w} : custLock = v => custLock' = v
  OBVIOUS
<1>11. \A v \in Worker \ {w} : req[v].op \in Saves /\ q.id # 0 => req[v].id # q.id
  BY <1>1, <1>3, <1>5 DEF IInv, MergesApart
<1> QED
  BY <1>2, <1>4, <1>6, <1>8, <1>9, <1>10, <1>11, RequestPreserves DEF RequestIsSound

(* The form writes the owner: the customer row is locked.                  *)
LEMMA WriteOwnerPreserves == ASSUME IInv, NEW w \in Worker, WriteOwner(w) PROVE IInv'
<1>1. /\ req[w] \in Req /\ StepIsSound(req[w]) /\ req \in [Worker -> Req]
      /\ req[w].pc = "owner" /\ req[w].count \in Nat
  BY RequestFacts DEF WriteOwner, Req
<1>2. req[w].op \in Saves /\ req[w].pc \notin Past
  BY <1>1, WhoseStep DEF Past
<1>3. \A v \in Worker \ {w} : custLock # v
  BY <1>1, GrantedIsFree DEF WriteOwner
<1>4. req' = [req EXCEPT ![w].pc = "order", ![w].count = req[w].count]
  BY <1>1 DEF WriteOwner, Req
<1> QED
  BY <1>1, <1>2, <1>3, <1>4, EarlyStepPreserves DEF WriteOwner

(* No order has the number: it is inserted.                                *)
LEMMA NewNumberPreserves == ASSUME IInv, NEW w \in Worker, NewNumber(w) PROVE IInv'
<1>1. /\ req[w] \in Req /\ StepIsSound(req[w]) /\ req \in [Worker -> Req]
      /\ req[w].pc = "order" /\ req[w].count \in Nat
  BY RequestFacts DEF NewNumber, Req
<1>2. req[w].op \in Saves /\ req[w].pc \notin Past
  BY <1>1, WhoseStep DEF Past
<1>3. req' = [req EXCEPT ![w].pc = "insert", ![w].count = req[w].count]
  BY <1>1 DEF NewNumber, Req
<1> QED
  BY <1>1, <1>2, <1>3, EarlyStepPreserves DEF NewNumber

(* The row is inserted, and the orders counted.                            *)
LEMMA InsertOrderPreserves == ASSUME IInv, NEW w \in Worker, InsertOrder(w) PROVE IInv'
<1>1. /\ req[w] \in Req /\ StepIsSound(req[w]) /\ orders \in Seq(Order)
      /\ req[w].pc = "insert"
  BY RequestFacts DEF InsertOrder
<1>2. req[w].op \in Saves /\ req[w].pc \notin Past /\ Len(orders) + 1 \in Nat
  BY <1>1, WhoseStep DEF Past
<1>3. req' = [req EXCEPT ![w].pc = "customer", ![w].count = Len(orders) + 1]
  <2>1. PICK c \in Nat : c = Len(orders) + 1
    BY <1>2
  <2> QED
    BY <1>1, <2>1 DEF InsertOrder
<1> QED
  BY <1>1, <1>2, <1>3, EarlyStepPreserves DEF InsertOrder

(* A save waits for the row of the order it merges into: no other save     *)
(* merges into it meanwhile.                                               *)
LEMMA MergeOrderPreserves == ASSUME IInv, NEW w \in Worker, MergeOrder(w) PROVE IInv'
<1>1. PICK r \in Req : r = req[w]
  BY RequestFacts
<1>2. /\ StepIsSound(r) /\ WriteIsSound(r, orders, unsynced)
      /\ leadLock \in [Lead -> Worker \cup {Free}] /\ req \in [Worker -> Req]
      /\ orders \in Seq(Order) /\ custLock \in Worker \cup {Free}
  BY <1>1, RequestFacts
<1>3. r.pc = "order" /\ r.op \in Saves
  BY <1>1, <1>2, WhoseStep DEF MergeOrder
<1>4. PICK i \in ExistingId(r.no) :
          req' = [req EXCEPT ![w].id = i, ![w].qty = orders[i].qty + 1,
                             ![w].count = Len(orders), ![w].pc = "customer"]
  BY <1>1 DEF MergeOrder
<1>5. i \in DOMAIN orders /\ i \in Nat \ {0} /\ Len(orders) \in Nat
  BY <1>2 DEF ExistingId
<1>6. orders[i].qty \in Nat
  <2>1. orders[i] \in Order
    BY <1>2, <1>5
  <2> QED
    BY <2>1 DEF Order
<1>a. PICK n \in Nat, m \in Nat : n = orders[i].qty + 1 /\ m = Len(orders)
  BY <1>5, <1>6
<1> DEFINE q == [r EXCEPT !.id = i, !.qty = n, !.count = m, !.pc = "customer"]
<1>7. q \in Req
  BY <1>5 DEF Req
<1>8. /\ q.op = r.op /\ q.pc = "customer" /\ q.id = i /\ q.qty = orders[i].qty + 1
      /\ q.synced = r.synced /\ q.skipped = r.skipped /\ q.no = r.no /\ q.date = r.date
  BY <1>a DEF Req
<1>9. req' = [req EXCEPT ![w] = q]
  BY <1>1, <1>4, <1>a
<1> HIDE DEF q
<1>10. r.synced = {} /\ r.skipped = {}
  BY <1>2, <1>3 DEF StepIsSound, Past
<1>11. StepIsSound(q)
  BY <1>2, <1>3, <1>8, <1>10 DEF StepIsSound, Saves, Past
<1>12. /\ Holds(w, q, custLock, leadLock) /\ MergeIsSound(q, orders)
       /\ WriteIsSound(q, orders, unsynced)
  BY <1>3, <1>5, <1>8, <1>10 DEF Holds, MergeIsSound, WriteIsSound, Saves, Past
<1>13. ASSUME NEW v \in Worker \ {w}, req[v].op \in Saves PROVE req[v].id # q.id
  <2>1. ~HoldsOrder(v, i)
    BY <1>1, <1>3, <1>4, GrantedIsFree DEF MergeOrder
  <2> QED
    BY <1>8, <1>13, <2>1 DEF HoldsOrder, IsOrder, Saves
<1> QED
  BY <1>2, <1>7, <1>9, <1>11, <1>12, <1>13, RequestPreserves DEF MergeOrder, RequestIsSound

(* The customer row is written, and the first lead chosen.                 *)
LEMMA SaveCustomerPreserves == ASSUME IInv, NEW w \in Worker, SaveCustomer(w) PROVE IInv'
<1>1. PICK r \in Req : r = req[w]
  BY RequestFacts
<1>2. /\ StepIsSound(r) /\ MergeIsSound(r, orders)
      /\ leadLock \in [Lead -> Worker \cup {Free}] /\ req \in [Worker -> Req]
      /\ custLock \in Worker \cup {Free}
  BY <1>1, RequestFacts
<1>3. r.pc = "customer" /\ r.op \in Saves
  BY <1>1 DEF SaveCustomer, IsOrder, Saves
<1>4. PICK l \in Lead :
          req' = [req EXCEPT ![w].pc = "lead", ![w].cur = l, ![w].todo = Lead \ {l}]
  BY <1>1 DEF SaveCustomer, FirstOf
<1>5. l \in 0..Leads /\ Lead \ {l} \in SUBSET Lead
  BY CountsAreNat DEF Lead
<1> DEFINE q == [r EXCEPT !.pc = "lead", !.cur = l, !.todo = Lead \ {l}]
<1>6. q \in Req
  BY <1>5 DEF Req
<1>7. /\ q.op = r.op /\ q.pc = "lead" /\ q.id = r.id /\ q.qty = r.qty /\ q.synced = r.synced
      /\ q.skipped = r.skipped /\ q.no = r.no /\ q.date = r.date /\ q.cur = l /\ q.todo = Lead \ {l}
  BY DEF Req
<1>8. req' = [req EXCEPT ![w] = q]
  BY <1>1, <1>4
<1> HIDE DEF q
<1>9. r.synced = {} /\ r.skipped = {}
  BY <1>2, <1>3 DEF StepIsSound, Past
<1>10. StepIsSound(q)
  BY <1>2, <1>3, <1>7, <1>9 DEF StepIsSound, Saves, Past
<1>11. /\ Holds(w, q, custLock', leadLock') /\ MergeIsSound(q, orders)
       /\ WriteIsSound(q, orders, unsynced)
  BY <1>2, <1>3, <1>7, <1>9 DEF Holds, MergeIsSound, WriteIsSound, Saves, Past, SaveCustomer
<1>12. \A v \in Worker \ {w} : custLock # v
  BY <1>1, <1>3, GrantedIsFree DEF SaveCustomer
<1>13. \A v \in Worker \ {w} : req[v].op \in Saves /\ q.id # 0 => req[v].id # q.id
  BY <1>1, <1>3, <1>7 DEF IInv, MergesApart
<1> QED
  BY <1>2, <1>6, <1>8, <1>10, <1>11, <1>12, <1>13, RequestPreserves DEF SaveCustomer, RequestIsSound

(* A request that has dealt with a lead, in whatever way, goes on: to the  *)
(* next lead or past the loop.                                             *)
LEMMA OnwardPreserves ==
    ASSUME IInv, NEW w \in Worker, NEW r \in Req, Onward(w, r),
           r.pc = "lead", r.cur \in r.synced \cup r.skipped,
           r.op \in Saves \cup {"assign"}, req[w].op = r.op, r.id = req[w].id,
           UNCHANGED <<orders, customer, custLock, lead, unsynced, entered>>,
           leadLock' \in [Lead -> Worker \cup {Free}],
           \A l \in Lead, v \in Worker \ {w} : leadLock[l] = v => leadLock'[l] = v,
           RequestIsSound(w, r, orders, unsynced, custLock, leadLock')
    PROVE  IInv'
<1>1. /\ StepIsSound(r) /\ Holds(w, r, custLock, leadLock') /\ MergeIsSound(r, orders)
      /\ WriteIsSound(r, orders, unsynced) /\ custLock \in Worker \cup {Free}
      /\ req \in [Worker -> Req]
  BY RequestFacts DEF RequestIsSound
<1>2. r.synced \cup r.skipped \cup r.todo = Lead
  BY <1>1 DEF StepIsSound
<1>3. \A v \in Worker \ {w} : r.op \in Saves /\ req[v].op \in Saves /\ r.id # 0 => req[v].id # r.id
  BY DEF IInv, MergesApart
<1>4. ASSUME NEW q \in Req, req' = [req EXCEPT ![w] = q], StepIsSound(q),
             q.op = r.op, q.pc \in {"lead", "customer", "done"}, q.pc = "customer" => r.op = "assign",
             q.pc = "done" => r.op # "assign",
             q.id = r.id, q.qty = r.qty, q.no = r.no, q.date = r.date, q.staff = r.staff,
             q.synced = r.synced, q.skipped = r.skipped, q.mine = r.mine
      PROVE  IInv'
  <2>1. Holds(w, q, custLock', leadLock')
    BY <1>1, <1>4 DEF Holds, Saves, Past
  <2>2. MergeIsSound(q, orders)
    BY <1>1, <1>4 DEF MergeIsSound
  <2>3. Seen(q, orders) = Seen(r, orders)
    BY <1>4 DEF Seen, NewOrder
  <2>4. WriteIsSound(q, orders, unsynced)
    BY <1>1, <1>4, <2>3 DEF WriteIsSound
  <2>5. RequestIsSound(w, q, orders, unsynced, custLock', leadLock')
    BY <1>4, <2>1, <2>2, <2>4 DEF RequestIsSound
  <2>6. q.op \in Saves /\ q.id # 0 => \A v \in Worker \ {w} : req[v].op \in Saves => req[v].id # q.id
    BY <1>3, <1>4
  <2> QED
    BY <1>1, <1>4, <2>5, <2>6, RequestPreserves
<1>5. CASE r.todo = {}
  <2>1. PICK p \in {"customer", "done"} : p = IF r.op = "assign" THEN "customer" ELSE "done"
    OBVIOUS
  <2> DEFINE q == [r EXCEPT !.cur = 0, !.pc = p]
  <2>2. 0 \in 0..Leads
    BY CountsAreNat
  <2>3. q \in Req
    BY <2>2 DEF Req
  <2>4. /\ q.op = r.op /\ q.pc = p /\ q.id = r.id /\ q.qty = r.qty /\ q.synced = r.synced
        /\ q.skipped = r.skipped /\ q.no = r.no /\ q.date = r.date /\ q.staff = r.staff
        /\ q.mine = r.mine
    BY DEF Req
  <2>5. req' = [req EXCEPT ![w] = q]
    BY <1>5, <2>1 DEF Onward
  <2> HIDE DEF q
  <2>6. StepIsSound(q)
    BY <1>1, <1>2, <1>5, <2>1, <2>4 DEF StepIsSound, Saves, Past
  <2> QED
    BY <1>4, <2>1, <2>3, <2>4, <2>5, <2>6
<1>6. CASE r.todo # {}
  <2>1. PICK l \in r.todo : req' = [req EXCEPT ![w] = [r EXCEPT !.cur = l, !.todo = @ \ {l}]]
    BY <1>6 DEF Onward, FirstOf
  <2> DEFINE q == [r EXCEPT !.cur = l, !.todo = @ \ {l}]
  <2>2. r.todo \subseteq Lead /\ l \in Lead /\ l \in 0..Leads
    <3>1. r.todo \subseteq Lead
      BY DEF Req
    <3> QED
      BY <3>1, CountsAreNat DEF Lead
  <2>3. q \in Req
    BY <2>2 DEF Req
  <2>4. /\ q.op = r.op /\ q.pc = "lead" /\ q.id = r.id /\ q.qty = r.qty /\ q.synced = r.synced
        /\ q.skipped = r.skipped /\ q.no = r.no /\ q.date = r.date /\ q.staff = r.staff
        /\ q.mine = r.mine /\ q.cur = l /\ q.todo = r.todo \ {l}
    BY DEF Req
  <2>5. req' = [req EXCEPT ![w] = q]
    BY <2>1
  <2> HIDE DEF q
  <2>6. StepIsSound(q)
    BY <1>1, <1>2, <2>2, <2>4 DEF StepIsSound, Saves, Past
  <2> QED
    BY <1>4, <2>3, <2>4, <2>5, <2>6
<1> QED
  BY <1>5, <1>6

-----------------------------------------------------------------------------
(* Leads are written.                                                      *)

(* What a save sees of the orders.                                         *)
LEMMA SeenAreOrders ==
    ASSUME NEW os \in Seq(Order), NEW r \in Req, r.op \in Saves, StepIsSound(r), MergeIsSound(r, os)
    PROVE  /\ NewOrder(r) \in Order
           /\ Seen(r, os) \in Seq(Order)
           /\ r.id = 0 => /\ Len(Seen(r, os)) = Len(os) + 1
                          /\ \A i \in 1..Len(os) : Seen(r, os)[i] = os[i]
                          /\ Seen(r, os)[Len(os) + 1] = NewOrder(r)
           /\ r.id # 0 => /\ Len(Seen(r, os)) = Len(os)
                          /\ \A i \in 1..Len(os) :
                                Seen(r, os)[i] = IF i = r.id THEN [os[i] EXCEPT !.qty = r.qty] ELSE os[i]
<1>1. NewOrder(r) \in Order
  <2>1. r.no \in Number
    BY DEF StepIsSound
  <2> QED
    BY <2>1 DEF NewOrder, Order, Req
<1>2. CASE r.id = 0
  <2>1. Seen(r, os) = Append(os, NewOrder(r))
    BY <1>2 DEF Seen
  <2> QED
    BY <1>1, <1>2, <2>1
<1>3. CASE r.id # 0
  <2>1. Seen(r, os) = [os EXCEPT ![r.id].qty = r.qty]
    BY <1>3 DEF Seen
  <2>2. r.id \in DOMAIN os /\ os[r.id] \in Order /\ r.qty \in Nat
    BY <1>3 DEF MergeIsSound, Req
  <2>3. PICK o \in Order : o = [os[r.id] EXCEPT !.qty = r.qty]
    BY <2>2 DEF Order
  <2>4. Seen(r, os) = [os EXCEPT ![r.id] = o]
    BY <2>1, <2>3
  <2>5. Seen(r, os) \in Seq(Order) /\ Len(Seen(r, os)) = Len(os)
    BY <2>2, <2>4
  <2>6. \A i \in 1..Len(os) :
            Seen(r, os)[i] = IF i = r.id THEN [os[i] EXCEPT !.qty = r.qty] ELSE os[i]
    BY <2>2, <2>3, <2>4
  <2> QED
    BY <1>1, <1>3, <2>5, <2>6
<1> QED
  BY <1>2, <1>3

(* The row a save writes is exact for the orders as it sees them.          *)
LEMMA SyncedRowIsExact ==
    ASSUME IInv, NEW w \in Worker, req[w].op \in Saves, NEW l \in Lead
    PROVE  /\ SyncedRow(w, l) \in LeadRow
           /\ Exact(SyncedRow(w, l), Seen(req[w], orders))
<1>1. PICK r \in Req : r = req[w]
  BY RequestFacts
<1>2. /\ StepIsSound(r) /\ MergeIsSound(r, orders) /\ orders \in Seq(Order) /\ lead[l] \in LeadRow
      /\ r.op \in Saves
  BY <1>1, RequestFacts
<1>3. PICK os \in Seq(Order) : os = Seen(r, orders) /\ Visible(w) = os
  BY <1>1, <1>2, SeenAreOrders DEF Visible, Seen
<1>4. TheOrder(w) \in Order
  <2>1. r.id # 0 => orders[r.id] \in Order
    BY <1>2 DEF MergeIsSound
  <2> QED
    BY <1>1, <1>2, <2>1, SeenAreOrders DEF TheOrder
<1>5. PICK o \in Order : o = TheOrder(w)
  BY <1>4
<1>6. /\ o.staff \in Code /\ o.date \in Instant
      /\ lead[l].holder \in Code /\ lead[l].since \in Instant
  BY <1>2 DEF Order, LeadRow
<1>7. Resolve(l, o.staff) \in Code
  BY <1>6 DEF Resolve
<1> DEFINE moves == o.date >= Midnight(lead[l].since) /\ Resolve(l, o.staff) # lead[l].holder
<1>8. PICK holder \in Code, since \in Instant :
          /\ holder = IF moves THEN Resolve(l, o.staff) ELSE lead[l].holder
          /\ since = IF moves /\ o.date > lead[l].since THEN o.date ELSE lead[l].since
  <2> HIDE DEF moves
  <2> QED
    BY <1>6, <1>7
<1>9. SyncedRow(w, l) = [holder |-> holder, since |-> since, total |-> Len(os),
                         last |-> Newest(os), missed |-> MissedOf(os, since, holder)]
  BY <1>3, <1>5, <1>8 DEF SyncedRow
<1>10. Newest(os) \in Instant \cup {NoDate} /\ MissedOf(os, since, holder) \in Nat /\ Len(os) \in Nat
  BY NewestIsADate, MissedIsACount
<1> QED
  BY <1>1, <1>3, <1>9, <1>10 DEF LeadRow, Exact

(* A lead is synced.                                                       *)
LEMMA SyncLeadPreserves == ASSUME IInv, NEW w \in Worker, SyncLead(w) PROVE IInv'
<1>1. PICK r \in Req : r = req[w]
  BY RequestFacts
<1>2. /\ StepIsSound(r) /\ MergeIsSound(r, orders) /\ WriteIsSound(r, orders, unsynced)
      /\ Holds(w, r, custLock, leadLock) /\ leadLock \in [Lead -> Worker \cup {Free}]
  BY <1>1, RequestFacts
<1>3. r.pc = "lead" /\ r.op \in Saves
  BY <1>1 DEF SyncLead, IsOrder, Saves
<1>4. r.cur \in Lead
  BY <1>2, <1>3 DEF StepIsSound
<1>5. PICK l \in Lead : l = r.cur
  BY <1>4
<1>6. PICK row \in LeadRow : row = SyncedRow(w, l) /\ Exact(row, Seen(r, orders))
  BY <1>1, <1>3, SyncedRowIsExact
<1> DEFINE q == [r EXCEPT !.synced = @ \cup {l}, !.mine[l] = row]
<1>7. q \in Req
  BY DEF Req
<1>8. /\ q.op = r.op /\ q.pc = "lead" /\ q.id = r.id /\ q.qty = r.qty /\ q.synced = r.synced \cup {l}
      /\ q.skipped = r.skipped /\ q.no = r.no /\ q.date = r.date /\ q.staff = r.staff
      /\ q.cur = l /\ q.todo = r.todo /\ q.mine = [r.mine EXCEPT ![l] = row]
  BY <1>3, <1>5 DEF Req
<1>9. Onward(w, q)
  BY <1>1, <1>5, <1>6 DEF SyncLead
<1> HIDE DEF q
<1>10. StepIsSound(q)
  BY <1>2, <1>3, <1>5, <1>8 DEF StepIsSound, Saves, Past
<1>11. leadLock' = [leadLock EXCEPT ![l] = w]
  BY <1>1, <1>5 DEF SyncLead
<1>12. \A v \in Worker \ {w} : leadLock[l] # v
  BY <1>1, <1>3, <1>5, GrantedIsFree DEF SyncLead
<1>13. r.synced \subseteq Lead /\ r.mine \in [Lead -> LeadRow]
  BY DEF Req
<1>14. Holds(w, q, custLock, leadLock') /\ MergeIsSound(q, orders)
  BY <1>2, <1>3, <1>8, <1>11, <1>13 DEF Holds, MergeIsSound, Saves, Past
<1>15. WriteIsSound(q, orders, unsynced)
  <2>1. Seen(q, orders) = Seen(r, orders)
    BY <1>8 DEF Seen, NewOrder
  <2>2. \A k \in q.synced : q.mine[k] = IF k = l THEN row ELSE r.mine[k]
    BY <1>8, <1>13
  <2>3. \A k \in q.synced : Exact(q.mine[k], Seen(r, orders))
    BY <1>2, <1>3, <1>6, <1>8, <2>2 DEF WriteIsSound
  <2>4. q.op # "assign"
    BY <1>3, <1>8 DEF Saves
  <2> QED
    BY <2>1, <2>3, <2>4 DEF WriteIsSound
<1>16. RequestIsSound(w, q, orders, unsynced, custLock, leadLock')
  BY <1>10, <1>14, <1>15 DEF RequestIsSound
<1>17. \A k \in Lead, v \in Worker \ {w} : leadLock[k] = v => leadLock'[k] = v
  BY <1>2, <1>11, <1>12
<1>18. leadLock' \in [Lead -> Worker \cup {Free}]
  BY <1>2, <1>11
<1> QED
  BY <1>1, <1>3, <1>7, <1>8, <1>9, <1>16, <1>17, <1>18, OnwardPreserves DEF SyncLead

(* The sync of a lead fails.                                               *)
LEMMA SkipLeadPreserves == ASSUME IInv, NEW w \in Worker, SkipLead(w) PROVE IInv'
<1>1. PICK r \in Req : r = req[w]
  BY RequestFacts
<1>2. /\ StepIsSound(r) /\ MergeIsSound(r, orders) /\ WriteIsSound(r, orders, unsynced)
      /\ Holds(w, r, custLock, leadLock) /\ leadLock \in [Lead -> Worker \cup {Free}]
  BY <1>1, RequestFacts
<1>3. r.pc = "lead" /\ r.op \in Saves
  BY <1>1 DEF SkipLead, IsOrder, Saves
<1>4. r.cur \in Lead
  BY <1>2, <1>3 DEF StepIsSound
<1> DEFINE q == [r EXCEPT !.skipped = @ \cup {r.cur}]
<1>5. q \in Req
  BY <1>4 DEF Req
<1>6. /\ q.op = r.op /\ q.pc = "lead" /\ q.id = r.id /\ q.qty = r.qty /\ q.synced = r.synced
      /\ q.skipped = r.skipped \cup {r.cur} /\ q.no = r.no /\ q.date = r.date /\ q.staff = r.staff
      /\ q.cur = r.cur /\ q.todo = r.todo /\ q.mine = r.mine
  BY <1>3 DEF Req
<1>7. Onward(w, q)
  BY <1>1 DEF SkipLead
<1> HIDE DEF q
<1>8. StepIsSound(q)
  BY <1>2, <1>3, <1>6 DEF StepIsSound, Saves, Past
<1>9. Holds(w, q, custLock, leadLock) /\ MergeIsSound(q, orders)
  BY <1>2, <1>3, <1>6 DEF Holds, MergeIsSound, Saves, Past
<1>10. WriteIsSound(q, orders, unsynced)
  <2>1. Seen(q, orders) = Seen(r, orders)
    BY <1>6 DEF Seen, NewOrder
  <2>2. q.op # "assign"
    BY <1>3, <1>6 DEF Saves
  <2> QED
    BY <1>2, <1>3, <1>6, <2>1, <2>2 DEF WriteIsSound
<1>11. RequestIsSound(w, q, orders, unsynced, custLock, leadLock)
  BY <1>8, <1>9, <1>10 DEF RequestIsSound
<1> QED
  BY <1>1, <1>2, <1>3, <1>5, <1>6, <1>7, <1>11, OnwardPreserves DEF SkipLead

(* assign_owner moves a lead; the row stays exact where it was.            *)
LEMMA AssignLeadPreserves == ASSUME IInv, NEW w \in Worker, AssignLead(w) PROVE IInv'
<1>1. PICK r \in Req : r = req[w]
  BY RequestFacts
<1>2. /\ StepIsSound(r) /\ MergeIsSound(r, orders) /\ WriteIsSound(r, orders, unsynced)
      /\ Holds(w, r, custLock, leadLock) /\ leadLock \in [Lead -> Worker \cup {Free}]
      /\ orders \in Seq(Order) /\ lead \in [Lead -> LeadRow]
  BY <1>1, RequestFacts
<1>3. r.pc = "lead" /\ r.op = "assign"
  BY <1>1 DEF AssignLead
<1>4. PICK l \in Lead : l = r.cur
  BY <1>2, <1>3 DEF StepIsSound
<1>5. PICK m \in Nat : m = MissedOf(orders, Today, r.staff)
  BY <1>2, MissedIsACount
<1>6. PICK row \in LeadRow : /\ row = AssignedRow(w, l)
                             /\ row.since = Today /\ row.holder = r.staff
                             /\ l \notin unsynced => Exact(row, orders)
  <2>1. PICK x \in LeadRow : x = lead[l]
    BY <1>2
  <2>2. AssignedRow(w, l) = [x EXCEPT !.holder = r.staff, !.since = Today, !.missed = m]
    BY <1>1, <1>5, <2>1 DEF AssignedRow
  <2>3. r.staff \in Code /\ Today \in Instant
    BY IdleIsARequest DEF Req
  <2>4. PICK row \in LeadRow : row = [x EXCEPT !.holder = r.staff, !.since = Today, !.missed = m]
    BY <2>3 DEF LeadRow
  <2>5. /\ row.since = Today /\ row.holder = r.staff /\ row.missed = m
        /\ row.total = x.total /\ row.last = x.last
    BY <2>4 DEF LeadRow
  <2>6. l \notin unsynced => x.total = Len(orders) /\ x.last = Newest(orders)
    BY <2>1 DEF IInv, Exact
  <2> QED
    BY <1>5, <2>2, <2>4, <2>5, <2>6 DEF Exact
<1> DEFINE q == [r EXCEPT !.synced = @ \cup {l}, !.mine[l] = row]
<1>7. q \in Req
  BY DEF Req
<1>8. /\ q.op = "assign" /\ q.pc = "lead" /\ q.id = r.id /\ q.synced = r.synced \cup {l}
      /\ q.skipped = r.skipped /\ q.staff = r.staff
      /\ q.cur = l /\ q.todo = r.todo /\ q.mine = [r.mine EXCEPT ![l] = row]
  BY <1>3, <1>4 DEF Req
<1>9. Onward(w, q)
  BY <1>1, <1>4, <1>6 DEF AssignLead
<1> HIDE DEF q
<1>10. StepIsSound(q)
  BY <1>2, <1>3, <1>4, <1>8 DEF StepIsSound, Saves, Past
<1>11. leadLock' = [leadLock EXCEPT ![l] = w]
  BY <1>1, <1>4 DEF AssignLead
<1>12. \A v \in Worker \ {w} : leadLock[l] # v
  BY <1>1, <1>3, <1>4, GrantedIsFree DEF AssignLead
<1>13. r.synced \subseteq Lead /\ r.mine \in [Lead -> LeadRow]
  BY DEF Req
<1>14. Holds(w, q, custLock, leadLock') /\ MergeIsSound(q, orders)
  BY <1>2, <1>3, <1>8, <1>11, <1>13 DEF Holds, MergeIsSound, Saves, Past
<1>15. WriteIsSound(q, orders, unsynced)
  <2>1. \A k \in q.synced : q.mine[k] = IF k = l THEN row ELSE r.mine[k]
    BY <1>8, <1>13
  <2>2. q.op \notin Saves
    BY <1>8 DEF Saves
  <2> QED
    BY <1>2, <1>3, <1>6, <1>8, <2>1, <2>2 DEF WriteIsSound
<1>16. RequestIsSound(w, q, orders, unsynced, custLock, leadLock')
  BY <1>10, <1>14, <1>15 DEF RequestIsSound
<1>17. \A k \in Lead, v \in Worker \ {w} : leadLock[k] = v => leadLock'[k] = v
  BY <1>2, <1>11, <1>12
<1>18. leadLock' \in [Lead -> Worker \cup {Free}]
  BY <1>2, <1>11
<1> QED
  BY <1>1, <1>3, <1>7, <1>8, <1>9, <1>16, <1>17, <1>18, OnwardPreserves DEF AssignLead

(* The last steps of assign_owner: the customer row is written, then the   *)
(* orders committed by now.                                                *)
LEMMA AssignEndPreserves ==
    ASSUME IInv, NEW w \in Worker, AssignCustomer(w) \/ AssignOrders(w)
    PROVE  IInv'
<1>1. PICK r \in Req : r = req[w]
  BY RequestFacts
<1>2. /\ StepIsSound(r) /\ WriteIsSound(r, orders, unsynced)
      /\ Holds(w, r, custLock, leadLock) /\ leadLock \in [Lead -> Worker \cup {Free}]
      /\ orders \in Seq(Order) /\ custLock \in Worker \cup {Free} /\ req \in [Worker -> Req]
  BY <1>1, RequestFacts
<1>3. ASSUME NEW p \in {"rows", "done"}, NEW c \in Nat, r.op = "assign",
             r.pc \in {"customer", "rows"}, p = "done" => c = Len(orders),
             req' = [req EXCEPT ![w].pc = p, ![w].count = c],
             UNCHANGED <<orders, customer, lead, leadLock, unsynced, entered>>,
             custLock' = w, \A v \in Worker \ {w} : custLock # v
      PROVE  IInv'
  <2> DEFINE q == [r EXCEPT !.pc = p, !.count = c]
  <2>1. q \in Req
    BY DEF Req
  <2>2. /\ q.op = "assign" /\ q.pc = p /\ q.count = c /\ q.synced = r.synced
        /\ q.skipped = r.skipped /\ q.staff = r.staff /\ q.mine = r.mine
    BY <1>3 DEF Req
  <2>3. req' = [req EXCEPT ![w] = q]
    BY <1>1, <1>3
  <2> HIDE DEF q
  <2>4. r.synced \cup r.skipped = Lead
    BY <1>2, <1>3 DEF StepIsSound
  <2>5. StepIsSound(q)
    BY <1>2, <1>3, <2>2, <2>4 DEF StepIsSound, Saves, Past
  <2>6. q.op \notin Saves
    BY <2>2 DEF Saves
  <2>7. Holds(w, q, custLock', leadLock') /\ MergeIsSound(q, orders)
    BY <1>2, <1>3, <2>2, <2>6 DEF Holds, MergeIsSound
  <2>8. WriteIsSound(q, orders, unsynced)
    BY <1>2, <1>3, <2>2, <2>6 DEF WriteIsSound
  <2>9. RequestIsSound(w, q, orders, unsynced, custLock', leadLock')
    BY <2>5, <2>7, <2>8 DEF RequestIsSound
  <2>10. /\ custLock' \in Worker \cup {Free} /\ leadLock' \in [Lead -> Worker \cup {Free}]
         /\ \A v \in Worker \ {w} : custLock = v => custLock' = v
         /\ \A l \in Lead, v \in Worker \ {w} : leadLock[l] = v => leadLock'[l] = v
    BY <1>2, <1>3
  <2> QED
    BY <1>3, <2>1, <2>3, <2>6, <2>9, <2>10, RequestPreserves
<1>4. CASE AssignCustomer(w)
  <2>1. req' = [req EXCEPT ![w].pc = "rows", ![w].count = r.count] /\ r.count \in Nat
    BY <1>1, <1>2, <1>4 DEF AssignCustomer, Req
  <2>2. \A v \in Worker \ {w} : custLock # v
    BY <1>4, GrantedIsFree DEF AssignCustomer
  <2> QED
    BY <1>1, <1>3, <1>4, <2>1, <2>2 DEF AssignCustomer
<1>5. CASE AssignOrders(w)
  <2>1. r.pc = "rows" /\ r.op = "assign"
    BY <1>1, <1>2, <1>5, WhoseStep DEF AssignOrders
  <2>2. custLock = w
    BY <1>2, <2>1 DEF Holds
  <2>3. PICK c \in Nat : c = Len(orders)
    BY <1>2
  <2>4. req' = [req EXCEPT ![w].pc = "done", ![w].count = c]
    BY <1>5, <2>3 DEF AssignOrders
  <2> QED
    BY <1>3, <1>5, <2>1, <2>2, <2>3, <2>4 DEF AssignOrders
<1> QED
  BY <1>4, <1>5

-----------------------------------------------------------------------------
(* Requests end.                                                           *)

(* What releasing w's locks leaves to the others.                          *)
LEMMA ReleaseKeepsOthers ==
    ASSUME NEW w \in Worker, ReleaseLocks(w),
           custLock \in Worker \cup {Free}, leadLock \in [Lead -> Worker \cup {Free}]
    PROVE  /\ custLock' \in Worker \cup {Free} /\ leadLock' \in [Lead -> Worker \cup {Free}]
           /\ \A v \in Worker \ {w} : custLock = v => custLock' = v
           /\ \A l \in Lead, v \in Worker \ {w} : leadLock[l] = v => leadLock'[l] = v
<1>1. custLock' = IF custLock = w THEN Free ELSE custLock
  BY DEF ReleaseLocks
<1>2. leadLock' = [l \in Lead |-> IF leadLock[l] = w THEN Free ELSE leadLock[l]]
  BY DEF ReleaseLocks
<1> QED
  BY <1>1, <1>2

(* A request that fails leaves nothing.                                    *)
LEMMA FailPreserves == ASSUME IInv, NEW w \in Worker, Fail(w) PROVE IInv'
<1>1. /\ custLock' \in Worker \cup {Free} /\ leadLock' \in [Lead -> Worker \cup {Free}]
      /\ \A v \in Worker \ {w} : custLock = v => custLock' = v
      /\ \A l \in Lead, v \in Worker \ {w} : leadLock[l] = v => leadLock'[l] = v
  BY ReleaseKeepsOthers, RequestFacts DEF Fail
<1>2. RequestIsSound(w, Idle, orders, unsynced, custLock', leadLock')
  BY IdleIsSound
<1>3. Idle \in Req /\ Idle.op \notin Saves
  BY IdleIsARequest DEF Saves
<1> QED
  BY <1>1, <1>2, <1>3, RequestPreserves DEF Fail

-----------------------------------------------------------------------------
(* Saves and assignments commit.                                           *)

(* The others, when w commits: a save that had written a lead would hold   *)
(* the customer row, which is w's, and so would an assignment that counted *)
(* the orders; what an assignment has written, w has not synced.           *)
LEMMA OthersStaySound ==
    ASSUME IInv, NEW w \in Worker, ReleaseLocks(w), custLock = w,
           NEW os \in Seq(Order), NEW skipped, NEW v \in Worker \ {w},
           \A l \in Lead : leadLock[l] # w => l \in skipped,
           \A i \in DOMAIN orders :
               /\ i \in DOMAIN os
               /\ req[v].op \in Saves /\ i = req[v].id => os[i].qty = orders[i].qty
    PROVE  RequestIsSound(v, req[v], os, skipped, custLock', leadLock')
<1>1. PICK q \in Req : q = req[v]
  BY RequestFacts
<1>2. /\ StepIsSound(q) /\ Holds(v, q, custLock, leadLock) /\ MergeIsSound(q, orders)
      /\ WriteIsSound(q, orders, unsynced)
  BY <1>1, RequestFacts
<1>3. q.synced \subseteq Lead
  BY DEF Req
<1>4. /\ \A u \in Worker \ {w} : custLock = u => custLock' = u
      /\ \A l \in Lead, u \in Worker \ {w} : leadLock[l] = u => leadLock'[l] = u
  BY ReleaseKeepsOthers, RequestFacts
<1>5. Holds(v, q, custLock', leadLock')
  BY <1>2, <1>3, <1>4 DEF Holds
<1>6. MergeIsSound(q, os)
  BY <1>1, <1>2 DEF MergeIsSound
<1>7. q.op \in Saves => q.synced = {}
  BY <1>2 DEF Holds, StepIsSound
<1>8. q.op = "assign" => q.pc # "done"
  BY <1>2 DEF Holds
<1>9. \A l \in q.synced : l \in skipped
  BY <1>2, <1>3 DEF Holds
<1>10. WriteIsSound(q, os, skipped)
  BY <1>2, <1>7, <1>8, <1>9 DEF WriteIsSound
<1> QED
  BY <1>1, <1>2, <1>5, <1>6, <1>10 DEF RequestIsSound

(* A save adds one to the sum of the quantities.                           *)
LEMMA SaveAddsOne ==
    ASSUME NEW os \in Seq(Order), NEW r \in Req, r.op \in Saves, StepIsSound(r), MergeIsSound(r, os)
    PROVE  Sums(Seen(r, os))[Len(Seen(r, os))] = Sums(os)[Len(os)] + 1
<1>1. PICK ot \in Seq(Order) : ot = Seen(r, os)
  BY SeenAreOrders
<1>2. PICK n \in Nat : n = Len(os)
  OBVIOUS
<1>3. \A i \in 1..n : os[i].qty \in Nat
  <2>1. \A i \in 1..n : os[i] \in Order
    BY <1>2
  <2> QED
    BY <2>1 DEF Order
<1>4. CASE r.id = 0
  <2>1. Len(ot) = n + 1 /\ ot[n + 1] = NewOrder(r) /\ \A i \in 1..n : ot[i] = os[i]
    BY <1>1, <1>2, <1>4, SeenAreOrders
  <2>2. ot[n + 1].qty = 1
    BY <1>4, <2>1 DEF MergeIsSound, NewOrder
  <2>a. PICK k \in Nat : k = 0
    OBVIOUS
  <2>3. \A i \in 1..n : os[i].qty \in Nat
                         /\ ot[i].qty = os[i].qty + (IF i = k THEN 1 ELSE 0)
    BY <1>3, <2>1, <2>a
  <2>4. Sums(os)[n] \in Nat /\ Sums(ot)[n] = Sums(os)[n]
    <3>1. k \notin 1..n
      BY <2>a
    <3>2. /\ Sums(os)[n] \in Nat
          /\ Sums(ot)[n] = Sums(os)[n] + (IF k \in 1..n THEN 1 ELSE 0)
      BY <2>3, SumsGrow
    <3> QED
      BY <3>1, <3>2
  <2>5. n + 1 \in Nat \ {0} /\ (n + 1) - 1 = n
    OBVIOUS
  <2>6. Sums(ot)[n + 1] = Sums(ot)[n] + ot[n + 1].qty
    BY <2>5, SumsRecur
  <2> QED
    BY <1>1, <1>2, <2>1, <2>2, <2>4, <2>6
<1>5. CASE r.id # 0
  <2>1. Len(ot) = n /\ \A i \in 1..n : ot[i] = IF i = r.id THEN [os[i] EXCEPT !.qty = r.qty] ELSE os[i]
    BY <1>1, <1>2, <1>5, SeenAreOrders
  <2>2. r.id \in 1..n /\ r.id \in Nat /\ r.qty = os[r.id].qty + 1
    BY <1>2, <1>5 DEF MergeIsSound
  <2>3. \A i \in 1..n : ot[i].qty = os[i].qty + (IF i = r.id THEN 1 ELSE 0)
    <3>1. ASSUME NEW i \in 1..n PROVE ot[i].qty = os[i].qty + (IF i = r.id THEN 1 ELSE 0)
      <4>1. os[i] \in Order /\ os[i].qty \in Nat
        BY <1>2, <1>3
      <4>2. CASE i = r.id
        <5>1. ot[i] = [os[i] EXCEPT !.qty = r.qty]
          BY <2>1, <4>2
        <5>2. ot[i].qty = r.qty
          BY <4>1, <5>1 DEF Order
        <5> QED
          BY <2>2, <4>2, <5>2
      <4>3. CASE i # r.id
        BY <2>1, <4>1, <4>3
      <4> QED
        BY <4>2, <4>3
    <3> QED
      BY <3>1
  <2>4. Sums(ot)[n] = Sums(os)[n] + 1
    <3>1. PICK k \in Nat : k = r.id /\ k \in 1..n
      BY <2>2
    <3>2. \A i \in 1..n : os[i].qty \in Nat
                           /\ ot[i].qty = os[i].qty + (IF i = k THEN 1 ELSE 0)
      BY <1>3, <2>3, <3>1
    <3>3. /\ Sums(os)[n] \in Nat
          /\ Sums(ot)[n] = Sums(os)[n] + (IF k \in 1..n THEN 1 ELSE 0)
      BY <3>2, SumsGrow
    <3> QED
      BY <3>1, <3>3
  <2> QED
    BY <1>1, <1>2, <2>1, <2>4
<1> QED
  BY <1>4, <1>5

(* A save commits.                                                         *)
LEMMA CommitOrderPreserves == ASSUME IInv, NEW w \in Worker, CommitOrder(w) PROVE IInv'
<1>1. PICK r \in Req : r = req[w]
  BY RequestFacts
<1>2. /\ StepIsSound(r) /\ MergeIsSound(r, orders) /\ WriteIsSound(r, orders, unsynced)
      /\ Holds(w, r, custLock, leadLock) /\ leadLock \in [Lead -> Worker \cup {Free}]
      /\ custLock \in Worker \cup {Free} /\ orders \in Seq(Order) /\ lead \in [Lead -> LeadRow]
      /\ req \in [Worker -> Req] /\ customer.staff \in Code
  BY <1>1, RequestFacts
<1>3. r.pc = "done" /\ r.op \in Saves
  BY <1>1 DEF CommitOrder, IsOrder, Saves
<1>4. /\ custLock = w /\ \A l \in r.synced : leadLock[l] = w
      /\ r.synced \cup r.skipped = Lead /\ r.synced \subseteq Lead
  BY <1>2, <1>3 DEF Holds, StepIsSound, Past, Req
<1>5. PICK os \in Seq(Order) : os = Seen(r, orders)
  BY <1>2, <1>3, SeenAreOrders
<1>6. orders' = os
  BY <1>1, <1>5 DEF CommitOrder, Visible, Seen
<1>7. /\ lead' = [l \in Lead |-> IF l \in r.synced THEN r.mine[l] ELSE lead[l]]
      /\ unsynced' = (unsynced \ r.synced) \cup r.skipped
      /\ entered' = entered + 1 /\ ReleaseLocks(w) /\ req' = [req EXCEPT ![w] = Idle]
  BY <1>1 DEF CommitOrder
<1>8. /\ req' \in [Worker -> Req] /\ req'[w] = Idle
      /\ \A v \in Worker \ {w} : req'[v] = req[v]
  BY <1>2, <1>7, IdleIsARequest
<1>9. TypeOK'
  <2>1. customer' \in [staff : Code, count : Nat]
    BY <1>1, <1>2 DEF CommitOrder, SavedCustomer, Req
  <2>2. lead' \in [Lead -> LeadRow] /\ unsynced' \subseteq Lead
    BY <1>2, <1>7 DEF Req, IInv, TypeOK
  <2>3. entered' \in Nat
    BY <1>7 DEF IInv, TypeOK
  <2>4. custLock' \in Worker \cup {Free} /\ leadLock' \in [Lead -> Worker \cup {Free}]
    BY <1>2, <1>7, ReleaseKeepsOthers
  <2> QED
    BY <1>6, <1>8, <2>1, <2>2, <2>3, <2>4 DEF TypeOK
<1>10. \A i \in DOMAIN orders : /\ i \in DOMAIN os
                                /\ i # r.id => os[i] = orders[i]
  <2>1. DOMAIN orders = 1..Len(orders) /\ DOMAIN os = 1..Len(os) /\ Len(orders) \in Nat
    BY <1>2
  <2>2. CASE r.id = 0
    <3>1. Len(os) = Len(orders) + 1 /\ \A i \in 1..Len(orders) : os[i] = orders[i]
      BY <1>2, <1>3, <1>5, <2>2, SeenAreOrders
    <3> QED
      BY <2>1, <3>1
  <2>3. CASE r.id # 0
    <3>1. /\ Len(os) = Len(orders)
          /\ \A i \in 1..Len(orders) :
                os[i] = IF i = r.id THEN [orders[i] EXCEPT !.qty = r.qty] ELSE orders[i]
      BY <1>2, <1>3, <1>5, <2>3, SeenAreOrders
    <3> QED
      BY <2>1, <3>1
  <2> QED
    BY <2>2, <2>3
<1>11. ASSUME NEW v \in Worker
       PROVE  RequestIsSound(v, req'[v], orders', unsynced', custLock', leadLock')
  <2>1. CASE v = w
    BY <1>8, <2>1, IdleIsSound
  <2>2. CASE v # w
    <3>1. req[v].op \in Saves => req[v].id = 0 \/ req[v].id # r.id
      BY <1>1, <1>3, <2>2 DEF IInv, MergesApart
    <3>2. PICK s : s = unsynced'
      OBVIOUS
    <3>3. \A l \in Lead : leadLock[l] # w => l \in s
      BY <1>4, <1>7, <3>2
    <3>4. ASSUME NEW i \in DOMAIN orders, req[v].op \in Saves, i = req[v].id
          PROVE  os[i].qty = orders[i].qty
      <4>1. i # 0
        BY <1>2
      <4> QED
        BY <1>10, <3>1, <3>4, <4>1
    <3>5. RequestIsSound(v, req[v], os, s, custLock', leadLock')
      BY <1>4, <1>7, <1>10, <2>2, <3>3, <3>4, OthersStaySound
    <3> QED
      BY <1>6, <1>8, <2>2, <3>2, <3>5
  <2> QED
    BY <2>1, <2>2
<1>12. MergesApart'
  <2>1. Idle.op \notin Saves
    BY IdleIsARequest DEF Saves
  <2> QED
    BY <1>8, <2>1 DEF IInv, MergesApart
<1>13. OrdersAreOld'
  <2>1. ASSUME NEW i \in DOMAIN os PROVE os[i].date <= Midnight(Today)
    <3>1. os[i] \in Order
      OBVIOUS
    <3>2. CASE r.id = 0
      <4>1. r.date <= Midnight(Today)
        BY <1>2, <1>3 DEF StepIsSound
      <4>2. i \in 1..Len(orders) \/ i = Len(orders) + 1
        BY <1>2, <1>3, <1>5, <3>2, SeenAreOrders
      <4>3. CASE i \in 1..Len(orders)
        BY <1>2, <1>10, <3>2, <4>3 DEF IInv, OrdersAreOld
      <4>4. CASE i = Len(orders) + 1
        <5>1. os[i] = NewOrder(r)
          BY <1>2, <1>3, <1>5, <3>2, <4>4, SeenAreOrders
        <5> QED
          BY <4>1, <5>1 DEF NewOrder
      <4> QED
        BY <4>2, <4>3, <4>4
    <3>3. CASE r.id # 0
      <4>1. i \in 1..Len(orders) /\ orders[i] \in Order
        BY <1>2, <1>3, <1>5, <3>3, SeenAreOrders
      <4>2. os[i] = IF i = r.id THEN [orders[i] EXCEPT !.qty = r.qty] ELSE orders[i]
        BY <1>2, <1>3, <1>5, <3>3, <4>1, SeenAreOrders
      <4>3. os[i].date = orders[i].date
        BY <4>1, <4>2 DEF Order
      <4> QED
        BY <1>2, <4>1, <4>3 DEF IInv, OrdersAreOld
    <3> QED
      BY <3>2, <3>3
  <2> QED
    BY <1>6, <2>1 DEF OrdersAreOld
<1>14. (\A l \in Lead \ unsynced : Exact(lead[l], orders))'
  <2>1. ASSUME NEW l \in Lead, l \notin unsynced' PROVE Exact(lead'[l], os)
    <3>1. l \in r.synced
      BY <1>4, <1>7, <2>1
    <3>2. lead'[l] = r.mine[l]
      BY <1>7, <3>1
    <3> QED
      BY <1>2, <1>3, <1>5, <3>1, <3>2 DEF WriteIsSound
  <2> QED
    BY <1>6, <2>1 DEF Exact
<1>15. NoQuantityLost'
  <2>1. Total' = Sums(orders')
    BY DEF Total, Sums
  <2>2. Sums(os)[Len(os)] = Sums(orders)[Len(orders)] + 1
    BY <1>2, <1>3, <1>5, SaveAddsOne
  <2>3. Sums(orders)[Len(orders)] = entered
    BY TotalIsSums DEF IInv, NoQuantityLost
  <2> QED
    BY <1>6, <1>7, <2>1, <2>2, <2>3 DEF NoQuantityLost
<1> QED
  BY <1>9, <1>11, <1>12, <1>13, <1>14, <1>15 DEF IInv

(* An assignment rewrites the staff code of every order, and nothing else. *)
LEMMA AssignedOrders ==
    ASSUME IInv, NEW w \in Worker, CommitAssign(w)
    PROVE  /\ orders' \in Seq(Order) /\ DOMAIN orders' = DOMAIN orders /\ Len(orders') = Len(orders)
           /\ \A i \in DOMAIN orders :
                 /\ orders'[i].staff = req[w].staff
                 /\ orders'[i].date = orders[i].date /\ orders'[i].qty = orders[i].qty
<1>1. PICK r \in Req : r = req[w]
  BY RequestFacts
<1>2. /\ StepIsSound(r) /\ WriteIsSound(r, orders, unsynced) /\ orders \in Seq(Order)
  BY <1>1, RequestFacts
<1>3. r.pc = "done" /\ r.op = "assign"
  BY <1>1 DEF CommitAssign
<1>4. r.count = Len(orders) /\ r.staff \in Code
  BY <1>2, <1>3 DEF WriteIsSound, Req
<1>5. PICK os \in Seq(Order) : os = orders
  BY <1>2
<1>6. orders' = [i \in DOMAIN os |-> IF i <= r.count THEN [os[i] EXCEPT !.staff = r.staff] ELSE os[i]]
  BY <1>1, <1>5 DEF CommitAssign
<1>7. DOMAIN os = 1..Len(os) /\ Len(os) \in Nat /\ \A i \in DOMAIN os : os[i] \in Order
  OBVIOUS
<1>8. PICK ot : ot = [i \in 1..Len(os) |-> [os[i] EXCEPT !.staff = r.staff]]
  OBVIOUS
<1>9. orders' = ot
  BY <1>4, <1>5, <1>6, <1>7, <1>8
<1>10. \A i \in 1..Len(os) : ot[i] = [os[i] EXCEPT !.staff = r.staff]
  BY <1>8
<1>11. ASSUME NEW i \in 1..Len(os)
       PROVE  /\ ot[i] \in Order /\ ot[i].staff = r.staff
              /\ ot[i].date = os[i].date /\ ot[i].qty = os[i].qty
  <2>1. PICK o \in Order : o = os[i]
    BY <1>7
  <2>2. ot[i] = [o EXCEPT !.staff = r.staff]
    BY <1>10, <2>1
  <2> QED
    BY <1>4, <2>1, <2>2 DEF Order
<1>12. ot \in Seq(Order) /\ Len(ot) = Len(os) /\ DOMAIN ot = 1..Len(os)
  BY <1>7, <1>8, <1>11
<1> QED
  BY <1>1, <1>5, <1>7, <1>9, <1>11, <1>12

(* An assignment commits.                                                  *)
LEMMA CommitAssignPreserves == ASSUME IInv, NEW w \in Worker, CommitAssign(w) PROVE IInv'
<1>1. PICK r \in Req : r = req[w]
  BY RequestFacts
<1>2. /\ StepIsSound(r) /\ WriteIsSound(r, orders, unsynced)
      /\ Holds(w, r, custLock, leadLock) /\ leadLock \in [Lead -> Worker \cup {Free}]
      /\ custLock \in Worker \cup {Free} /\ orders \in Seq(Order) /\ lead \in [Lead -> LeadRow]
      /\ req \in [Worker -> Req] /\ r.mine \in [Lead -> LeadRow]
  BY <1>1, RequestFacts DEF Req
<1>3. r.pc = "done" /\ r.op = "assign"
  BY <1>1 DEF CommitAssign
<1>4. custLock = w /\ r.synced = Lead /\ \A l \in Lead : leadLock[l] = w
  BY <1>2, <1>3 DEF Holds, StepIsSound, Past, Req
<1>5. PICK os \in Seq(Order) : os = orders'
  BY AssignedOrders
<1>6. /\ DOMAIN os = DOMAIN orders /\ Len(os) = Len(orders)
      /\ \A i \in DOMAIN orders : os[i].date = orders[i].date /\ os[i].qty = orders[i].qty
  BY <1>5, AssignedOrders
<1>7. /\ lead' = r.mine /\ unsynced' = unsynced /\ entered' = entered
      /\ ReleaseLocks(w) /\ req' = [req EXCEPT ![w] = Idle]
      /\ customer' = [customer EXCEPT !.staff = r.staff]
  BY <1>1 DEF CommitAssign
<1>8. /\ req' \in [Worker -> Req] /\ req'[w] = Idle
      /\ \A v \in Worker \ {w} : req'[v] = req[v]
  BY <1>2, <1>7, IdleIsARequest
<1>9. TypeOK'
  <2>1. customer' \in [staff : Code, count : Nat]
    <3>1. r.staff \in Code /\ customer \in [staff : Code, count : Nat]
      BY DEF IInv, TypeOK, Req
    <3> QED
      BY <1>7, <3>1
  <2>2. custLock' \in Worker \cup {Free} /\ leadLock' \in [Lead -> Worker \cup {Free}]
    BY <1>2, <1>7, ReleaseKeepsOthers
  <2>3. lead' \in [Lead -> LeadRow] /\ unsynced' \subseteq Lead /\ entered' \in Nat
    BY <1>2, <1>7 DEF IInv, TypeOK
  <2> QED
    BY <1>5, <1>8, <2>1, <2>2, <2>3 DEF TypeOK
<1>10. ASSUME NEW v \in Worker
       PROVE  RequestIsSound(v, req'[v], orders', unsynced', custLock', leadLock')
  <2>1. CASE v = w
    BY <1>8, <2>1, IdleIsSound
  <2>2. CASE v # w
    <3>1. PICK s : s = unsynced'
      OBVIOUS
    <3>2. RequestIsSound(v, req[v], os, s, custLock', leadLock')
      BY <1>4, <1>6, <1>7, <2>2, OthersStaySound
    <3> QED
      BY <1>5, <1>8, <2>2, <3>1, <3>2
  <2> QED
    BY <2>1, <2>2
<1>11. MergesApart'
  <2>1. Idle.op \notin Saves
    BY IdleIsARequest DEF Saves
  <2> QED
    BY <1>8, <2>1 DEF IInv, MergesApart
<1>12. OrdersAreOld'
  BY <1>5, <1>6 DEF IInv, OrdersAreOld
<1>13. (\A l \in Lead \ unsynced : Exact(lead[l], orders))'
  <2>1. ASSUME NEW l \in Lead, l \notin unsynced PROVE Exact(r.mine[l], os)
    <3>1. /\ Exact(r.mine[l], orders) /\ r.mine[l].since = Today
      BY <1>2, <1>3, <1>4, <2>1 DEF WriteIsSound
    <3>2. Newest(os) = Newest(orders)
      BY <1>2, <1>6, NewestIsADate
    <3>3. ASSUME NEW ot \in Seq(Order), DOMAIN ot = DOMAIN orders,
                 \A i \in DOMAIN orders : ot[i].date = orders[i].date, NEW h
          PROVE  MissedOf(ot, Today, h) = 0
      <4>1. ASSUME NEW i \in DOMAIN ot PROVE ot[i].date < Today
        <5>1. ot[i] \in Order
          OBVIOUS
        <5>2. ot[i].date \in Instant /\ ot[i].date <= Midnight(Today)
          BY <3>3, <4>1, <5>1 DEF Order, IInv, OrdersAreOld
        <5> QED
          BY <5>2, IdleIsARequest DEF Instant
      <4> QED
        BY <4>1, MissedIsACount
    <3>4. /\ MissedOf(orders, r.mine[l].since, r.mine[l].holder) = 0
          /\ MissedOf(os, r.mine[l].since, r.mine[l].holder) = 0
      BY <1>2, <1>6, <3>1, <3>3
    <3> QED
      BY <1>6, <3>1, <3>2, <3>4 DEF Exact
  <2> QED
    BY <1>5, <1>7, <2>1 DEF Exact
<1>14. NoQuantityLost'
  <2>1. Total' = Sums(orders')
    BY DEF Total, Sums
  <2>2. PICK n \in Nat, k \in Nat : n = Len(orders) /\ k = 0 /\ DOMAIN orders = 1..n
    BY <1>2
  <2>3. \A i \in 1..n : /\ orders[i].qty \in Nat
                        /\ os[i].qty = orders[i].qty + (IF i = k THEN 1 ELSE 0)
    <3>1. ASSUME NEW i \in 1..n
          PROVE  /\ orders[i].qty \in Nat
                 /\ os[i].qty = orders[i].qty + (IF i = k THEN 1 ELSE 0)
      <4>1. orders[i] \in Order
        BY <1>2, <2>2
      <4>2. orders[i].qty \in Nat /\ os[i].qty = orders[i].qty /\ i # k
        BY <1>6, <2>2, <4>1 DEF Order
      <4> QED
        BY <4>2
    <3> QED
      BY <3>1
  <2>4. /\ Sums(orders)[n] \in Nat
        /\ Sums(os)[n] = Sums(orders)[n] + (IF k \in 1..n THEN 1 ELSE 0)
    BY <2>3, SumsGrow
  <2>5. Sums(os)[n] = Sums(orders)[n]
    BY <2>2, <2>4
  <2>6. Sums(orders)[n] = entered
    BY <2>2, TotalIsSums DEF IInv, NoQuantityLost
  <2> QED
    BY <1>5, <1>6, <1>7, <2>1, <2>2, <2>5, <2>6 DEF NoQuantityLost
<1> QED
  BY <1>9, <1>10, <1>11, <1>12, <1>13, <1>14 DEF IInv

-----------------------------------------------------------------------------
(* The theorems.                                                           *)

(* A customer nobody takes care of yet, with one order from an import.     *)
LEMMA InitIsSound == Init => IInv
<1> SUFFICES ASSUME Init PROVE IInv
  OBVIOUS
<1> DEFINE o == [no |-> 1, date |-> 0, staff |-> Nobody, qty |-> 1]
<1>1. o \in Order /\ o.date = 0 /\ o.qty = 1 /\ o.staff = Nobody
  BY CountsAreNat DEF Order, Number, Instant, Code
<1>2. orders = <<o>>
  BY DEF Init
<1> HIDE DEF o
<1>3. orders \in Seq(Order) /\ Len(orders) = 1 /\ DOMAIN orders = {1} /\ orders[1] = o
  BY <1>1, <1>2
<1>4. PICK row \in LeadRow : /\ row = [NoRow EXCEPT !.since = 1, !.total = 1, !.last = 0]
                             /\ row.since = 1 /\ row.total = 1 /\ row.last = 0 /\ row.missed = 0
                             /\ row.holder = Nobody
  <2>1. [NoRow EXCEPT !.since = 1, !.total = 1, !.last = 0] \in LeadRow
    <3>1. PICK n \in LeadRow : n = NoRow
      BY IdleIsARequest
    <3>2. 1 \in Instant /\ 0 \in Instant
      BY DEF Instant
    <3>3. [n EXCEPT !.since = 1, !.total = 1, !.last = 0] \in LeadRow
      BY <3>2 DEF LeadRow
    <3> QED
      BY <3>1, <3>3
  <2> QED
    BY <2>1 DEF NoRow
<1>5. lead = [l \in Lead |-> row]
  BY <1>4 DEF Init
<1>6. /\ custLock = Free /\ leadLock = [l \in Lead |-> Free] /\ unsynced = {}
      /\ entered = 1 /\ req = [w \in Worker |-> Idle]
      /\ customer = [staff |-> Nobody, count |-> 1]
  BY DEF Init
<1>7. TypeOK
  BY <1>3, <1>5, <1>6, IdleIsARequest DEF TypeOK, Code
<1>8. \A w \in Worker : RequestIsSound(w, req[w], orders, unsynced, custLock, leadLock)
  BY <1>6, IdleIsSound
<1>9. MergesApart
  BY <1>6, IdleIsARequest DEF MergesApart, Saves
<1>10. OrdersAreOld
  BY <1>1, <1>3, IdleIsARequest DEF OrdersAreOld
<1>11. ASSUME NEW l \in Lead PROVE Exact(lead[l], orders)
  <2>1. Newest(orders) = 0
    <3>1. orders # <<>>
      BY <1>3
    <3>2. PICK i \in DOMAIN orders : Newest(orders) = orders[i].date
      BY <1>3, <3>1, NewestIsADate
    <3> QED
      BY <1>1, <1>3, <3>2
  <2>2. MissedOf(orders, 1, Nobody) = 0
    <3>1. PICK since : since = 1
      OBVIOUS
    <3>2. \A i \in DOMAIN orders : orders[i].date < since
      BY <1>1, <1>3, <3>1
    <3>3. MissedOf(orders, since, Nobody) = 0
      BY <1>3, <3>2, MissedIsACount
    <3> QED
      BY <3>1, <3>3
  <2> QED
    BY <1>3, <1>4, <1>5, <2>1, <2>2 DEF Exact
<1>12. NoQuantityLost
  <2>1. Sums(orders)[0] = 0 /\ Sums(orders)[1] = Sums(orders)[1-1] + orders[1].qty
    BY SumsRecur, 1 \in Nat \ {0}
  <2>2. Sums(orders)[1] = 1
    BY <1>1, <1>3, <2>1
  <2> QED
    BY <1>3, <1>6, <2>2, TotalIsSums DEF NoQuantityLost
<1> QED
  BY <1>7, <1>8, <1>9, <1>10, <1>11, <1>12 DEF IInv

(* Every step keeps the invariant.                                         *)
LEMMA NextPreserves == IInv /\ [Next]_vars => IInv'
<1> SUFFICES ASSUME IInv, [Next]_vars PROVE IInv'
  OBVIOUS
<1>1. CASE UNCHANGED vars
  <2>1. /\ orders' = orders /\ customer' = customer /\ custLock' = custLock /\ lead' = lead
        /\ leadLock' = leadLock /\ unsynced' = unsynced /\ entered' = entered /\ req' = req
    BY <1>1 DEF vars
  <2>2. Total' = Total
    BY <2>1 DEF Total
  <2> QED
    BY <2>1, <2>2 DEF IInv, TypeOK, MergesApart, OrdersAreOld, NoQuantityLost
<1>2. ASSUME NEW w \in Worker, Advance(w) PROVE IInv'
  <2>1. CASE WriteOwner(w)
    BY <2>1, WriteOwnerPreserves
  <2>2. CASE MergeOrder(w)
    BY <2>2, MergeOrderPreserves
  <2>3. CASE NewNumber(w)
    BY <2>3, NewNumberPreserves
  <2>4. CASE InsertOrder(w)
    BY <2>4, InsertOrderPreserves
  <2>5. CASE RefuseInsert(w)
    BY <2>5, FailPreserves DEF RefuseInsert
  <2>6. CASE SaveCustomer(w)
    BY <2>6, SaveCustomerPreserves
  <2>7. CASE SyncLead(w)
    BY <2>7, SyncLeadPreserves
  <2>8. CASE CommitOrder(w)
    BY <2>8, CommitOrderPreserves
  <2>9. CASE AssignLead(w)
    BY <2>9, AssignLeadPreserves
  <2>10. CASE AssignCustomer(w) \/ AssignOrders(w)
    BY <2>10, AssignEndPreserves
  <2>11. CASE CommitAssign(w)
    BY <2>11, CommitAssignPreserves
  <2> QED
    BY <1>2, <2>1, <2>2, <2>3, <2>4, <2>5, <2>6, <2>7, <2>8, <2>9, <2>10, <2>11 DEF Advance
<1>3. ASSUME NEW w \in Worker, AbortVictim(w) PROVE IInv'
  BY <1>3, SkipLeadPreserves, FailPreserves DEF AbortVictim
<1>4. ASSUME Next PROVE IInv'
  BY <1>2, <1>3, <1>4, ArrivePreserves, SkipLeadPreserves, FailPreserves DEF Next
<1> QED
  BY <1>1, <1>4

(* The invariant says at least what the copies promise.                    *)
LEMMA CopiesFollow == IInv => CopiesAreExact
  BY DEF IInv, CopiesAreExact, RollupsAreExact, MissedIsExact, Exact

(* The counts and dates kept on leads are those of the customer's orders,  *)
(* except on leads whose last sync failed (sync.sync_leads_for_order).     *)
THEOREM CopiesStayExact == Spec => []CopiesAreExact
<1>1. Spec => []IInv
  BY InitIsSound, NextPreserves, PTL DEF Spec
<1> QED
  BY <1>1, CopiesFollow, PTL

(* No quantity is lost when saves merge into one order number              *)
(* (services.merge_lines).                                                 *)
THEOREM QuantitiesAddUp == Spec => []NoQuantityLost
<1>1. Spec => []IInv
  BY InitIsSound, NextPreserves, PTL DEF Spec
<1>2. IInv => NoQuantityLost
  BY DEF IInv
<1> QED
  BY <1>1, <1>2, PTL

(* An assignment reaches every order committed before it                   *)
(* (customers.services.assign_owner).                                      *)
THEOREM AssignmentsReachAll == Spec => AssignmentReachesEveryOrder
<1>1. Spec => []IInv
  BY InitIsSound, NextPreserves, PTL DEF Spec
<1>2. IInv => [\A w \in Worker : CommitAssign(w) =>
                  \A i \in DOMAIN orders : orders'[i].staff = req[w].staff]_vars
  BY AssignedOrders
<1> QED
  BY <1>1, <1>2, PTL DEF AssignmentReachesEveryOrder
=============================================================================
