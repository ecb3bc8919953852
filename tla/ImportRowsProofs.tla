-------------------------- MODULE ImportRowsProofs --------------------------
(***************************************************************************)
(* Proofs about ImportRows, for any people, staff, files, batches and      *)
(* bound, and whatever customers and orders there are before an import.    *)
(***************************************************************************)
EXTENDS ImportRows, SequenceTheorems, WellFoundedInduction, TLAPS

-----------------------------------------------------------------------------
(* Numbers and sequences.                                                  *)

(* A set of numbers has a least one, and Min is it.                        *)
LEMMA LeastIsThere ==
    ASSUME NEW S, S \in SUBSET Nat, S # {}
    PROVE  Min(S) \in S /\ \A x \in S : Min(S) <= x
<1>1. IsWellFoundedOn(OpToRel(<, Nat), Nat)
  BY NatLessThanWellFounded
<1>2. PICK least \in S : \A x \in S : ~ (<<x, least>> \in OpToRel(<, Nat))
  BY <1>1, WFMin
<1>3. \A x \in S : least <= x
  <2>1. \A x \in S : ~ (x < least)
    BY <1>2 DEF OpToRel
  <2> QED
    BY <2>1
<1> QED
  BY <1>3 DEF Min

(* Greatest of a few.                                                      *)
LEMMA GreatestIsThere ==
    ASSUME NEW S, S \in SUBSET (1..4), S # {}
    PROVE  Max(S) \in S
<1>1. \E x \in S : \A y \in S : x >= y
  <2>1. CASE 4 \in S
    BY <2>1
  <2>2. CASE 4 \notin S /\ 3 \in S
    BY <2>2
  <2>3. CASE 4 \notin S /\ 3 \notin S /\ 2 \in S
    BY <2>3
  <2>4. CASE 4 \notin S /\ 3 \notin S /\ 2 \notin S
    <3>1. \A y \in S : y \in 1..4 /\ y # 4 /\ y # 3 /\ y # 2
      BY <2>4
    <3>2. \A y \in S : y = 1
      BY <3>1
    <3>3. 1 \in S
      BY <3>2
    <3> QED
      BY <3>2, <3>3
  <2> QED
    BY <2>1, <2>2, <2>3, <2>4
<1> QED
  BY <1>1 DEF Max

(* What holds before the first step and is kept by each holds after any.   *)
LEMMA StepByStep ==
    ASSUME NEW n \in Nat, NEW S, 0 \in S, \A k \in 1..n : k - 1 \in S => k \in S
    PROVE  \A k \in 0..n : k \in S
<1> DEFINE Bad == {k \in 0..n : k \notin S}
<1>1. SUFFICES ASSUME Bad # {} PROVE FALSE
  OBVIOUS
<1>2. Bad \in SUBSET Nat
  OBVIOUS
<1>3. PICK k : k = Min(Bad)
  OBVIOUS
<1>4. k \in Bad /\ \A x \in Bad : k <= x
  <2> HIDE DEF Bad
  <2> QED
    BY <1>1, <1>2, <1>3, LeastIsThere
<1>5. k \in 1..n /\ k - 1 \in 0..n /\ k - 1 \notin Bad
  BY <1>4
<1> QED
  BY <1>4, <1>5

IsSeq(s) == s \in Seq(Range(s))

(* A sequence is a function on 1..Len.                                     *)
LEMMA SeqIsFunction ==
    ASSUME NEW s, IsSeq(s)
    PROVE  Len(s) \in Nat /\ DOMAIN s = 1..Len(s)
BY DEF IsSeq

LEMMA FunctionIsSeq ==
    ASSUME NEW S, NEW n \in Nat, NEW t \in [1..n -> S]
    PROVE  t \in Seq(S) /\ Len(t) = n
<1>1. t \in Seq(S)
  OBVIOUS
<1>2. DOMAIN t = 1..Len(t) /\ DOMAIN t = 1..n /\ Len(t) \in Nat
  BY <1>1
<1> QED
  BY <1>1, <1>2

(* Append adds one element at the end.                                     *)
LEMMA AppendAdds ==
    ASSUME NEW s, IsSeq(s), NEW e
    PROVE  /\ IsSeq(Append(s, e)) /\ Len(Append(s, e)) = Len(s) + 1
           /\ Append(s, e)[Len(s) + 1] = e
           /\ \A i \in DOMAIN s : i \in DOMAIN Append(s, e) /\ Append(s, e)[i] = s[i]
           /\ DOMAIN Append(s, e) = 1..(Len(s) + 1)
<1>1. PICK S : S = Range(s) \cup {e}
  OBVIOUS
<1>2. s \in Seq(S)
  <2>1. Len(s) \in Nat /\ DOMAIN s = 1..Len(s) /\ s \in [1..Len(s) -> Range(s)]
    BY DEF IsSeq
  <2>2. s \in [1..Len(s) -> S]
    BY <1>1, <2>1
  <2> QED
    BY <2>1, <2>2
<1>3. PICK a : a = Append(s, e)
  OBVIOUS
<1>4. /\ a \in Seq(S) /\ Len(a) = Len(s) + 1 /\ a[Len(s) + 1] = e
      /\ Len(s) \in Nat /\ DOMAIN s = 1..Len(s) /\ \A i \in 1..Len(s) : a[i] = s[i]
  BY <1>1, <1>2, <1>3
<1>5. DOMAIN a = 1..(Len(s) + 1)
  BY <1>4
<1>6. a \in Seq(Range(a))
  <2>1. a \in [1..(Len(s) + 1) -> Range(a)]
    <3>1. a \in [1..(Len(s) + 1) -> S]
      BY <1>4, <1>5
    <3>2. \A i \in 1..(Len(s) + 1) : a[i] \in Range(a)
      BY <1>5 DEF Range
    <3> QED
      BY <3>1, <3>2
  <2> QED
    BY <1>4, <2>1
<1>7. \A i \in 1..Len(s) : i \in 1..(Len(s) + 1)
  BY <1>4
<1> QED
  BY <1>3, <1>4, <1>5, <1>6, <1>7 DEF IsSeq

(* EXCEPT replaces one.                                                    *)
Replaced(t, s, i, e) ==
    /\ IsSeq(t) /\ Len(t) = Len(s) /\ DOMAIN t = DOMAIN s /\ t[i] = e
    /\ \A j \in DOMAIN s : j # i => t[j] = s[j]

LEMMA ExceptReplaces ==
    ASSUME NEW s, IsSeq(s), NEW i \in DOMAIN s, NEW e, NEW t, t = [s EXCEPT ![i] = e]
    PROVE  Replaced(t, s, i, e)
<1>1. Len(s) \in Nat /\ DOMAIN s = 1..Len(s)
  BY DEF IsSeq
<1>2. DOMAIN t = DOMAIN s /\ t[i] = e /\ \A j \in DOMAIN s : j # i => t[j] = s[j]
  OBVIOUS
<1>3. t \in [1..Len(s) -> Range(t)]
  <2>1. \A j \in DOMAIN t : t[j] \in Range(t)
    BY DEF Range
  <2>2. t = [j \in DOMAIN s |-> t[j]]
    BY <1>2
  <2> QED
    BY <1>1, <1>2, <2>1, <2>2
<1>4. t \in Seq(Range(t)) /\ Len(t) = Len(s)
  BY <1>1, <1>3, FunctionIsSeq
<1> QED
  BY <1>2, <1>4 DEF IsSeq, Replaced

-----------------------------------------------------------------------------
(* What rows and plans are.                                                *)

(* An order of one of n customers.                                         *)
OrderOK(o, n) ==
    /\ DOMAIN o = {"customer", "no", "value", "stamp"} /\ o.customer \in 1..n
    /\ DOMAIN o.value = Field /\ DOMAIN o.stamp = Field
    /\ \A f \in Field : /\ o.value[f] = Blank => o.stamp[f] = Blank
                        /\ o.stamp[f] \in Nat \cup {Blank}

PatchOK(p) == p.at \in Nat /\ DOMAIN p.value = Field

Speaking(M, f) == {p \in M : p.value[f] # Blank}

(* The patches of M say different things on different days of field f of   *)
(* order i, and none of them what it started from.                         *)
Telling(i, f, M) ==
    /\ \A p, q \in Speaking(M, f) : p # q => p.at # q.at /\ p.value[f] # q.value[f]
    /\ \A s \in Seeds : i \in DOMAIN s.orders =>
           \A p \in Speaking(M, f) : p.value[f] # s.orders[i].value[f]

(* Then the order has what the newest says, with its date; and if none     *)
(* says anything, what it started from, undated.                           *)
HoldsNewest(i, f, o, M) ==
    Telling(i, f, M) =>
        \/ /\ Speaking(M, f) = {} /\ o.stamp[f] = Blank
           /\ \/ o.value[f] = Blank
              \/ \E s \in Seeds : i \in DOMAIN s.orders /\ o.value[f] = s.orders[i].value[f]
        \/ \E p \in Speaking(M, f) :
              /\ \A q \in Speaking(M, f) : q.at <= p.at
              /\ o.value[f] = p.value[f] /\ o.stamp[f] = p.at

RowsOK(cs, os, ms) ==
    /\ IsSeq(cs) /\ IsSeq(os) /\ IsSeq(ms) /\ Len(ms) = Len(os)
    /\ \A i \in DOMAIN os :
        /\ OrderOK(os[i], Len(cs))
        /\ \A p \in ms[i] : PatchOK(p)
        /\ \A f \in Field : HoldsNewest(i, f, os[i], ms[i])

WorldOK(w) ==
    DOMAIN w = {"customers", "orders", "merged", "at"} /\ RowsOK(w.customers, w.orders, w.merged)

(* Customers stay, and orders stay whose they are.                         *)
Extends(w, v) ==
    /\ Len(v.customers) <= Len(w.customers)
    /\ \A c \in DOMAIN v.customers : w.customers[c] = v.customers[c]
    /\ Len(v.orders) <= Len(w.orders)
    /\ \A i \in DOMAIN v.orders : /\ w.orders[i].no = v.orders[i].no
                                  /\ w.orders[i].customer = v.orders[i].customer

(* A plan to write a row, with the answers to its conflicts, made when     *)
(* there were n customers.                                                 *)
PlanOK(p, a, n) ==
    /\ PatchOK(p.patch)
    /\ p.who.candidate \in 1..n \cup {Blank}
    /\ p.who.kind = "HUMAN_REVIEW" =>
        "identity" \in DOMAIN a /\ (a["identity"] = "AUTO_MATCH" => p.who.candidate # Blank)
    /\ p.separate \in BOOLEAN
    /\ p.separate => p.who.kind = "NEW_CUSTOMER" /\ Phones(p.row) # {}

-----------------------------------------------------------------------------
(* One row.                                                                *)

(* Finding or creating the customer.                                       *)
LEMMA CustomerIsFound ==
    ASSUME NEW w, WorldOK(w), NEW p, NEW a, NEW n \in Nat, PlanOK(p, a, n), n <= Len(w.customers)
    PROVE  \E y : /\ y = WhoseOrder(w, p, a)
                  /\ DOMAIN y = DOMAIN w /\ y.orders = w.orders /\ y.merged = w.merged
                  /\ IsSeq(y.customers) /\ Len(w.customers) <= Len(y.customers)
                  /\ \A c \in DOMAIN w.customers : y.customers[c] = w.customers[c]
                  /\ y.at \in 1..Len(y.customers)
                  /\ p.separate => y.customers[y.at].key[3] = p.row.no
<1>1. PICK y : y = WhoseOrder(w, p, a)
  OBVIOUS
<1>2. /\ DOMAIN w = {"customers", "orders", "merged", "at"} /\ IsSeq(w.customers)
      /\ Len(w.customers) \in Nat /\ DOMAIN w.customers = 1..Len(w.customers)
  BY SeqIsFunction DEF WorldOK, RowsOK
<1>3. ASSUME NEW c \in 1..Len(w.customers), y = [w EXCEPT !.at = c],
             p.separate => w.customers[c].key[3] = p.row.no
      PROVE  /\ DOMAIN y = DOMAIN w /\ y.orders = w.orders /\ y.merged = w.merged
             /\ IsSeq(y.customers) /\ Len(w.customers) <= Len(y.customers)
             /\ \A d \in DOMAIN w.customers : y.customers[d] = w.customers[d]
             /\ y.at \in 1..Len(y.customers)
             /\ p.separate => y.customers[y.at].key[3] = p.row.no
  <2>1. /\ DOMAIN y = DOMAIN w /\ y.orders = w.orders /\ y.merged = w.merged
        /\ y.customers = w.customers /\ y.at = c
    BY <1>2, <1>3
  <2> QED
    BY <1>2, <1>3, <2>1
<1>4. CASE Target(p) # Blank
  <2>1. Target(p) \in 1..Len(w.customers) /\ ~ p.separate
    BY <1>2, <1>4 DEF Target, PlanOK
  <2>2. y = [w EXCEPT !.at = Target(p)]
    BY <1>1, <1>4 DEF WhoseOrder
  <2> QED
    BY <1>1, <1>3, <2>1, <2>2
<1>5. CASE Target(p) = Blank /\ p.who.kind = "HUMAN_REVIEW" /\ a["identity"] = "AUTO_MATCH"
  <2>1. p.who.candidate \in 1..Len(w.customers) /\ ~ p.separate
    BY <1>2, <1>5 DEF PlanOK
  <2>2. y = [w EXCEPT !.at = p.who.candidate]
    BY <1>1, <1>5 DEF WhoseOrder
  <2> QED
    BY <1>1, <1>3, <2>1, <2>2
<1>6. CASE Target(p) = Blank /\ ~ (p.who.kind = "HUMAN_REVIEW" /\ a["identity"] = "AUTO_MATCH")
  <2>1. PICK split : split = (p.separate \/ p.who.kind = "HUMAN_REVIEW")
    OBVIOUS
  <2>2. y = WithCustomer(w, p.row, split)
    BY <1>1, <1>6, <2>1 DEF WhoseOrder
  <2>3. PICK key : key = PhoneKey(p.row, split)
    OBVIOUS
  <2>4. p.separate => key[3] = p.row.no
    BY <2>1, <2>3 DEF PhoneKey, PlanOK
  <2>5. PICK known : known = {c \in DOMAIN w.customers : w.customers[c].key = key}
    OBVIOUS
  <2>6. CASE known # {}
    <3>1. PICK c : c = Min(known)
      OBVIOUS
    <3>2. c \in known
      <4>1. known \in SUBSET Nat
        BY <1>2, <2>5
      <4> QED
        BY <2>6, <3>1, <4>1, LeastIsThere
    <3>3. c \in 1..Len(w.customers) /\ w.customers[c].key = key
      BY <1>2, <2>5, <3>2
    <3>4. y = [w EXCEPT !.at = c]
      BY <2>2, <2>3, <2>5, <2>6, <3>1 DEF WithCustomer
    <3> QED
      BY <1>1, <1>3, <2>4, <3>3, <3>4
  <2>7. CASE known = {}
    <3>1. PICK e : e = [name |-> p.row.name, phone |-> p.row.phone, alt |-> p.row.alt,
                        line |-> p.row.line, key |-> key]
      OBVIOUS
    <3>2. y = [w EXCEPT !.customers = Append(@, e), !.at = Len(w.customers) + 1]
      BY <2>2, <2>3, <2>5, <2>7, <3>1 DEF WithCustomer
    <3>3. /\ DOMAIN y = DOMAIN w /\ y.orders = w.orders /\ y.merged = w.merged
          /\ y.customers = Append(w.customers, e) /\ y.at = Len(w.customers) + 1
      BY <1>2, <3>2
    <3>4. PICK cs : cs = Append(w.customers, e)
      OBVIOUS
    <3>5. /\ IsSeq(cs) /\ Len(cs) = Len(w.customers) + 1 /\ cs[Len(w.customers) + 1] = e
          /\ \A c \in DOMAIN w.customers : cs[c] = w.customers[c]
      BY <1>2, <3>4, AppendAdds
    <3>6. e.key = key
      BY <3>1
    <3>7. Len(w.customers) <= Len(cs) /\ Len(w.customers) + 1 \in 1..Len(cs)
      BY <1>2, <3>5
    <3>8. y.customers = cs /\ y.customers[y.at] = e
      BY <3>3, <3>4, <3>5
    <3>9. y.at \in 1..Len(y.customers) /\ Len(w.customers) <= Len(y.customers) /\ IsSeq(y.customers)
      BY <3>3, <3>4, <3>5, <3>7
    <3>10. \A c \in DOMAIN w.customers : y.customers[c] = w.customers[c]
      BY <3>5, <3>8
    <3>11. p.separate => y.customers[y.at].key[3] = p.row.no
      BY <2>4, <3>6, <3>8
    <3> QED
      BY <1>1, <3>3, <3>9, <3>10, <3>11
  <2> QED
    BY <2>6, <2>7
<1> QED
  BY <1>4, <1>5, <1>6

(* What one patch does to a field of an order.                             *)
IsMerged(x, o, p, choice, f) ==
    /\ p.value[f] \in {Blank, o.value[f]} => x.value[f] = o.value[f] /\ x.stamp[f] = o.stamp[f]
    /\ p.value[f] \notin {Blank, o.value[f]} =>
        /\ o.stamp[f] = Blank \/ p.at > o.stamp[f] => x.value[f] = p.value[f] /\ x.stamp[f] = p.at
        /\ o.stamp[f] # Blank /\ p.at < o.stamp[f] =>
               x.value[f] = o.value[f] /\ x.stamp[f] = o.stamp[f]
        /\ o.stamp[f] # Blank /\ p.at = o.stamp[f] =>
            /\ x.stamp[f] = o.stamp[f] /\ x.value[f] \in {o.value[f], p.value[f]}
            /\ x.value[f] # o.value[f] => choice = "ACCEPT_INCOMING"

LEMMA OrderIsMerged ==
    ASSUME NEW o, NEW n, OrderOK(o, n), NEW p, PatchOK(p), NEW choice, NEW x, x = Merge(o, p, choice)
    PROVE  /\ OrderOK(x, n) /\ x.no = o.no /\ x.customer = o.customer
           /\ \A f \in Field : IsMerged(x, o, p, choice, f)
<1>1. PICK safe : safe = {f \in Field : KindOf(o, p, f) = "SAFE_UPDATE"}
  OBVIOUS
<1>2. PICK accepted : accepted = IF choice = "ACCEPT_INCOMING" THEN Blocking(o, p) \ {"line"} ELSE {}
  OBVIOUS
<1>3. PICK vs : vs = [f \in Field |-> IF f \in safe \cup accepted THEN p.value[f] ELSE o.value[f]]
  OBVIOUS
<1>4. PICK ss : ss = [f \in Field |-> IF f \in safe THEN p.at ELSE o.stamp[f]]
  OBVIOUS
<1>5. DOMAIN o = {"customer", "no", "value", "stamp"}
  BY DEF OrderOK
<1>6. x = [o EXCEPT !.value = vs, !.stamp = ss]
  BY <1>1, <1>2, <1>3, <1>4 DEF Merge
<1>7. DOMAIN x = DOMAIN o /\ x.value = vs /\ x.stamp = ss /\ x.no = o.no /\ x.customer = o.customer
  BY <1>5, <1>6
<1>8. ASSUME NEW f \in Field
      PROVE  /\ IsMerged(x, o, p, choice, f)
             /\ x.value[f] = Blank => x.stamp[f] = Blank
             /\ x.stamp[f] \in Nat \cup {Blank}
  <2>1. PICK b, a, s, at : b = o.value[f] /\ a = p.value[f] /\ s = o.stamp[f] /\ at = p.at
    OBVIOUS
  <2>2. s \in Nat \cup {Blank} /\ (b = Blank => s = Blank) /\ at \in Nat /\ Blank \notin Nat
    BY <2>1, BlankIsNoNumber DEF OrderOK, PatchOK
  <2>3. /\ f \in safe <=> Kind(b, a, s, at) = "SAFE_UPDATE"
        /\ f \in accepted => choice = "ACCEPT_INCOMING" /\ Kind(b, a, s, at) = "CONFLICT"
    BY <1>1, <1>2, <2>1 DEF KindOf, Blocking
  <2>4. /\ x.value[f] = IF f \in safe \cup accepted THEN a ELSE b
        /\ x.stamp[f] = IF f \in safe THEN at ELSE s
    BY <1>3, <1>4, <1>7, <2>1
  <2>5. CASE a \in {Blank, b}
    <3>1. Kind(b, a, s, at) = "UNCHANGED"
      BY <2>5 DEF Kind
    <3>2. x.value[f] = b /\ x.stamp[f] = s
      BY <2>3, <2>4, <3>1
    <3> QED
      BY <2>1, <2>2, <2>5, <3>2 DEF IsMerged
  <2>6. CASE a \notin {Blank, b} /\ (s = Blank \/ at > s)
    <3>1. Kind(b, a, s, at) = "SAFE_UPDATE"
      BY <2>2, <2>6 DEF Kind
    <3>2. x.value[f] = a /\ x.stamp[f] = at
      BY <2>3, <2>4, <3>1
    <3>3. s # Blank => ~ (at < s) /\ at # s
      BY <2>2, <2>6
    <3> QED
      BY <2>1, <2>2, <2>6, <3>2, <3>3 DEF IsMerged
  <2>7. CASE a \notin {Blank, b} /\ s # Blank /\ at < s
    <3>1. Kind(b, a, s, at) = "STALE_INPUT"
      BY <2>2, <2>7 DEF Kind
    <3>2. x.value[f] = b /\ x.stamp[f] = s
      BY <2>3, <2>4, <3>1
    <3>3. ~ (at > s) /\ at # s
      BY <2>2, <2>7
    <3> QED
      BY <2>1, <2>2, <2>7, <3>2, <3>3 DEF IsMerged
  <2>8. CASE a \notin {Blank, b} /\ s # Blank /\ at = s
    <3>1. Kind(b, a, s, at) = "CONFLICT"
      BY <2>2, <2>8 DEF Kind
    <3>2. x.stamp[f] = s /\ x.value[f] \in {a, b} /\ (x.value[f] # b => choice = "ACCEPT_INCOMING")
      BY <2>3, <2>4, <3>1
    <3>3. ~ (at > s) /\ ~ (at < s)
      BY <2>2, <2>8
    <3>4. x.value[f] # Blank
      BY <2>2, <2>8, <3>2
    <3> QED
      BY <2>1, <2>2, <2>8, <3>2, <3>3, <3>4 DEF IsMerged
  <2> QED
    BY <2>2, <2>5, <2>6, <2>7, <2>8
<1>9. DOMAIN vs = Field /\ DOMAIN ss = Field
  BY <1>3, <1>4
<1> QED
  BY <1>7, <1>8, <1>9 DEF OrderOK

(* The newest is still held after one more patch.                          *)
LEMMA NewestIsHeld ==
    ASSUME NEW o, NEW n, OrderOK(o, n), NEW p, PatchOK(p), NEW choice, NEW x, NEW f \in Field, NEW i,
           IsMerged(x, o, p, choice, f), NEW M, \A q \in M : PatchOK(q), HoldsNewest(i, f, o, M)
    PROVE  HoldsNewest(i, f, x, M \cup {p})
<1> DEFINE N == M \cup {p}
<1>1. SUFFICES ASSUME Telling(i, f, N)
               PROVE  \/ /\ Speaking(N, f) = {} /\ x.stamp[f] = Blank
                         /\ \/ x.value[f] = Blank
                            \/ \E s \in Seeds : i \in DOMAIN s.orders /\ x.value[f] = s.orders[i].value[f]
                      \/ \E q \in Speaking(N, f) :
                            /\ \A r \in Speaking(N, f) : r.at <= q.at
                            /\ x.value[f] = q.value[f] /\ x.stamp[f] = q.at
  BY DEF HoldsNewest
<1>2. Speaking(M, f) \subseteq Speaking(N, f)
  BY DEF Speaking
<1>3. Telling(i, f, M)
  BY <1>1, <1>2 DEF Telling
<1>4. CASE p.value[f] = Blank
  <2>1. Speaking(N, f) = Speaking(M, f)
    BY <1>4 DEF Speaking
  <2>2. x.value[f] = o.value[f] /\ x.stamp[f] = o.stamp[f]
    BY <1>4 DEF IsMerged
  <2> QED
    BY <1>3, <2>1, <2>2 DEF HoldsNewest
<1>5. CASE p.value[f] # Blank
  <2>1. p \in Speaking(N, f) /\ Speaking(N, f) = Speaking(M, f) \cup {p}
    BY <1>5 DEF Speaking
  <2>2. p.at \in Nat /\ \A q \in Speaking(M, f) : q.at \in Nat
    BY DEF PatchOK, Speaking
  <2>3. CASE /\ Speaking(M, f) = {} /\ o.stamp[f] = Blank
             /\ \/ o.value[f] = Blank
                \/ \E s \in Seeds : i \in DOMAIN s.orders /\ o.value[f] = s.orders[i].value[f]
    <3>1. p.value[f] # o.value[f]
      BY <1>1, <1>5, <2>1, <2>3 DEF Telling
    <3>2. x.value[f] = p.value[f] /\ x.stamp[f] = p.at
      BY <1>5, <2>3, <3>1 DEF IsMerged
    <3>3. \A r \in Speaking(N, f) : r = p
      BY <2>1, <2>3
    <3>4. p.at <= p.at
      BY <2>2
    <3>5. \A r \in Speaking(N, f) : r.at <= p.at
      BY <3>3, <3>4
    <3> QED
      BY <2>1, <3>2, <3>5
  <2>4. ASSUME NEW q \in Speaking(M, f), \A r \in Speaking(M, f) : r.at <= q.at,
               o.value[f] = q.value[f], o.stamp[f] = q.at
        PROVE  \E t \in Speaking(N, f) :
                  /\ \A r \in Speaking(N, f) : r.at <= t.at
                  /\ x.value[f] = t.value[f] /\ x.stamp[f] = t.at
    <3>1. q \in Speaking(N, f) /\ q.at \in Nat /\ o.stamp[f] # Blank
      BY <1>2, <2>2, <2>4, BlankIsNoNumber
    <3>2. CASE p = q
      <4>1. x.value[f] = q.value[f] /\ x.stamp[f] = q.at
        BY <2>4, <3>2 DEF IsMerged
      <4> QED
        BY <2>1, <2>2, <2>4, <3>1, <3>2, <4>1
    <3>3. CASE p # q /\ p.at > q.at
      <4>1. p.value[f] # o.value[f]
        BY <1>1, <2>1, <2>4, <3>1, <3>3 DEF Telling
      <4>2. x.value[f] = p.value[f] /\ x.stamp[f] = p.at
        BY <1>5, <2>4, <3>3, <4>1 DEF IsMerged
      <4>3. \A r \in Speaking(N, f) : r.at <= p.at
        <5>1. q.at <= p.at /\ p.at <= p.at
          BY <2>2, <3>1, <3>3
        <5>2. \A r \in Speaking(N, f) : r \in Speaking(M, f) \/ r = p
          BY <2>1
        <5>3. ASSUME NEW r \in Speaking(M, f) PROVE r.at <= p.at
          <6>1. r.at \in Nat /\ r.at <= q.at
            BY <2>2, <2>4
          <6> QED
            BY <2>2, <3>1, <5>1, <6>1
        <5> HIDE DEF N
        <5> QED
          BY <5>1, <5>2, <5>3
      <4> QED
        BY <2>1, <4>2, <4>3
    <3>4. CASE p # q /\ ~ (p.at > q.at)
      <4>1. p.at < q.at /\ p.value[f] # o.value[f]
        <5>1. p.at # q.at /\ p.value[f] # q.value[f]
          BY <1>1, <2>1, <3>1, <3>4 DEF Telling
        <5> QED
          BY <2>2, <2>4, <3>1, <3>4, <5>1
      <4>2. x.value[f] = q.value[f] /\ x.stamp[f] = q.at
        BY <1>5, <2>4, <3>1, <4>1 DEF IsMerged
      <4>3. \A r \in Speaking(N, f) : r.at <= q.at
        <5>1. p.at <= q.at
          BY <2>2, <3>1, <4>1
        <5>2. \A r \in Speaking(N, f) : r \in Speaking(M, f) \/ r = p
          BY <2>1
        <5> HIDE DEF N
        <5> QED
          BY <2>4, <5>1, <5>2
      <4> QED
        BY <3>1, <4>2, <4>3
    <3> QED
      BY <3>2, <3>3, <3>4
  <2> QED
    BY <1>3, <2>3, <2>4 DEF HoldsNewest
<1> QED
  BY <1>4, <1>5

(* World x is w with one row written: its order is there, whoever decided  *)
(* to keep the row apart has it apart, and no other order has changed.     *)
IsWritten(x, w, p, a) ==
    /\ WorldOK(x) /\ Extends(x, w)
    /\ \E i \in DOMAIN x.orders :
        /\ x.orders[i].no = p.row.no
        /\ p.separate => x.customers[x.orders[i].customer].key[3] = p.row.no
    /\ \A j \in DOMAIN w.orders :
        \/ x.orders[j] = w.orders[j]
        \/ /\ w.orders[j].no = p.row.no
           /\ \A f \in Field : IsMerged(x.orders[j], w.orders[j], p.patch, ChoiceFor(a), f)

IsNew(e, n, c, no, p) ==
    /\ OrderOK(e, n) /\ e.no = no /\ e.customer = c
    /\ \A i, f : f \in Field => HoldsNewest(i, f, e, {p})

(* A new order says what its patch says.                                   *)
LEMMA NewOrderIsOK ==
    ASSUME NEW c, NEW n, c \in 1..n, NEW no, NEW p, PatchOK(p), NEW e, e = NewOrder(c, no, p)
    PROVE  IsNew(e, n, c, no, p)
<1>1. PICK ss : ss = [f \in Field |-> IF p.value[f] = Blank THEN Blank ELSE p.at]
  OBVIOUS
<1>2. /\ DOMAIN e = {"customer", "no", "value", "stamp"}
      /\ e.customer = c /\ e.no = no /\ e.value = p.value /\ e.stamp = ss
  BY <1>1 DEF NewOrder
<1>3. OrderOK(e, n)
  BY <1>1, <1>2 DEF OrderOK, PatchOK
<1>4. ASSUME NEW i, NEW f \in Field PROVE HoldsNewest(i, f, e, {p})
  <2>1. CASE p.value[f] = Blank
    <3>1. Speaking({p}, f) = {}
      BY <2>1 DEF Speaking
    <3>2. e.stamp[f] = Blank /\ e.value[f] = Blank
      BY <1>1, <1>2, <2>1
    <3> QED
      BY <3>1, <3>2 DEF HoldsNewest
  <2>2. CASE p.value[f] # Blank
    <3>1. Speaking({p}, f) = {p}
      BY <2>2 DEF Speaking
    <3>2. e.stamp[f] = p.at /\ e.value[f] = p.value[f] /\ p.at <= p.at
      BY <1>1, <1>2, <2>2 DEF PatchOK
    <3> QED
      BY <3>1, <3>2 DEF HoldsNewest
  <2> QED
    BY <2>1, <2>2
<1> QED
  BY <1>2, <1>3, <1>4 DEF IsNew

LEMMA RowIsWritten ==
    ASSUME NEW w, WorldOK(w), NEW p, NEW a, NEW n \in Nat, PlanOK(p, a, n), n <= Len(w.customers),
           NEW x, x = WriteRow(w, p, a)
    PROVE  IsWritten(x, w, p, a)
<1>1. PICK y : /\ y = WhoseOrder(w, p, a)
               /\ DOMAIN y = DOMAIN w /\ y.orders = w.orders /\ y.merged = w.merged
               /\ IsSeq(y.customers) /\ Len(w.customers) <= Len(y.customers)
               /\ \A c \in DOMAIN w.customers : y.customers[c] = w.customers[c]
               /\ y.at \in 1..Len(y.customers)
               /\ p.separate => y.customers[y.at].key[3] = p.row.no
  BY CustomerIsFound
<1>2. PICK os, ms, cs : os = w.orders /\ ms = w.merged /\ cs = y.customers
  OBVIOUS
<1>3. /\ DOMAIN w = {"customers", "orders", "merged", "at"}
      /\ IsSeq(os) /\ IsSeq(ms) /\ Len(ms) = Len(os) /\ IsSeq(cs)
      /\ Len(os) \in Nat /\ DOMAIN os = 1..Len(os) /\ DOMAIN ms = 1..Len(os)
      /\ Len(cs) \in Nat /\ DOMAIN cs = 1..Len(cs)
      /\ Len(w.customers) \in Nat /\ Len(w.customers) <= Len(cs)
  <2>1. RowsOK(w.customers, os, ms)
    BY <1>2 DEF WorldOK
  <2> QED
    BY <1>1, <1>2, <2>1, SeqIsFunction DEF WorldOK, RowsOK
<1>4. \A i \in DOMAIN os : /\ OrderOK(os[i], Len(cs)) /\ \A q \in ms[i] : PatchOK(q)
                           /\ \A f \in Field : HoldsNewest(i, f, os[i], ms[i])
  <2>1. \A i \in DOMAIN os : /\ OrderOK(os[i], Len(w.customers)) /\ \A q \in ms[i] : PatchOK(q)
                             /\ \A f \in Field : HoldsNewest(i, f, os[i], ms[i])
    BY <1>2 DEF WorldOK, RowsOK
  <2>2. \A i : OrderOK(os[i], Len(w.customers)) => OrderOK(os[i], Len(cs))
    BY <1>3 DEF OrderOK
  <2> QED
    BY <2>1, <2>2
<1>5. PICK held : held = OrderOf(os, y.at, p.row.no)
  OBVIOUS
<1>6. PatchOK(p.patch)
  BY DEF PlanOK
<1>7. CASE held = {}
  <2>1. PICK e : e = NewOrder(y.at, p.row.no, p.patch)
    OBVIOUS
  <2>2. PICK oo, mm : oo = Append(os, e) /\ mm = Append(ms, {p.patch})
    OBVIOUS
  <2>3. x = [y EXCEPT !.orders = oo, !.merged = mm]
    BY <1>1, <1>2, <1>5, <1>7, <2>1, <2>2 DEF WriteRow
  <2>4. DOMAIN x = DOMAIN w /\ x.orders = oo /\ x.merged = mm /\ x.customers = cs
    BY <1>1, <1>2, <1>3, <2>3
  <2>5. /\ IsSeq(oo) /\ Len(oo) = Len(os) + 1 /\ oo[Len(os) + 1] = e
        /\ DOMAIN oo = 1..(Len(os) + 1) /\ \A i \in DOMAIN os : oo[i] = os[i]
    BY <1>3, <2>2, AppendAdds
  <2>6. /\ IsSeq(mm) /\ Len(mm) = Len(ms) + 1 /\ mm[Len(ms) + 1] = {p.patch}
        /\ \A i \in DOMAIN ms : mm[i] = ms[i]
    BY <1>3, <2>2, AppendAdds
  <2>7. /\ OrderOK(e, Len(cs)) /\ e.no = p.row.no /\ e.customer = y.at
        /\ \A i, f : f \in Field => HoldsNewest(i, f, e, {p.patch})
    <3>1. y.at \in 1..Len(cs)
      BY <1>1, <1>2
    <3>2. IsNew(e, Len(cs), y.at, p.row.no, p.patch)
      BY <1>6, <2>1, <3>1, NewOrderIsOK
    <3> QED
      BY <3>2 DEF IsNew
  <2>8. RowsOK(cs, oo, mm)
    <3>1. ASSUME NEW i \in DOMAIN oo
          PROVE  /\ OrderOK(oo[i], Len(cs)) /\ \A q \in mm[i] : PatchOK(q)
                 /\ \A f \in Field : HoldsNewest(i, f, oo[i], mm[i])
      <4>1. CASE i \in DOMAIN os
        <5>1. oo[i] = os[i] /\ mm[i] = ms[i]
          BY <1>3, <2>5, <2>6, <4>1
        <5> QED
          BY <1>4, <4>1, <5>1
      <4>2. CASE i \notin DOMAIN os
        <5>1. oo[i] = e /\ mm[i] = {p.patch}
          <6>1. i = Len(os) + 1
            BY <1>3, <2>5, <4>2
          <6> QED
            BY <1>3, <2>5, <2>6, <6>1
        <5> QED
          BY <1>6, <2>7, <5>1
      <4> QED
        BY <4>1, <4>2
    <3> QED
      BY <1>3, <2>5, <2>6, <3>1 DEF RowsOK
  <2>9. WorldOK(x)
    BY <1>3, <2>4, <2>8 DEF WorldOK
  <2>10. Extends(x, w)
    <3>1. Len(os) <= Len(oo)
      BY <1>3, <2>5
    <3> QED
      BY <1>1, <1>2, <1>3, <2>4, <2>5, <3>1 DEF Extends
  <2>11. PICK i : i = Len(os) + 1 /\ i \in DOMAIN x.orders /\ x.orders[i] = e
    BY <1>3, <2>4, <2>5
  <2>12. \A j \in DOMAIN w.orders : x.orders[j] = w.orders[j]
    BY <1>2, <2>4, <2>5
  <2> QED
    BY <1>1, <1>2, <2>4, <2>7, <2>9, <2>10, <2>11, <2>12 DEF IsWritten
<1>8. CASE held # {}
  <2>1. PICK i : i = CHOOSE j \in held : TRUE
    OBVIOUS
  <2>2. i \in DOMAIN os /\ os[i].customer = y.at /\ os[i].no = p.row.no
    BY <1>5, <1>8, <2>1 DEF OrderOf
  <2>3. PICK e, m : e = Merge(os[i], p.patch, ChoiceFor(a)) /\ m = ms[i] \cup {p.patch}
    OBVIOUS
  <2>4. PICK oo, mm : oo = [os EXCEPT ![i] = e] /\ mm = [ms EXCEPT ![i] = m]
    OBVIOUS
  <2>5. x = [y EXCEPT !.orders[i] = Merge(@, p.patch, ChoiceFor(a)), !.merged[i] = @ \cup {p.patch}]
    BY <1>1, <1>2, <1>5, <1>8, <2>1 DEF WriteRow
  <2>6. DOMAIN x = DOMAIN w /\ x.orders = oo /\ x.merged = mm /\ x.customers = cs
    <3>1. y.orders = os /\ y.merged = ms /\ y.customers = cs /\ DOMAIN y = {"customers", "orders", "merged", "at"}
      BY <1>1, <1>2, <1>3
    <3>2. /\ DOMAIN x = DOMAIN y /\ x.customers = y.customers
          /\ x.orders = [y.orders EXCEPT ![i] = Merge(@, p.patch, ChoiceFor(a))]
          /\ x.merged = [y.merged EXCEPT ![i] = @ \cup {p.patch}]
      BY <2>5, <3>1
    <3>3. oo = [os EXCEPT ![i] = Merge(@, p.patch, ChoiceFor(a))]
      BY <2>2, <2>3, <2>4
    <3>4. mm = [ms EXCEPT ![i] = @ \cup {p.patch}]
      BY <1>3, <2>2, <2>3, <2>4
    <3> QED
      BY <1>3, <3>1, <3>2, <3>3, <3>4
  <2>7. /\ IsSeq(oo) /\ Len(oo) = Len(os) /\ DOMAIN oo = DOMAIN os /\ oo[i] = e
        /\ \A j \in DOMAIN os : j # i => oo[j] = os[j]
    <3>1. IsSeq(os) /\ i \in DOMAIN os /\ oo = [os EXCEPT ![i] = e]
      BY <1>3, <2>2, <2>4
    <3>2. Replaced(oo, os, i, e)
      BY <3>1, ExceptReplaces
    <3> QED
      BY <3>2 DEF Replaced
  <2>8. /\ IsSeq(mm) /\ Len(mm) = Len(ms) /\ mm[i] = m
        /\ \A j \in DOMAIN ms : j # i => mm[j] = ms[j]
    <3>1. IsSeq(ms) /\ i \in DOMAIN ms /\ mm = [ms EXCEPT ![i] = m]
      BY <1>3, <2>2, <2>4
    <3>2. Replaced(mm, ms, i, m)
      BY <3>1, ExceptReplaces
    <3> QED
      BY <3>2 DEF Replaced
  <2>9. /\ OrderOK(e, Len(cs)) /\ e.no = os[i].no /\ e.customer = os[i].customer
        /\ \A f \in Field : IsMerged(e, os[i], p.patch, ChoiceFor(a), f)
    BY <1>4, <1>6, <2>2, <2>3, OrderIsMerged
  <2>10. \A f \in Field : HoldsNewest(i, f, e, m)
    BY <1>4, <1>6, <2>2, <2>3, <2>9, NewestIsHeld
  <2>11. RowsOK(cs, oo, mm)
    <3>1. ASSUME NEW j \in DOMAIN oo
          PROVE  /\ OrderOK(oo[j], Len(cs)) /\ \A q \in mm[j] : PatchOK(q)
                 /\ \A f \in Field : HoldsNewest(j, f, oo[j], mm[j])
      <4>1. CASE j # i
        <5>1. j \in DOMAIN os /\ oo[j] = os[j] /\ mm[j] = ms[j]
          BY <1>3, <2>7, <2>8, <4>1
        <5> QED
          BY <1>4, <5>1
      <4>2. CASE j = i
        <5>1. oo[j] = e /\ mm[j] = m /\ \A q \in m : PatchOK(q)
          BY <1>4, <1>6, <2>2, <2>3, <2>7, <2>8, <4>2
        <5> QED
          BY <2>9, <2>10, <4>2, <5>1
      <4> QED
        BY <4>1, <4>2
    <3> QED
      BY <1>3, <2>7, <2>8, <3>1 DEF RowsOK
  <2>12. WorldOK(x)
    BY <1>3, <2>6, <2>11 DEF WorldOK
  <2>13. \A j \in DOMAIN os : oo[j].no = os[j].no /\ oo[j].customer = os[j].customer
    BY <2>7, <2>9
  <2>14. Extends(x, w)
    <3>1. Len(os) <= Len(oo)
      BY <1>3, <2>7
    <3> QED
      BY <1>1, <1>2, <1>3, <2>6, <2>13, <3>1 DEF Extends
  <2>15. \A j \in DOMAIN w.orders :
            \/ x.orders[j] = w.orders[j]
            \/ /\ w.orders[j].no = p.row.no
               /\ \A f \in Field : IsMerged(x.orders[j], w.orders[j], p.patch, ChoiceFor(a), f)
    BY <1>2, <2>2, <2>6, <2>7, <2>9
  <2>16. /\ i \in DOMAIN x.orders /\ x.orders[i].no = p.row.no
         /\ p.separate => x.customers[x.orders[i].customer].key[3] = p.row.no
    BY <1>1, <1>2, <2>2, <2>6, <2>7, <2>9
  <2> QED
    BY <2>12, <2>14, <2>15, <2>16 DEF IsWritten
<1> QED
  BY <1>7, <1>8

-----------------------------------------------------------------------------
(* All rows of a plan.                                                     *)

WorldNow == [customers |-> customers, orders |-> orders, merged |-> merged, at |-> Blank]

(* World v with row k of the plan of b written, unless it is left out.     *)
With(b, v, k) ==
    IF batch[b].plans[k].what = "ROW"
    THEN WriteRow(v, batch[b].plans[k], batch[b].conflicts[k]) ELSE v

(* The worlds of a commit exist, and each follows from the one before.     *)
LEMMA CommitGoesRowByRow ==
    ASSUME NEW b, NEW n \in Nat, n = Len(batch[b].plans)
    PROVE  /\ Written(b)[0] = WorldNow
           /\ \A k \in 1..n : Written(b)[k] = With(b, Written(b)[k-1], k)
<1> DEFINE Made(w, m) ==
        /\ w = [k \in 0..m |-> w[k]]
        /\ w[0] = WorldNow
        /\ \A k \in 1..m : w[k] = With(b, w[k-1], k)
           S == {m \in 0..n : \E w : Made(w, m)}
<1>1. 0 \in S
  <2>1. PICK w : w = [k \in 0..0 |-> WorldNow]
    OBVIOUS
  <2>2. Made(w, 0)
    BY <2>1
  <2> QED
    BY <2>2
<1>2. ASSUME NEW m \in 1..n, m - 1 \in S PROVE m \in S
  <2>1. PICK v : Made(v, m - 1)
    BY <1>2
  <2>2. PICK w : w = [k \in 0..m |-> IF k = m THEN With(b, v[m-1], m) ELSE v[k]]
    OBVIOUS
  <2>3. m - 1 \in 0..m /\ m - 1 # m /\ 0 \in 0..m /\ 0 # m /\ m \in 0..m
    OBVIOUS
  <2>4. w[m-1] = v[m-1] /\ w[m] = With(b, v[m-1], m) /\ w[0] = WorldNow
    BY <2>1, <2>2, <2>3
  <2>5. ASSUME NEW k \in 1..m PROVE w[k] = With(b, w[k-1], k)
    <3>1. CASE k = m
      BY <2>4, <3>1
    <3>2. CASE k # m
      <4>1. k \in 1..(m-1) /\ k \in 0..m /\ k - 1 \in 0..m /\ k - 1 # m
        BY <3>2
      <4>2. w[k] = v[k] /\ w[k-1] = v[k-1]
        BY <2>2, <3>2, <4>1
      <4> QED
        BY <2>1, <4>1, <4>2
    <3> QED
      BY <3>1, <3>2
  <2>6. w = [k \in 0..m |-> w[k]]
    BY <2>2
  <2>7. Made(w, m)
    BY <2>4, <2>5, <2>6
  <2> HIDE DEF Made
  <2> QED
    BY <2>7
<1>3. n \in S
  <2> HIDE DEF S
  <2>1. \A k \in 0..n : k \in S
    BY <1>1, <1>2, StepByStep
  <2> QED
    BY <2>1
<1>4. PICK w : Made(w, n)
  BY <1>3
<1>5. w = [k \in 0..n |-> IF k = 0 THEN WorldNow
                          ELSE IF batch[b].plans[k].what = "ROW"
                               THEN WriteRow(w[k-1], batch[b].plans[k], batch[b].conflicts[k])
                               ELSE w[k-1]]
  <2>1. \A k \in 0..n : k # 0 => k \in 1..n
    OBVIOUS
  <2>2. \A k \in 0..n : w[k] = IF k = 0 THEN WorldNow
                               ELSE IF batch[b].plans[k].what = "ROW"
                               THEN WriteRow(w[k-1], batch[b].plans[k], batch[b].conflicts[k])
                               ELSE w[k-1]
    BY <1>4, <2>1 DEF With
  <2> QED
    BY <1>4, <2>2
<1>6. PICK W : W = Written(b)
  OBVIOUS
<1>7. W = [k \in 0..n |-> IF k = 0 THEN WorldNow
                          ELSE IF batch[b].plans[k].what = "ROW"
                               THEN WriteRow(W[k-1], batch[b].plans[k], batch[b].conflicts[k])
                               ELSE W[k-1]]
  BY <1>5, <1>6 DEF Written, WorldNow
<1>8. W[0] = WorldNow
  <2>1. 0 \in 0..n
    OBVIOUS
  <2> QED
    BY <1>7, <2>1
<1>9. ASSUME NEW k \in 1..n PROVE W[k] = With(b, W[k-1], k)
  <2>1. k \in 0..n /\ k # 0
    OBVIOUS
  <2> QED
    BY <1>7, <2>1 DEF With
<1> QED
  BY <1>6, <1>8, <1>9

(* The lengths of a world.                                                 *)
LEMMA WorldsAreSequences ==
    ASSUME NEW w, WorldOK(w)
    PROVE  /\ Len(w.customers) \in Nat /\ DOMAIN w.customers = 1..Len(w.customers)
           /\ Len(w.orders) \in Nat /\ DOMAIN w.orders = 1..Len(w.orders)
           /\ \A i \in DOMAIN w.orders : w.orders[i].customer \in DOMAIN w.customers
<1>1. IsSeq(w.customers) /\ IsSeq(w.orders)
  BY DEF WorldOK, RowsOK
<1>2. \A i \in DOMAIN w.orders : w.orders[i].customer \in 1..Len(w.customers)
  BY DEF WorldOK, RowsOK, OrderOK
<1> QED
  BY <1>1, <1>2, SeqIsFunction

LEMMA NothingChanges ==
    ASSUME NEW v, WorldOK(v)
    PROVE  Extends(v, v)
<1>1. Len(v.customers) \in Nat /\ Len(v.orders) \in Nat
  BY WorldsAreSequences
<1>2. Len(v.customers) <= Len(v.customers) /\ Len(v.orders) <= Len(v.orders)
  BY <1>1
<1> QED
  BY <1>2 DEF Extends

LEMMA ExtendingGoesOn ==
    ASSUME NEW w, WorldOK(w), NEW v, WorldOK(v), NEW u, WorldOK(u), Extends(w, v), Extends(v, u)
    PROVE  Extends(w, u)
<1>1. /\ Len(w.customers) \in Nat /\ Len(v.customers) \in Nat /\ Len(u.customers) \in Nat
      /\ DOMAIN v.customers = 1..Len(v.customers) /\ DOMAIN u.customers = 1..Len(u.customers)
      /\ Len(w.orders) \in Nat /\ Len(v.orders) \in Nat /\ Len(u.orders) \in Nat
      /\ DOMAIN v.orders = 1..Len(v.orders) /\ DOMAIN u.orders = 1..Len(u.orders)
  BY WorldsAreSequences
<1>2. /\ Len(u.customers) <= Len(w.customers) /\ Len(u.orders) <= Len(w.orders)
      /\ \A c \in DOMAIN u.customers : c \in DOMAIN v.customers
      /\ \A i \in DOMAIN u.orders : i \in DOMAIN v.orders
  <2>1. /\ Len(u.customers) <= Len(v.customers) /\ Len(v.customers) <= Len(w.customers)
        /\ Len(u.orders) <= Len(v.orders) /\ Len(v.orders) <= Len(w.orders)
    BY DEF Extends
  <2>2. PICK cu, cv, cw : cu = Len(u.customers) /\ cv = Len(v.customers) /\ cw = Len(w.customers)
    OBVIOUS
  <2>3. PICK ou, ov, ow : ou = Len(u.orders) /\ ov = Len(v.orders) /\ ow = Len(w.orders)
    OBVIOUS
  <2>4. cu <= cw /\ \A c \in 1..cu : c \in 1..cv
    <3>1. cu \in Nat /\ cv \in Nat /\ cw \in Nat /\ cu <= cv /\ cv <= cw
      BY <1>1, <2>1, <2>2
    <3> QED
      BY <3>1
  <2>5. ou <= ow /\ \A i \in 1..ou : i \in 1..ov
    <3>1. ou \in Nat /\ ov \in Nat /\ ow \in Nat /\ ou <= ov /\ ov <= ow
      BY <1>1, <2>1, <2>3
    <3> QED
      BY <3>1
  <2> QED
    BY <1>1, <2>2, <2>3, <2>4, <2>5
<1>3. \A c \in DOMAIN u.customers : w.customers[c] = u.customers[c]
  BY <1>2 DEF Extends
<1>4. \A i \in DOMAIN u.orders : /\ w.orders[i].no = u.orders[i].no
                                 /\ w.orders[i].customer = u.orders[i].customer
  BY <1>2 DEF Extends
<1> QED
  BY <1>2, <1>3, <1>4 DEF Extends

(* The plans of a batch can be written.                                    *)
PlansOK(b) ==
    /\ IsSeq(batch[b].plans)
    /\ \A k \in DOMAIN batch[b].plans :
           batch[b].plans[k].what = "ROW" =>
               PlanOK(batch[b].plans[k], batch[b].conflicts[k], Len(customers))

(* W: the n worlds of the commit of b, each following from the one before. *)
RowByRow(b, W, n) ==
    /\ n \in Nat /\ DOMAIN batch[b].plans = 1..n
    /\ W[0] = WorldNow
    /\ \A k \in 0..n : WorldOK(W[k]) /\ Extends(W[k], WorldNow)
    /\ \A k \in 1..n :
        IF batch[b].plans[k].what = "ROW"
        THEN IsWritten(W[k], W[k-1], batch[b].plans[k], batch[b].conflicts[k])
        ELSE W[k] = W[k-1]

LEMMA CommitIsWritten ==
    ASSUME RowsOK(customers, orders, merged), NEW b, PlansOK(b), NEW n, n = Len(batch[b].plans),
           NEW W, W = Written(b)
    PROVE  RowByRow(b, W, n)
<1>1. n \in Nat /\ DOMAIN batch[b].plans = 1..n
  BY SeqIsFunction DEF PlansOK
<1>3. W[0] = WorldNow /\ \A k \in 1..n : W[k] = With(b, W[k-1], k)
  BY <1>1, CommitGoesRowByRow
<1>4. PICK v : v = WorldNow
  OBVIOUS
<1>5. /\ DOMAIN v = {"customers", "orders", "merged", "at"}
      /\ v.customers = customers /\ v.orders = orders /\ v.merged = merged
  BY <1>4 DEF WorldNow
<1>6. WorldOK(v)
  BY <1>5 DEF WorldOK
<1>7. Extends(v, v)
  BY <1>6, NothingChanges
<1>8. ASSUME NEW k \in 1..n, WorldOK(W[k-1]), Extends(W[k-1], v)
      PROVE  /\ WorldOK(W[k]) /\ Extends(W[k], v)
             /\ IF batch[b].plans[k].what = "ROW"
                THEN IsWritten(W[k], W[k-1], batch[b].plans[k], batch[b].conflicts[k])
                ELSE W[k] = W[k-1]
  <2>1. CASE batch[b].plans[k].what = "ROW"
    <3>1. PICK p, a : p = batch[b].plans[k] /\ a = batch[b].conflicts[k]
      OBVIOUS
    <3>2. PlanOK(p, a, Len(customers))
      BY <1>1, <2>1, <3>1 DEF PlansOK
    <3>3. W[k] = WriteRow(W[k-1], p, a)
      BY <1>3, <2>1, <3>1 DEF With
    <3>4. Len(customers) \in Nat /\ Len(customers) <= Len(W[k-1].customers)
      BY <1>5, <1>6, <1>8, WorldsAreSequences DEF Extends
    <3>5. IsWritten(W[k], W[k-1], p, a)
      BY <1>8, <3>2, <3>3, <3>4, RowIsWritten
    <3>6. WorldOK(W[k]) /\ Extends(W[k], W[k-1])
      BY <3>5 DEF IsWritten
    <3>7. Extends(W[k], v)
      BY <1>6, <1>8, <3>6, ExtendingGoesOn
    <3> QED
      BY <2>1, <3>1, <3>5, <3>6, <3>7
  <2>2. CASE batch[b].plans[k].what # "ROW"
    BY <1>3, <1>8, <2>2 DEF With
  <2> QED
    BY <2>1, <2>2
<1>9. PICK S : S = {k \in 0..n : WorldOK(W[k]) /\ Extends(W[k], v)}
  OBVIOUS
<1>10. \A k \in 0..n : k \in S
  <2>1. 0 \in S
    BY <1>1, <1>3, <1>4, <1>6, <1>7, <1>9
  <2>2. \A k \in 1..n : k - 1 \in S => k \in S
    BY <1>1, <1>8, <1>9
  <2> QED
    BY <1>1, <2>1, <2>2, StepByStep
<1>11. \A k \in 0..n : WorldOK(W[k]) /\ Extends(W[k], v)
  BY <1>9, <1>10
<1>12. \A k \in 1..n : k - 1 \in 0..n
  BY <1>1
<1> QED
  BY <1>1, <1>3, <1>4, <1>8, <1>11, <1>12 DEF RowByRow

-----------------------------------------------------------------------------
(* The inductive invariant.                                                *)

DecisionsOK ==
    /\ DOMAIN decision = DecisionId
    /\ \A d \in DecisionId :
        /\ DOMAIN decision[d] = {"status", "revision", "action"}
        /\ decision[d].status \in {"OPEN", "DEFERRED", "RESOLVED"}
        /\ decision[d].revision \in 1..changes + 1
        /\ decision[d].status = "RESOLVED" => decision[d].action \in AllowedActions[d] \ {"DEFER"}

(* The customer a decision names is there.                                 *)
NamedIsThere ==
    /\ decision["IDENTITY_REVIEW"].status = "RESOLVED"
    /\ decision["IDENTITY_REVIEW"].action = "MATCH_EXISTING"
    => 1 \in DOMAIN customers

(* A batch of which nothing was asked was planned under settled decisions. *)
PlannedOnSettled(x) ==
    (\A k \in DOMAIN x.conflicts : x.conflicts[k] = <<>>) =>
        \A k \in DOMAIN x.plans : x.plans[k].what = "ROW" =>
            \A d \in x.plans[k].used : \A y \in x.digest : y[1] = d => y[2] = "RESOLVED"

BatchOK(x, n) ==
    /\ DOMAIN x = {"status", "file", "plans", "conflicts", "digest"}
    /\ x.status \in Statuses
    /\ x.status # "NONE" => x.file \in Files
    /\ IsSeq(x.plans) /\ DOMAIN x.conflicts = DOMAIN x.plans
    /\ \A k \in DOMAIN x.plans : x.plans[k].what = "ROW" => PlanOK(x.plans[k], x.conflicts[k], n)
    /\ PlannedOnSettled(x)

IInv ==
    /\ active \subseteq Staff /\ changes \in Nat
    /\ DecisionsOK /\ NamedIsThere
    /\ RowsOK(customers, orders, merged)
    /\ DOMAIN batch = Batch
    /\ \A b \in Batch : BatchOK(batch[b], Len(customers))

-----------------------------------------------------------------------------
(* Preview.                                                                *)

(* Who a row is about is a customer there is.                              *)
LEMMA CandidateIsThere ==
    ASSUME RowsOK(customers, orders, merged), NamedIsThere, NEW kind, NEW row
    PROVE  /\ Who(kind, row).candidate \in DOMAIN customers \cup {Blank}
           /\ Separate(row) => Who(kind, row).kind = "NEW_CUSTOMER"
<1>1. /\ IsSeq(customers) /\ IsSeq(orders) /\ DOMAIN orders \subseteq Nat
      /\ \A i \in DOMAIN orders : orders[i].customer \in DOMAIN customers
  <2>1. IsSeq(customers) /\ IsSeq(orders)
    BY DEF RowsOK
  <2>2. DOMAIN orders = 1..Len(orders) /\ DOMAIN customers = 1..Len(customers) /\ Len(orders) \in Nat
    BY <2>1, SeqIsFunction
  <2> QED
    BY <2>1, <2>2 DEF RowsOK, OrderOK
<1>2. Identity(row).candidate \in DOMAIN customers \cup {Blank}
  <2>1. PICK qualify : qualify = {c \in Candidates(row) : Classify(row, c) # "NEW_CUSTOMER"}
    OBVIOUS
  <2>2. qualify \subseteq DOMAIN customers
    BY <2>1 DEF Candidates
  <2>3. qualify # {} => (CHOOSE c \in qualify : TRUE) \in DOMAIN customers
    BY <2>2
  <2>4. Identity(row).candidate \in {Blank} \cup (IF qualify = {} THEN {} ELSE {CHOOSE c \in qualify : TRUE})
    BY <2>1 DEF Identity
  <2> QED
    BY <2>3, <2>4
<1>3. Joined(kind, row) => HolderOf(row.no) \in DOMAIN customers
  <2>1. Holders(row.no) \in SUBSET Nat /\ Holders(row.no) \subseteq DOMAIN orders
    BY <1>1 DEF Holders
  <2>2. Holders(row.no) # {} => Min(Holders(row.no)) \in Holders(row.no)
    BY <2>1, LeastIsThere
  <2> QED
    BY <1>1, <2>1, <2>2 DEF Joined, HolderOf
<1>4. Says(row, "IDENTITY_REVIEW", "MATCH_EXISTING") => 1 \in DOMAIN customers
  BY DEF Says, NamedIsThere
<1> QED
  BY <1>2, <1>3, <1>4 DEF Who

PlanIs(p, row, patch, who, used) ==
    /\ p.row = row /\ p.patch = patch /\ p.who = who /\ p.used = used
    /\ p.separate \in BOOLEAN /\ (p.separate <=> Separate(row))

LEMMA PlanSays ==
    ASSUME NEW what, NEW row, NEW patch, NEW who, NEW used, NEW p, p = Plan(what, row, patch, who, used)
    PROVE  PlanIs(p, row, patch, who, used)
<1>1. PICK apart : apart = Separate(row)
  OBVIOUS
<1>2. p = [what |-> what, row |-> row, patch |-> patch, who |-> who, used |-> used, separate |-> apart]
  BY <1>1, Zenon DEF Plan
<1>3. /\ p.row = row /\ p.patch = patch /\ p.who = who /\ p.used = used
      /\ p.separate = apart
  BY <1>2
<1>4. apart \in BOOLEAN
  <2>1. Separate(row) \in BOOLEAN
    BY DEF Separate
  <2> QED
    BY <1>1, <2>1, Zenon
<1>5. p.separate <=> Separate(row)
  BY <1>1, <1>3, Zenon
<1> QED
  BY <1>3, <1>4, <1>5 DEF PlanIs

LEMMA EmptyIsEmpty ==
    ASSUME NEW s, s = <<>>
    PROVE  DOMAIN s = {}
<1>1. s \in Seq({}) /\ Len(s) = 0
  BY EmptySeq
<1>2. DOMAIN s = 1..Len(s)
  BY <1>1
<1> QED
  BY <1>1, <1>2

(* A plan for a row of a file can be written, and if it asks nothing, the  *)
(* decisions it was made from are settled.                                 *)
LEMMA RowIsPlanned ==
    ASSUME RowsOK(customers, orders, merged), NamedIsThere, NEW file \in Files, NEW k \in DOMAIN file.rows,
           NEW p, p = PlanOf(file.kind, file.rows[k]), p.what = "ROW",
           NEW a, a = [c \in Conflicts(p) |-> ""]
    PROVE  /\ PlanOK(p, a, Len(customers))
           /\ a = <<>> => \A d \in p.used : decision[d].status = "RESOLVED"
<1>1. PICK row, kind : row = file.rows[k] /\ kind = file.kind
  OBVIOUS
<1>2. /\ DOMAIN row = {"no", "date", "name", "phone", "alt", "seller", "status", "team",
                       "track", "line", "bad"}
      /\ row.date \in Nat \cup {Blank}
  <2>1. row \in Range(file.rows)
    BY <1>1 DEF Range
  <2> QED
    BY <2>1, FilesAreFiles
<1>3. PICK full : full = Filled(kind, row)
  OBVIOUS
<1>4. full.date = row.date
  <2>1. CASE kind = "LITE_DETAIL_ORDER"
    <3>1. PICK c : c = customers[HolderOf(row.no)]
      OBVIOUS
    <3>2. full = [row EXCEPT !.phone = c.phone, !.alt = c.alt, !.name = c.name, !.line = c.line]
      BY <1>3, <2>1, <3>1 DEF Filled
    <3> QED
      BY <1>2, <3>2
  <2>2. CASE kind # "LITE_DETAIL_ORDER"
    BY <1>3, <2>2 DEF Filled
  <2> QED
    BY <2>1, <2>2
<1>5. /\ ~ Invalid(row)
      /\ p = Plan("ROW", full, Patch(full), Who(kind, full), Consults(full))
  <2>1. \A x, y, z, u : Plan("INVALID", x, y, z, u).what = "INVALID" /\ Plan("EXCLUDED", x, y, z, u).what = "EXCLUDED"
    BY DEF Plan
  <2>2. p = IF Invalid(row) THEN Plan("INVALID", row, NoPatch, Nobody, {})
            ELSE IF kind = "LITE_DETAIL_ORDER" /\ Holders(row.no) = {}
            THEN Plan("EXCLUDED", row, NoPatch, Nobody, {})
            ELSE IF Excluded(full) THEN Plan("EXCLUDED", full, NoPatch, Nobody, Consults(full))
            ELSE Plan("ROW", full, Patch(full), Who(kind, full), Consults(full))
    BY <1>1, <1>3 DEF PlanOf
  <2>3. p.what # "INVALID" /\ p.what # "EXCLUDED"
    OBVIOUS
  <2> QED
    BY <2>1, <2>2, <2>3
<1>6. /\ p.row = full /\ p.patch = Patch(full) /\ p.who = Who(kind, full) /\ p.used = Consults(full)
      /\ p.separate \in BOOLEAN /\ (p.separate <=> Separate(full))
  <2>1. PICK patch, who, used : patch = Patch(full) /\ who = Who(kind, full) /\ used = Consults(full)
    OBVIOUS
  <2>2. p = Plan("ROW", full, patch, who, used)
    BY <1>5, <2>1
  <2>3. PlanIs(p, full, patch, who, used)
    BY <2>2, PlanSays
  <2> QED
    BY <2>1, <2>3 DEF PlanIs
<1>7. PatchOK(p.patch)
  <2>1. row.date \in Nat
    BY <1>2, <1>5 DEF Invalid
  <2>2. Patch(full).at = full.date /\ DOMAIN Patch(full).value = Field
    BY DEF Patch, Field
  <2> QED
    BY <1>4, <1>6, <2>1, <2>2 DEF PatchOK
<1>8. p.who.candidate \in 1..Len(customers) \cup {Blank}
  <2>1. DOMAIN customers = 1..Len(customers)
    BY SeqIsFunction DEF RowsOK
  <2>2. Who(kind, full).candidate \in DOMAIN customers \cup {Blank}
    BY CandidateIsThere
  <2> QED
    BY <1>6, <2>1, <2>2
<1>10. p.separate => p.who.kind = "NEW_CUSTOMER" /\ Phones(p.row) # {}
  <2>1. Separate(full) => full.phone = SharedPhone
    BY DEF Separate, Says, Consults
  <2>2. full.phone = SharedPhone => Phones(full) # {}
    BY SharedPhoneIsAPhone DEF Phones
  <2>3. Separate(full) => Who(kind, full).kind = "NEW_CUSTOMER"
    BY CandidateIsThere
  <2>4. CASE ~ p.separate
    BY <2>4
  <2>5. CASE p.separate
    <3>1. Separate(full)
      BY <1>6, <2>5
    <3>2. full.phone = SharedPhone
      BY <2>1, <3>1
    <3>3. Who(kind, full).kind = "NEW_CUSTOMER"
      BY <2>3, <3>1
    <3> QED
      BY <1>6, <2>2, <3>2, <3>3
  <2> QED
    BY <2>4, <2>5
<1>11. p.who.kind = "HUMAN_REVIEW" => "identity" \in DOMAIN a /\ a["identity"] = ""
  <2>1. p.who.kind = "HUMAN_REVIEW" => "identity" \in Conflicts(p)
    BY DEF Conflicts
  <2> QED
    BY <2>1
<1>12. a = <<>> => \A d \in p.used : decision[d].status = "RESOLVED"
  <2>1. a = <<>> => Conflicts(p) = {}
    <3>1. PICK C : C = Conflicts(p)
      OBVIOUS
    <3>2. a = [c \in C |-> ""]
      BY <3>1
    <3>3. DOMAIN a = C
      BY <3>2
    <3>4. a = <<>> => DOMAIN a = {}
      BY EmptyIsEmpty
    <3> QED
      BY <3>1, <3>3, <3>4
  <2>2. Conflicts(p) = {} => ~ Unresolved(full)
    <3>1. Unresolved(full) => "mapping" \in Conflicts(p)
      <4>1. PICK about : about = IF Unresolved(p.row) THEN {"mapping"} ELSE {}
        OBVIOUS
      <4>2. about \subseteq Conflicts(p)
        BY <1>6, <4>1 DEF Conflicts
      <4>3. Unresolved(full) => about = {"mapping"}
        BY <1>6, <4>1
      <4> QED
        BY <4>2, <4>3
    <3> QED
      BY <3>1
  <2> QED
    BY <1>6, <2>1, <2>2 DEF Unresolved
<1> QED
  BY <1>6, <1>7, <1>8, <1>10, <1>11, <1>12 DEF PlanOK

-----------------------------------------------------------------------------
(* Every step.                                                             *)

LEMMA InitIsSound == Init => IInv
<1>1. SUFFICES ASSUME Init PROVE IInv
  OBVIOUS
<1>2. PICK s \in Seeds : customers = s.customers /\ orders = s.orders
  BY <1>1 DEF Init
<1>3. IsSeq(customers) /\ IsSeq(orders)
  BY <1>2, SeedsAreUnstamped DEF IsSeq
<1>4. /\ Len(customers) \in Nat /\ DOMAIN customers = 1..Len(customers)
      /\ Len(orders) \in Nat /\ DOMAIN orders = 1..Len(orders)
  BY <1>3, SeqIsFunction
<1>5. merged = [i \in 1..Len(orders) |-> {}]
  BY <1>1, <1>4 DEF Init
<1>6. IsSeq(merged) /\ Len(merged) = Len(orders)
  <2>1. PICK n, m : n = Len(orders) /\ m = merged
    OBVIOUS
  <2>2. n \in Nat /\ m = [i \in 1..n |-> {}]
    BY <1>4, <1>5, <2>1
  <2>3. m \in [1..n -> Range(m)]
    BY <2>2 DEF Range
  <2>4. m \in Seq(Range(m)) /\ Len(m) = n
    BY <2>2, <2>3, FunctionIsSeq
  <2> QED
    BY <2>1, <2>4 DEF IsSeq
<1>7. ASSUME NEW i \in DOMAIN orders
      PROVE  /\ OrderOK(orders[i], Len(customers)) /\ merged[i] = {}
             /\ \A f \in Field : HoldsNewest(i, f, orders[i], {})
  <2>1. PICK o : o = orders[i]
    OBVIOUS
  <2>2. o \in Range(s.orders)
    BY <1>2, <2>1 DEF Range
  <2>3. /\ DOMAIN o = {"customer", "no", "value", "stamp"}
        /\ o.customer \in DOMAIN customers /\ DOMAIN o.value = Field /\ o.stamp = NoValues
    BY <1>2, <2>2, SeedsAreUnstamped
  <2>4. DOMAIN o.stamp = Field /\ \A f \in Field : o.stamp[f] = Blank
    BY <2>3 DEF NoValues
  <2>5. OrderOK(o, Len(customers))
    BY <1>4, <2>3, <2>4 DEF OrderOK
  <2>6. ASSUME NEW f \in Field PROVE HoldsNewest(i, f, o, {})
    <3>1. Speaking({}, f) = {}
      BY DEF Speaking
    <3>2. i \in DOMAIN s.orders /\ o.value[f] = s.orders[i].value[f]
      BY <1>2, <2>1
    <3> QED
      BY <2>4, <3>1, <3>2 DEF HoldsNewest
  <2> QED
    BY <1>4, <1>5, <2>1, <2>5, <2>6
<1>8. RowsOK(customers, orders, merged)
  BY <1>3, <1>6, <1>7 DEF RowsOK
<1>9. DecisionsOK /\ NamedIsThere
  <2>1. PICK e : e = [status |-> "OPEN", revision |-> 1, action |-> ""]
    OBVIOUS
  <2>2. DOMAIN e = {"status", "revision", "action"} /\ e.status = "OPEN" /\ e.revision = 1
    BY <2>1
  <2>3. changes = 0 /\ decision = [d \in DecisionId |-> e]
    BY <1>1, <2>1 DEF Init
  <2>4. "IDENTITY_REVIEW" \in DecisionId
    BY DEF DecisionId
  <2>5. NamedIsThere
    BY <2>2, <2>3, <2>4 DEF NamedIsThere
  <2>6. DecisionsOK
    <3>1. 1 \in 1..changes + 1
      BY <2>3
    <3> QED
      BY <2>2, <2>3, <3>1 DEF DecisionsOK
  <2> QED
    BY <2>5, <2>6
<1>10. BatchOK(NewBatch, Len(customers))
  <2>1. PICK x : x = NewBatch
    OBVIOUS
  <2>2. /\ DOMAIN x = {"status", "file", "plans", "conflicts", "digest"}
        /\ x.status = "NONE" /\ x.plans = <<>> /\ x.conflicts = <<>>
    BY <2>1 DEF NewBatch
  <2>3. DOMAIN x.plans = {} /\ DOMAIN x.conflicts = {}
    BY <2>2, EmptyIsEmpty
  <2>4. IsSeq(x.plans)
    BY <2>2, EmptySeq DEF IsSeq
  <2>5. BatchOK(x, Len(customers))
    BY <2>2, <2>3, <2>4 DEF BatchOK, PlannedOnSettled, Statuses
  <2> QED
    BY <2>1, <2>5
<1> QED
  BY <1>1, <1>8, <1>9, <1>10 DEF IInv, Init

(* A step that changes one batch and nothing else.                         *)
LEMMA OneBatchChanges ==
    ASSUME IInv, NEW b \in Batch, NEW x, BatchOK(x, Len(customers)), batch' = [batch EXCEPT ![b] = x],
           UNCHANGED <<active, changes, decision, db>>
    PROVE  IInv'
<1>1. DOMAIN batch = Batch /\ \A c \in Batch : BatchOK(batch[c], Len(customers))
  BY DEF IInv
<1>2. /\ customers' = customers /\ orders' = orders /\ merged' = merged
      /\ active' = active /\ changes' = changes /\ decision' = decision
  BY DEF db
<1>3. DOMAIN batch' = Batch /\ \A c \in Batch : batch'[c] = IF c = b THEN x ELSE batch[c]
  BY <1>1
<1>4. \A c \in Batch : BatchOK(batch'[c], Len(customers'))
  BY <1>1, <1>2, <1>3
<1>5. DecisionsOK' /\ NamedIsThere'
  BY <1>2 DEF IInv, DecisionsOK, NamedIsThere
<1> QED
  BY <1>2, <1>3, <1>4, <1>5 DEF IInv

LEMMA UploadIsSound ==
    ASSUME IInv, NEW b \in Batch, NEW u, Upload(b, u)
    PROVE  IInv'
<1>1. PICK file \in Files : batch' = [batch EXCEPT ![b].file = file, ![b].status = "PREVIEW"]
  BY DEF Upload
<1>2. PICK x, y : x = batch[b] /\ y = [x EXCEPT !.file = file, !.status = "PREVIEW"]
  OBVIOUS
<1>3. BatchOK(x, Len(customers)) /\ DOMAIN batch = Batch
  BY <1>2 DEF IInv
<1>4. batch' = [batch EXCEPT ![b] = y]
  BY <1>1, <1>2, <1>3
<1>5. /\ DOMAIN y = DOMAIN x /\ y.plans = x.plans /\ y.conflicts = x.conflicts
      /\ y.digest = x.digest /\ y.file = file /\ y.status = "PREVIEW"
  BY <1>2, <1>3 DEF BatchOK
<1>6. BatchOK(y, Len(customers))
  BY <1>3, <1>5 DEF BatchOK, PlannedOnSettled, Statuses
<1> QED
  BY <1>4, <1>6, OneBatchChanges DEF Upload

(* Confirm, and a commit refused.                                          *)
LEMMA NewStatusIsSound ==
    ASSUME IInv, NEW b \in Batch, NEW status \in Statuses \ {"NONE"}, batch[b].status # "NONE",
           batch' = [batch EXCEPT ![b].status = status], UNCHANGED <<active, changes, decision, db>>
    PROVE  IInv'
<1>1. PICK x, y : x = batch[b] /\ y = [x EXCEPT !.status = status]
  OBVIOUS
<1>2. BatchOK(x, Len(customers)) /\ DOMAIN batch = Batch
  BY <1>1 DEF IInv
<1>3. batch' = [batch EXCEPT ![b] = y]
  BY <1>1, <1>2
<1>4. /\ DOMAIN y = DOMAIN x /\ y.plans = x.plans /\ y.conflicts = x.conflicts
      /\ y.digest = x.digest /\ y.file = x.file /\ y.status = status
  BY <1>1, <1>2 DEF BatchOK
<1>5. BatchOK(y, Len(customers))
  BY <1>1, <1>2, <1>4 DEF BatchOK, PlannedOnSettled, Statuses
<1> QED
  BY <1>3, <1>5, OneBatchChanges

LEMMA PreviewIsSound ==
    ASSUME IInv, NEW b \in Batch, NEW u, Preview(b, u)
    PROVE  IInv'
<1>1. PICK x, file : x = batch[b] /\ file = x.file
  OBVIOUS
<1>2. PICK plans : plans = [i \in DOMAIN file.rows |-> PlanOf(file.kind, file.rows[i])]
  OBVIOUS
<1>3. PICK asked : asked = [i \in DOMAIN plans |-> [c \in Conflicts(plans[i]) |-> ""]]
  OBVIOUS
<1>4. PICK status : status = IF \A p \in Range(plans) : p.what # "INVALID" THEN "AWAITING_RESOLUTION" ELSE x.status
  OBVIOUS
<1>5. PICK digest : digest = Live(Used(plans))
  OBVIOUS
<1>6. PICK y : y = [x EXCEPT !.plans = plans, !.conflicts = asked, !.digest = digest, !.status = status]
  OBVIOUS
<1>7. /\ BatchOK(x, Len(customers)) /\ DOMAIN batch = Batch
      /\ RowsOK(customers, orders, merged) /\ NamedIsThere
  BY <1>1 DEF IInv
<1>8. batch[b].status \in {"PREVIEW", "AWAITING_RESOLUTION"}
  BY DEF Preview
<1>9. file \in Files /\ status \in Statuses
  BY <1>1, <1>4, <1>7, <1>8 DEF BatchOK, Statuses
<1>10. batch' = [batch EXCEPT ![b].plans = plans, ![b].conflicts = asked,
                              ![b].digest = digest, ![b].status = status]
  <2>1. batch' = [batch EXCEPT ![b].plans = plans, ![b].conflicts = asked, ![b].digest = digest,
                               ![b].status = IF \A p \in Range(plans) : p.what # "INVALID"
                                             THEN "AWAITING_RESOLUTION" ELSE @]
    BY <1>1, <1>2, <1>3, <1>5, Zenon DEF Preview
  <2> QED
    BY <1>1, <1>4, <1>7, <2>1
<1>11. batch' = [batch EXCEPT ![b] = y]
  BY <1>1, <1>6, <1>7, <1>10
<1>12. /\ DOMAIN y = DOMAIN x /\ y.plans = plans /\ y.conflicts = asked
       /\ y.digest = digest /\ y.file = file /\ y.status = status
  BY <1>1, <1>6, <1>7 DEF BatchOK
<1>13. IsSeq(plans)
  <2>1. PICK rows : rows = file.rows
    OBVIOUS
  <2>2. IsSeq(rows)
    BY <1>9, <2>1, FilesAreFiles DEF IsSeq
  <2>3. PICK n : n = Len(rows)
    OBVIOUS
  <2>4. n \in Nat /\ DOMAIN rows = 1..n
    BY <2>2, <2>3, SeqIsFunction
  <2>5. plans \in [1..n -> Range(plans)]
    <3>1. plans = [i \in 1..n |-> PlanOf(file.kind, rows[i])]
      BY <1>2, <2>1, <2>4
    <3> QED
      BY <3>1 DEF Range
  <2>6. plans \in Seq(Range(plans))
    BY <2>4, <2>5, FunctionIsSeq
  <2> QED
    BY <2>6 DEF IsSeq
<1>14. ASSUME NEW k \in DOMAIN plans, plans[k].what = "ROW"
       PROVE  /\ PlanOK(plans[k], asked[k], Len(customers))
              /\ asked[k] = <<>> => \A d \in plans[k].used : decision[d].status = "RESOLVED"
  <2>1. PICK p, a : p = plans[k] /\ a = asked[k]
    OBVIOUS
  <2>2. k \in DOMAIN file.rows /\ p = PlanOf(file.kind, file.rows[k]) /\ p.what = "ROW"
    BY <1>2, <1>14, <2>1
  <2>3. a = [c \in Conflicts(p) |-> ""]
    BY <1>3, <1>14, <2>1
  <2>4. /\ PlanOK(p, a, Len(customers))
        /\ a = <<>> => \A d \in p.used : decision[d].status = "RESOLVED"
    BY <1>7, <1>9, <2>2, <2>3, RowIsPlanned
  <2> QED
    BY <2>1, <2>4
<1>15. DOMAIN asked = DOMAIN plans
  BY <1>3
<1>16. PlannedOnSettled(y)
  <2>1. \A e \in digest : \E d : e = <<d, decision[d].status, decision[d].revision>>
    BY <1>5 DEF Live
  <2>2. \A e \in digest : e[2] = decision[e[1]].status
    BY <2>1
  <2> QED
    BY <1>12, <1>14, <1>15, <2>2 DEF PlannedOnSettled
<1>17. BatchOK(y, Len(customers))
  BY <1>7, <1>9, <1>12, <1>13, <1>14, <1>15, <1>16 DEF BatchOK
<1> QED
  BY <1>11, <1>17, OneBatchChanges DEF Preview

(* What was asked has been asked: nothing is left of what settled it.      *)
LEMMA ResolveIsSound ==
    ASSUME IInv, NEW b \in Batch, NEW i \in DOMAIN batch[b].conflicts,
           NEW about \in DOMAIN batch[b].conflicts[i], NEW choice, NEW u, Resolve(b, i, about, choice, u)
    PROVE  IInv'
<1>1. PICK x : x = batch[b]
  OBVIOUS
<1>2. PICK cs : cs = x.conflicts
  OBVIOUS
<1>3. PICK a : a = cs[i]
  OBVIOUS
<1>4. PICK z : z = [a EXCEPT ![about] = choice]
  OBVIOUS
<1>5. PICK ds : ds = [cs EXCEPT ![i] = z]
  OBVIOUS
<1>6. PICK digest : digest = Live(Used(x.plans))
  OBVIOUS
<1>7. PICK y : y = [x EXCEPT !.conflicts = ds, !.digest = digest]
  OBVIOUS
<1>8. /\ BatchOK(x, Len(customers)) /\ DOMAIN batch = Batch
      /\ i \in DOMAIN cs /\ about \in DOMAIN a /\ choice \in Options(x.plans[i], about)
      /\ DOMAIN x = {"status", "file", "plans", "conflicts", "digest"}
      /\ DOMAIN cs = DOMAIN x.plans
  BY <1>1, <1>2, <1>3 DEF IInv, Resolve, BatchOK
<1>9. batch' = [batch EXCEPT ![b].conflicts[i][about] = choice, ![b].digest = digest]
  BY <1>1, <1>6 DEF Resolve
<1>10. batch' = [batch EXCEPT ![b] = y]
  BY <1>1, <1>2, <1>3, <1>4, <1>5, <1>7, <1>8, <1>9
<1>11. /\ DOMAIN y = DOMAIN x /\ y.plans = x.plans /\ y.conflicts = ds
       /\ y.digest = digest /\ y.file = x.file /\ y.status = x.status
  BY <1>7, <1>8
<1>12. DOMAIN ds = DOMAIN cs /\ ds[i] = z /\ \A k \in DOMAIN cs : k # i => ds[k] = cs[k]
  BY <1>5, <1>8
<1>13. DOMAIN z = DOMAIN a /\ z[about] = choice /\ \A c \in DOMAIN a : c # about => z[c] = a[c]
  BY <1>4, <1>8
<1>14. ASSUME NEW k \in DOMAIN x.plans, x.plans[k].what = "ROW"
       PROVE  PlanOK(x.plans[k], ds[k], Len(customers))
  <2>1. PICK p : p = x.plans[k]
    OBVIOUS
  <2>2. PlanOK(p, cs[k], Len(customers))
    BY <1>2, <1>8, <1>14, <2>1 DEF BatchOK
  <2>3. CASE k # i
    BY <1>8, <1>12, <2>1, <2>2, <2>3
  <2>4. CASE k = i
    <3>1. ASSUME p.who.kind = "HUMAN_REVIEW"
          PROVE  "identity" \in DOMAIN z /\ (z["identity"] = "AUTO_MATCH" => p.who.candidate # Blank)
      <4>1. "identity" \in DOMAIN a /\ (a["identity"] = "AUTO_MATCH" => p.who.candidate # Blank)
        BY <1>3, <2>2, <2>4, <3>1 DEF PlanOK
      <4>2. CASE about = "identity"
        <5>1. choice = "AUTO_MATCH" => p.who.candidate # Blank
          BY <1>8, <2>1, <2>4, <4>2 DEF Options
        <5> QED
          BY <1>13, <4>1, <4>2, <5>1
      <4>3. CASE about # "identity"
        BY <1>13, <4>1, <4>3
      <4> QED
        BY <4>2, <4>3
    <3> QED
      BY <1>12, <2>1, <2>2, <2>4, <3>1 DEF PlanOK
  <2> QED
    BY <2>1, <2>3, <2>4
<1>15. PlannedOnSettled(y)
  <2>1. ds[i] # <<>>
    BY <1>12, <1>13, <1>8, EmptyIsEmpty
  <2> QED
    BY <1>8, <1>11, <1>12, <2>1 DEF PlannedOnSettled
<1>16. BatchOK(y, Len(customers))
  BY <1>1, <1>2, <1>8, <1>11, <1>12, <1>14, <1>15 DEF BatchOK
<1> QED
  BY <1>10, <1>16, OneBatchChanges DEF Resolve

LEMMA DecisionIsSound ==
    ASSUME IInv, NEW d \in DecisionId, NEW status, NEW action,
           status \in {"OPEN", "DEFERRED"} \/ (status = "RESOLVED" /\ action \in AllowedActions[d] \ {"DEFER"}),
           d = "IDENTITY_REVIEW" /\ action = "MATCH_EXISTING" => 1 \in DOMAIN customers,
           decision' = [decision EXCEPT ![d] = [status |-> status, revision |-> @.revision + 1, action |-> action]],
           changes' = changes + 1, UNCHANGED <<active, db, batch>>
    PROVE  IInv'
<1>1. DecisionsOK /\ changes \in Nat /\ NamedIsThere
  BY DEF IInv
<1>2. PICK n, e : n = decision[d].revision /\ e = [status |-> status, revision |-> n + 1, action |-> action]
  OBVIOUS
<1>3. n \in 1..changes + 1 /\ DOMAIN decision = DecisionId
  BY <1>1, <1>2 DEF DecisionsOK
<1>4. decision' = [decision EXCEPT ![d] = e]
  BY <1>2, <1>3
<1>5. /\ DOMAIN e = {"status", "revision", "action"}
      /\ e.status = status /\ e.revision = n + 1 /\ e.action = action
  BY <1>2
<1>6. n + 1 \in 1..changes' + 1 /\ \A m : m \in 1..changes + 1 => m \in 1..changes' + 1
  BY <1>1, <1>3
<1>7. /\ customers' = customers /\ orders' = orders /\ merged' = merged
      /\ active' = active /\ batch' = batch /\ changes' \in Nat
  BY <1>1 DEF db
<1>8. DOMAIN decision' = DecisionId /\ \A c \in DecisionId : decision'[c] = IF c = d THEN e ELSE decision[c]
  BY <1>3, <1>4
<1>9. DecisionsOK'
  <2>1. ASSUME NEW c \in DecisionId
        PROVE  /\ DOMAIN decision'[c] = {"status", "revision", "action"}
               /\ decision'[c].status \in {"OPEN", "DEFERRED", "RESOLVED"}
               /\ decision'[c].revision \in 1..changes' + 1
               /\ decision'[c].status = "RESOLVED" => decision'[c].action \in AllowedActions[c] \ {"DEFER"}
    <3>1. CASE c = d
      <4>1. decision'[c] = e
        BY <1>8, <3>1
      <4>2. e.status \in {"OPEN", "DEFERRED", "RESOLVED"} /\ e.revision \in 1..changes' + 1
        BY <1>5, <1>6
      <4>3. e.status = "RESOLVED" => e.action \in AllowedActions[c] \ {"DEFER"}
        BY <1>5, <3>1
      <4> QED
        BY <1>5, <4>1, <4>2, <4>3
    <3>2. CASE c # d
      <4>1. decision'[c] = decision[c]
        BY <1>8, <3>2
      <4> QED
        BY <1>1, <1>6, <4>1 DEF DecisionsOK
    <3> QED
      BY <3>1, <3>2
  <2> QED
    BY <1>8, <2>1 DEF DecisionsOK
<1>10. NamedIsThere'
  <2>1. "IDENTITY_REVIEW" \in DecisionId
    BY DEF DecisionId
  <2> QED
    BY <1>1, <1>5, <1>7, <1>8, <2>1 DEF NamedIsThere
<1> QED
  BY <1>7, <1>9, <1>10 DEF IInv

LEMMA AccountIsSound ==
    ASSUME IInv, NEW u \in Staff, SwitchAccount(u)
    PROVE  IInv'
<1>1. /\ active \subseteq Staff /\ changes \in Nat /\ DecisionsOK /\ NamedIsThere
  BY DEF IInv
<1>2. /\ customers' = customers /\ orders' = orders /\ merged' = merged /\ decision' = decision
      /\ batch' = batch /\ changes' = changes + 1 /\ active' = (active \ {u}) \cup ({u} \ active)
  BY DEF SwitchAccount, db
<1>3. active' \subseteq Staff /\ changes' \in Nat
  BY <1>1, <1>2
<1>4. \A m : m \in 1..changes + 1 => m \in 1..changes' + 1
  BY <1>1, <1>2
<1>5. DecisionsOK'
  BY <1>1, <1>2, <1>4 DEF DecisionsOK
<1>6. NamedIsThere'
  BY <1>1, <1>2 DEF NamedIsThere
<1> QED
  BY <1>2, <1>3, <1>5, <1>6 DEF IInv

(* The worlds of a commit end in what is there afterwards.                 *)
LEMMA CommitEnds ==
    ASSUME IInv, NEW b \in Batch, NEW u, Commit(b, u), NEW n, n = Len(batch[b].plans), NEW W, W = Written(b)
    PROVE  /\ RowByRow(b, W, n)
           /\ customers' = W[n].customers /\ orders' = W[n].orders /\ merged' = W[n].merged
<1>1. RowsOK(customers, orders, merged) /\ BatchOK(batch[b], Len(customers))
  BY DEF IInv
<1>2. PlansOK(b)
  BY <1>1 DEF BatchOK, PlansOK
<1> QED
  BY <1>1, <1>2, CommitIsWritten DEF Commit

LEMMA CommitIsSound ==
    ASSUME IInv, NEW b \in Batch, NEW u, Commit(b, u)
    PROVE  IInv'
<1>1. PICK n, W : n = Len(batch[b].plans) /\ W = Written(b)
  OBVIOUS
<1>2. /\ RowByRow(b, W, n)
      /\ customers' = W[n].customers /\ orders' = W[n].orders /\ merged' = W[n].merged
  BY <1>1, CommitEnds
<1>3. WorldOK(W[n]) /\ Extends(W[n], WorldNow)
  BY <1>2 DEF RowByRow
<1>4. RowsOK(customers', orders', merged')
  BY <1>2, <1>3 DEF WorldOK
<1>5. RowsOK(customers, orders, merged) /\ DOMAIN batch = Batch
  BY DEF IInv
<1>6. /\ Len(customers) \in Nat /\ Len(customers') \in Nat
      /\ DOMAIN customers = 1..Len(customers) /\ DOMAIN customers' = 1..Len(customers')
  BY <1>4, <1>5, SeqIsFunction DEF RowsOK
<1>7. Len(customers) <= Len(customers')
  BY <1>2, <1>3 DEF Extends, WorldNow
<1>8. PICK x, y : x = batch[b] /\ y = [x EXCEPT !.status = "COMMITTED"]
  OBVIOUS
<1>9. batch' = [batch EXCEPT ![b] = y]
  BY <1>5, <1>8 DEF Commit
<1>10. \A c \in Batch : BatchOK(batch[c], Len(customers))
  BY DEF IInv
<1>11. /\ DOMAIN y = DOMAIN x /\ y.plans = x.plans /\ y.conflicts = x.conflicts
       /\ y.digest = x.digest /\ y.file = x.file /\ y.status = "COMMITTED"
  BY <1>8, <1>10 DEF BatchOK
<1>12. x.status # "NONE"
  BY <1>8 DEF Commit
<1>13. BatchOK(y, Len(customers))
  BY <1>8, <1>10, <1>11, <1>12 DEF BatchOK, PlannedOnSettled, Statuses
<1>14. ASSUME NEW z, BatchOK(z, Len(customers)) PROVE BatchOK(z, Len(customers'))
  <2>1. 1..Len(customers) \subseteq 1..Len(customers')
    BY <1>6, <1>7
  <2>2. \A p, a : PlanOK(p, a, Len(customers)) => PlanOK(p, a, Len(customers'))
    BY <2>1 DEF PlanOK
  <2> QED
    BY <1>14, <2>2 DEF BatchOK
<1>15. DOMAIN batch' = Batch /\ \A c \in Batch : batch'[c] = IF c = b THEN y ELSE batch[c]
  BY <1>5, <1>9
<1>16. \A c \in Batch : BatchOK(batch'[c], Len(customers'))
  BY <1>10, <1>13, <1>14, <1>15
<1>17. /\ active' = active /\ changes' = changes /\ decision' = decision
  BY DEF Commit
<1>18. active' \subseteq Staff /\ changes' \in Nat /\ DecisionsOK'
  BY <1>17 DEF IInv, DecisionsOK
<1>19. NamedIsThere'
  <2>1. 1 \in DOMAIN customers => 1 \in DOMAIN customers'
    BY <1>6, <1>7
  <2> QED
    BY <1>17, <2>1 DEF IInv, NamedIsThere
<1> QED
  BY <1>4, <1>15, <1>16, <1>18, <1>19 DEF IInv

LEMMA NextIsSound == IInv /\ [Next]_vars => IInv'
<1>1. SUFFICES ASSUME IInv, [Next]_vars PROVE IInv'
  OBVIOUS
<1>2. CASE UNCHANGED vars
  BY <1>1, <1>2 DEF vars, db, IInv, DecisionsOK, NamedIsThere
<1>3. ASSUME NEW u \in People, NEW b \in Batch, Upload(b, u) PROVE IInv'
  BY <1>1, <1>3, UploadIsSound
<1>4. ASSUME NEW u \in People, NEW b \in Batch, Preview(b, u) PROVE IInv'
  BY <1>1, <1>4, PreviewIsSound
<1>5. ASSUME NEW u \in People, NEW b \in Batch, Confirm(b, u) PROVE IInv'
  <2>1. "COMMITTING" \in Statuses \ {"NONE"}
    BY DEF Statuses
  <2> QED
    BY <1>1, <1>5, <2>1, NewStatusIsSound DEF Confirm
<1>6. ASSUME NEW u \in People, NEW b \in Batch, Commit(b, u) PROVE IInv'
  BY <1>1, <1>6, CommitIsSound
<1>7. ASSUME NEW u \in People, NEW b \in Batch, RefuseCommit(b, u) PROVE IInv'
  <2>1. "FAILED_RETRYABLE" \in Statuses \ {"NONE"}
    BY DEF Statuses
  <2> QED
    BY <1>1, <1>7, <2>1, NewStatusIsSound DEF RefuseCommit
<1>8. ASSUME NEW u \in People, NEW b \in Batch, NEW i \in DOMAIN batch[b].conflicts,
             NEW c \in DOMAIN batch[b].conflicts[i], NEW choice, Resolve(b, i, c, choice, u)
      PROVE  IInv'
  BY <1>1, <1>8, ResolveIsSound
<1>9. ASSUME NEW u \in People, NEW d \in DecisionId, NEW action \in AllowedActions[d],
             ResolveDecision(d, action, u)
      PROVE  IInv'
  <2>1. PICK status : status = NextStatusFor(action)
    OBVIOUS
  <2>2. status \in {"OPEN", "DEFERRED"} \/ (status = "RESOLVED" /\ action \in AllowedActions[d] \ {"DEFER"})
    BY <2>1 DEF NextStatusFor
  <2> QED
    BY <1>1, <1>9, <2>1, <2>2, DecisionIsSound DEF ResolveDecision
<1>10. ASSUME NEW u \in People, NEW d \in DecisionId, ReopenDecision(d, u) PROVE IInv'
  <2>1. PICK status, action : status = "OPEN" /\ action = ""
    OBVIOUS
  <2>2. decision' = [decision EXCEPT ![d] = [status |-> status, revision |-> @.revision + 1, action |-> action]]
    BY <1>10, <2>1 DEF ReopenDecision
  <2>3. status \in {"OPEN", "DEFERRED"} /\ action # "MATCH_EXISTING"
    BY <2>1
  <2> QED
    BY <1>1, <1>10, <2>2, <2>3, DecisionIsSound DEF ReopenDecision
<1>11. ASSUME NEW u \in Staff, SwitchAccount(u) PROVE IInv'
  BY <1>1, <1>11, AccountIsSound
<1> QED
  BY <1>1, <1>2, <1>3, <1>4, <1>5, <1>6, <1>7, <1>8, <1>9, <1>10, <1>11 DEF Next

-----------------------------------------------------------------------------
(* Theorems.                                                               *)

(* The rows, decisions and batches are always of their types, an order has *)
(* a customer there is, and no field without a value bears a date.         *)
THEOREM RowsStayTyped == Spec => []TypeOK
<1>1. IInv => TypeOK
  <2>1. SUFFICES ASSUME IInv PROVE TypeOK
    OBVIOUS
  <2>2. RowsOK(customers, orders, merged) /\ \A b \in Batch : batch[b].status \in Statuses
    BY <2>1 DEF IInv, BatchOK
  <2>3. /\ DOMAIN customers = 1..Len(customers)
        /\ DOMAIN orders = 1..Len(orders) /\ DOMAIN merged = 1..Len(merged)
    BY <2>2, SeqIsFunction DEF RowsOK
  <2>4. DOMAIN merged = DOMAIN orders
    BY <2>2, <2>3 DEF RowsOK
  <2>5. ASSUME NEW o \in Range(orders)
        PROVE  /\ o.customer \in DOMAIN customers /\ DOMAIN o.value = Field /\ DOMAIN o.stamp = Field
               /\ \A f \in Field : o.value[f] = Blank => o.stamp[f] = Blank
    <3>1. PICK i \in DOMAIN orders : o = orders[i]
      BY DEF Range
    <3>2. OrderOK(o, Len(customers))
      BY <2>2, <3>1 DEF RowsOK
    <3> QED
      BY <2>3, <3>2 DEF OrderOK
  <2> QED
    BY <2>1, <2>2, <2>4, <2>5 DEF TypeOK, IInv, DecisionsOK
<1> QED
  BY <1>1, InitIsSound, NextIsSound, PTL DEF Spec

(* Whatever the order in which files are imported, and whatever else was   *)
(* imported between a file's preview and its commit, an order ends with    *)
(* what the newest of the files says of it.                                *)
THEOREM NewestAlwaysWins == Spec => []NewestWins
<1>1. IInv => NewestWins
  <2>1. SUFFICES ASSUME IInv, NEW i \in DOMAIN orders, NEW f \in Field, NEW S, S = Sayings(i, f),
                        \A p, q \in S : p # q => p.at # q.at /\ p.value[f] # q.value[f],
                        \A s \in Seeds : i \in DOMAIN s.orders => \A p \in S : p.value[f] # s.orders[i].value[f],
                        NEW p \in S, \A q \in S : q.at <= p.at
                 PROVE  orders[i].value[f] = p.value[f]
    BY DEF NewestWins
  <2>2. PICK M, o : M = merged[i] /\ o = orders[i]
    OBVIOUS
  <2>3. HoldsNewest(i, f, o, M) /\ \A q \in M : PatchOK(q)
    BY <2>1, <2>2 DEF IInv, RowsOK
  <2>4. S = Speaking(M, f) /\ S \subseteq M
    BY <2>1, <2>2 DEF Sayings, Speaking
  <2>5. Telling(i, f, M)
    BY <2>1, <2>4 DEF Telling
  <2>6. PICK q \in S : (\A r \in S : r.at <= q.at) /\ o.value[f] = q.value[f]
    BY <2>1, <2>3, <2>4, <2>5 DEF HoldsNewest
  <2>7. p.at \in Nat /\ q.at \in Nat /\ p.at <= q.at /\ q.at <= p.at
    BY <2>1, <2>3, <2>4, <2>6 DEF PatchOK
  <2>8. p.at = q.at
    BY <2>7
  <2>9. p = q
    BY <2>1, <2>6, <2>8
  <2> QED
    BY <2>2, <2>6, <2>9
<1> QED
  BY <1>1, InitIsSound, NextIsSound, PTL DEF Spec

(* Only Commit commits.                                                    *)
LEMMA OnlyCommitCommits ==
    ASSUME IInv, [Next]_vars, NEW b \in Batch, Commits(b)
    PROVE  \E u \in People : Commit(b, u)
<1>1. DOMAIN batch = Batch /\ \A c \in Batch : DOMAIN batch[c] = {"status", "file", "plans", "conflicts", "digest"}
  BY DEF IInv, BatchOK
<1>2. batch[b].status # "COMMITTED" /\ batch'[b].status = "COMMITTED"
  BY DEF Commits
<1>3. CASE UNCHANGED batch
  BY <1>2, <1>3
<1>4. ASSUME NEW c \in Batch, NEW x, DOMAIN x = DOMAIN batch[c], x.status # "COMMITTED",
             batch' = [batch EXCEPT ![c] = x]
      PROVE  FALSE
  BY <1>1, <1>2, <1>4
<1>5. ASSUME NEW u \in People, NEW c \in Batch, Upload(c, u) PROVE FALSE
  <2>1. PICK file : batch' = [batch EXCEPT ![c].file = file, ![c].status = "PREVIEW"]
    BY <1>5 DEF Upload
  <2>2. batch'[c].status = "PREVIEW" /\ \A d \in Batch : d # c => batch'[d] = batch[d]
    BY <1>1, <2>1
  <2> QED
    BY <1>2, <2>2
<1>6. ASSUME NEW u \in People, NEW c \in Batch, Preview(c, u) PROVE FALSE
  <2>1. PICK plans, asked, digest, ok :
            batch' = [batch EXCEPT ![c].plans = plans, ![c].conflicts = asked, ![c].digest = digest,
                                   ![c].status = IF ok THEN "AWAITING_RESOLUTION" ELSE @]
    BY <1>6 DEF Preview
  <2>2. /\ batch'[c].status \in {"AWAITING_RESOLUTION", batch[c].status}
        /\ \A d \in Batch : d # c => batch'[d] = batch[d]
    BY <1>1, <2>1
  <2>3. batch[c].status # "COMMITTED"
    BY <1>6 DEF Preview
  <2> QED
    BY <1>2, <2>2, <2>3
<1>7. ASSUME NEW u \in People, NEW c \in Batch, Confirm(c, u) \/ RefuseCommit(c, u) PROVE FALSE
  <2>1. PICK status \in {"COMMITTING", "FAILED_RETRYABLE"} : batch' = [batch EXCEPT ![c].status = status]
    BY <1>7 DEF Confirm, RefuseCommit
  <2>2. batch'[c].status = status /\ \A d \in Batch : d # c => batch'[d] = batch[d]
    BY <1>1, <2>1
  <2> QED
    BY <1>2, <2>1, <2>2
<1>8. ASSUME NEW u \in People, NEW c \in Batch, NEW i, NEW about, NEW choice, Resolve(c, i, about, choice, u)
      PROVE  FALSE
  <2>1. PICK digest : batch' = [batch EXCEPT ![c].conflicts[i][about] = choice, ![c].digest = digest]
    BY <1>8 DEF Resolve
  <2>2. batch'[c].status = batch[c].status /\ \A d \in Batch : d # c => batch'[d] = batch[d]
    BY <1>1, <2>1
  <2> QED
    BY <1>2, <2>2
<1>9. ASSUME NEW u \in People, NEW c \in Batch, Commit(c, u) PROVE c = b
  <2>1. \A d \in Batch : d # c => batch'[d] = batch[d]
    BY <1>1, <1>9 DEF Commit
  <2> QED
    BY <1>2, <2>1
<1>10. ASSUME NEW u \in People, NEW d \in DecisionId, NEW action, ResolveDecision(d, action, u) \/ ReopenDecision(d, u)
       PROVE  UNCHANGED batch
  BY <1>10 DEF ResolveDecision, ReopenDecision
<1>11. ASSUME NEW u, SwitchAccount(u) PROVE UNCHANGED batch
  BY <1>11 DEF SwitchAccount
<1>12. CASE UNCHANGED vars
  BY <1>3, <1>12 DEF vars
<1> QED
  BY <1>3, <1>5, <1>6, <1>7, <1>8, <1>9, <1>10, <1>11, <1>12 DEF Next

(* The choice written is one somebody made for the row.                    *)
LEMMA ChoicesAreMade ==
    ASSUME NEW a, ChoiceFor(a) = "ACCEPT_INCOMING"
    PROVE  "ACCEPT_INCOMING" \in Range(a)
<1>1. PICK asked : asked = {n \in DOMAIN FieldsInOrder : FieldsInOrder[n] \in DOMAIN a}
  OBVIOUS
<1>2. asked # {} /\ a[FieldsInOrder[Max(asked)]] = "ACCEPT_INCOMING"
  BY <1>1 DEF ChoiceFor
<1>3. asked \in SUBSET (1..4)
  <2>1. DOMAIN FieldsInOrder = 1..4
    BY DEF FieldsInOrder
  <2> QED
    BY <1>1, <2>1
<1>4. Max(asked) \in asked
  BY <1>2, <1>3, GreatestIsThere
<1>5. FieldsInOrder[Max(asked)] \in DOMAIN a
  BY <1>1, <1>4
<1> QED
  BY <1>2, <1>5 DEF Range

(* A value is replaced by another of its own date only by a batch in which *)
(* somebody chose to accept it, whoever imported what at the same time.    *)
THEOREM SameDayIsAlwaysAsked == Spec => SameDayIsAsked
<1>1. ASSUME IInv, [Next]_vars, NEW i \in DOMAIN orders, NEW f \in Field, NEW b \in Batch, Commits(b),
             orders[i].value[f] # Blank, orders'[i].value[f] # orders[i].value[f],
             \A j \in Applied(b) : batch[b].plans[j].row.no = orders[i].no
                => batch[b].plans[j].patch.at = orders[i].stamp[f]
      PROVE  \E j \in Applied(b) : "ACCEPT_INCOMING" \in Range(batch[b].conflicts[j])
  <2>1. SUFFICES ASSUME \A j \in Applied(b) : "ACCEPT_INCOMING" \notin Range(batch[b].conflicts[j])
                 PROVE  FALSE
    OBVIOUS
  <2>2. PICK u \in People : Commit(b, u)
    BY <1>1, OnlyCommitCommits
  <2>3. PICK n, W : n = Len(batch[b].plans) /\ W = Written(b)
    OBVIOUS
  <2>4. RowByRow(b, W, n) /\ orders' = W[n].orders
    BY <1>1, <2>2, <2>3, CommitEnds
  <2>5. n \in Nat /\ DOMAIN batch[b].plans = 1..n
    BY <2>4 DEF RowByRow
  <2>6. PICK o : o = orders[i]
    OBVIOUS
  <2>7. PICK S : S = {k \in 0..n : /\ W[k].orders[i].no = o.no
                                   /\ W[k].orders[i].value[f] = o.value[f]
                                   /\ W[k].orders[i].stamp[f] = o.stamp[f]}
    OBVIOUS
  <2>8. 0 \in S
    BY <2>4, <2>5, <2>6, <2>7 DEF RowByRow, WorldNow
  <2>9. ASSUME NEW k \in 1..n, k - 1 \in S PROVE k \in S
    <3>1. k - 1 \in 0..n /\ k \in 0..n
      BY <2>5
    <3>2. CASE batch[b].plans[k].what # "ROW"
      BY <2>4, <2>7, <2>9, <3>1, <3>2 DEF RowByRow
    <3>3. CASE batch[b].plans[k].what = "ROW"
      <4>1. PICK p, a, w, x, y : p = batch[b].plans[k] /\ a = batch[b].conflicts[k] /\ w = W[k-1] /\ x = W[k]
                                 /\ y = x.orders[i]
        OBVIOUS
      <4>2. IsWritten(x, w, p, a) /\ Extends(w, WorldNow) /\ WorldOK(w)
        BY <2>4, <3>1, <3>3, <4>1 DEF RowByRow
      <4>3. w.orders[i].no = o.no /\ w.orders[i].value[f] = o.value[f] /\ w.orders[i].stamp[f] = o.stamp[f]
        BY <2>7, <2>9, <4>1
      <4>4. k \in Applied(b)
        BY <2>5, <3>3 DEF Applied
      <4>5. i \in DOMAIN w.orders
        <5>1. WorldNow.orders = orders
          BY DEF WorldNow
        <5>2. Len(orders) <= Len(w.orders)
          BY <4>2, <5>1 DEF Extends
        <5>3. Len(orders) \in Nat /\ DOMAIN orders = 1..Len(orders)
          BY <1>1, SeqIsFunction DEF IInv, RowsOK
        <5> QED
          BY <4>2, <5>2, <5>3, WorldsAreSequences
      <4>6. CASE y = w.orders[i]
        BY <2>7, <3>1, <4>1, <4>3, <4>6
      <4>7. CASE y # w.orders[i]
        <5>1. o.no = p.row.no /\ IsMerged(y, w.orders[i], p.patch, ChoiceFor(a), f)
          BY <4>1, <4>2, <4>3, <4>5, <4>7 DEF IsWritten
        <5>2. p.patch.at = o.stamp[f]
          BY <1>1, <2>6, <4>1, <4>4, <5>1
        <5>3. ChoiceFor(a) # "ACCEPT_INCOMING"
          BY <2>1, <4>1, <4>4, ChoicesAreMade
        <5>4. o.stamp[f] \in Nat /\ o.stamp[f] # Blank
          <6>1. PatchOK(p.patch)
            <7>1. BatchOK(batch[b], Len(customers))
              BY <1>1 DEF IInv
            <7> QED
              BY <2>5, <3>3, <4>1, <7>1 DEF BatchOK, PlanOK
          <6> QED
            BY <5>2, <6>1, BlankIsNoNumber DEF PatchOK
        <5>5. y.value[f] = o.value[f] /\ y.stamp[f] = o.stamp[f]
          BY <4>3, <5>1, <5>2, <5>3, <5>4 DEF IsMerged
        <5>6. y.no = o.no
          <6>1. Extends(x, w)
            BY <4>2 DEF IsWritten
          <6> QED
            BY <4>1, <4>3, <4>5, <6>1 DEF Extends
        <5> QED
          BY <2>7, <3>1, <4>1, <5>5, <5>6
      <4> QED
        BY <4>6, <4>7
    <3> QED
      BY <3>2, <3>3
  <2>10. n \in S
    <3>1. \A k \in 0..n : k \in S
      BY <2>5, <2>8, <2>9, StepByStep
    <3> QED
      BY <2>5, <3>1
  <2> QED
    BY <1>1, <2>4, <2>6, <2>7, <2>10
<1>2. IInv /\ [Next]_vars =>
        [\A i \in DOMAIN orders : \A f \in Field : \A b \in Batch :
            (Commits(b) /\ orders[i].value[f] # Blank /\ orders'[i].value[f] # orders[i].value[f]
                /\ \A j \in Applied(b) : batch[b].plans[j].row.no = orders[i].no
                    => batch[b].plans[j].patch.at = orders[i].stamp[f])
            => \E j \in Applied(b) : "ACCEPT_INCOMING" \in Range(batch[b].conflicts[j])]_vars
  BY <1>1
<1> QED
  BY <1>2, InitIsSound, NextIsSound, PTL DEF Spec, SameDayIsAsked

(* A row somebody decided to keep apart never joins a customer known for   *)
(* another order, however many customers other imports have made since.    *)
THEOREM ApartAlwaysStaysApart == Spec => ApartStaysApart
<1>1. ASSUME IInv, [Next]_vars, NEW b \in Batch, Commits(b), NEW j \in Applied(b), NEW p, p = batch[b].plans[j],
             p.separate
      PROVE  \E i \in DOMAIN orders' :
                /\ orders'[i].no = p.row.no
                /\ \/ orders'[i].customer \notin DOMAIN customers
                   \/ customers[orders'[i].customer].key[3] = p.row.no
  <2>1. PICK u \in People : Commit(b, u)
    BY <1>1, OnlyCommitCommits
  <2>2. PICK n, W : n = Len(batch[b].plans) /\ W = Written(b)
    OBVIOUS
  <2>3. RowByRow(b, W, n) /\ orders' = W[n].orders
    BY <1>1, <2>1, <2>2, CommitEnds
  <2>4. n \in Nat /\ j \in 1..n /\ p.what = "ROW"
    BY <1>1, <2>3 DEF RowByRow, Applied
  <2>5. IsWritten(W[j], W[j-1], p, batch[b].conflicts[j])
    BY <1>1, <2>3, <2>4 DEF RowByRow
  <2>6. PICK i \in DOMAIN W[j].orders : /\ W[j].orders[i].no = p.row.no
                                        /\ W[j].customers[W[j].orders[i].customer].key[3] = p.row.no
    BY <1>1, <2>5 DEF IsWritten
  <2>7. \A k \in 0..n : WorldOK(W[k]) /\ Extends(W[k], WorldNow)
    BY <2>3 DEF RowByRow
  <2>8. Extends(W[n], W[j])
    <3>1. PICK S : S = {k \in 0..n : k >= j => Extends(W[k], W[j])}
      OBVIOUS
    <3>2. 0 \in S
      BY <2>4, <3>1
    <3>3. ASSUME NEW k \in 1..n, k - 1 \in S PROVE k \in S
      <4>1. k - 1 \in 0..n /\ k \in 0..n /\ j \in 0..n
        BY <2>4
      <4>2. CASE k < j
        BY <2>4, <3>1, <4>1, <4>2
      <4>3. CASE k = j
        BY <2>7, <3>1, <4>1, <4>3, NothingChanges
      <4>4. CASE k > j
        <5>1. k - 1 >= j
          BY <2>4, <4>4
        <5>2. Extends(W[k-1], W[j])
          BY <3>1, <3>3, <5>1
        <5>3. Extends(W[k], W[k-1])
          <6>1. CASE batch[b].plans[k].what = "ROW"
            BY <2>3, <6>1 DEF RowByRow, IsWritten
          <6>2. CASE batch[b].plans[k].what # "ROW"
            <7>1. W[k] = W[k-1]
              BY <2>3, <6>2 DEF RowByRow
            <7> QED
              BY <2>7, <4>1, <7>1, NothingChanges
          <6> QED
            BY <6>1, <6>2
        <5>4. Extends(W[k], W[j])
          BY <2>7, <4>1, <5>2, <5>3, ExtendingGoesOn
        <5> QED
          BY <3>1, <4>1, <5>4
      <4> QED
        BY <2>4, <4>2, <4>3, <4>4
    <3>4. \A k \in 0..n : k \in S
      BY <2>4, <3>2, <3>3, StepByStep
    <3> QED
      BY <2>4, <3>1, <3>4
  <2>9. PICK w, v, c : w = W[j] /\ v = W[n] /\ c = w.orders[i].customer
    OBVIOUS
  <2>10. WorldOK(w) /\ WorldOK(v) /\ Extends(v, w) /\ Extends(v, WorldNow)
    BY <2>4, <2>7, <2>8, <2>9
  <2>11. i \in DOMAIN v.orders /\ v.orders[i].no = p.row.no /\ v.orders[i].customer = c
    <3>1. /\ Len(w.orders) \in Nat /\ DOMAIN w.orders = 1..Len(w.orders)
          /\ Len(v.orders) \in Nat /\ DOMAIN v.orders = 1..Len(v.orders)
      BY <2>10, WorldsAreSequences
    <3>2. i \in DOMAIN w.orders /\ w.orders[i].no = p.row.no /\ w.orders[i].customer = c
      BY <2>6, <2>9
    <3>3. v.orders[i].no = w.orders[i].no /\ v.orders[i].customer = w.orders[i].customer
      BY <2>10, <3>2 DEF Extends
    <3>4. Len(w.orders) <= Len(v.orders)
      BY <2>10 DEF Extends
    <3>5. i \in DOMAIN v.orders
      BY <3>1, <3>2, <3>4
    <3> QED
      BY <3>2, <3>3, <3>5
  <2>12. c \in DOMAIN w.customers /\ v.customers[c].key[3] = p.row.no
    <3>1. c \in DOMAIN w.customers
      BY <2>6, <2>9, <2>10, WorldsAreSequences
    <3> QED
      BY <2>6, <2>9, <2>10, <3>1 DEF Extends
  <2>13. c \in DOMAIN customers => customers[c].key[3] = p.row.no
    <3>1. WorldNow.customers = customers
      BY DEF WorldNow
    <3> QED
      BY <2>10, <2>12, <3>1 DEF Extends
  <2> QED
    BY <2>3, <2>9, <2>11, <2>13
<1>2. IInv /\ [Next]_vars =>
        [\A b \in Batch : Commits(b) =>
            \A j \in Applied(b) : LET p == batch[b].plans[j] IN
                p.separate => \E i \in DOMAIN orders' :
                    /\ orders'[i].no = p.row.no
                    /\ \/ orders'[i].customer \notin DOMAIN customers
                       \/ customers[orders'[i].customer].key[3] = p.row.no]_vars
  BY <1>1
<1> QED
  BY <1>2, InitIsSound, NextIsSound, PTL DEF Spec, ApartStaysApart

(* A batch in which nothing was asked after its preview is written only    *)
(* under the settled decisions its plans were made from.                   *)
THEOREM DecisionsStand == Spec => DecisionsStandAtCommit
<1>1. ASSUME IInv, [Next]_vars, NEW b \in Batch, Commits(b), \A c \in Range(batch[b].conflicts) : c = <<>>,
             NEW j \in Applied(b), NEW d \in batch[b].plans[j].used
      PROVE  decision[d].status = "RESOLVED"
  <2>1. PICK x : x = batch[b]
    OBVIOUS
  <2>2. BatchOK(x, Len(customers))
    BY <1>1, <2>1 DEF IInv
  <2>3. \A k \in DOMAIN x.conflicts : x.conflicts[k] = <<>>
    BY <1>1, <2>1 DEF Range
  <2>4. j \in DOMAIN x.plans /\ x.plans[j].what = "ROW" /\ d \in x.plans[j].used
    BY <1>1, <2>1 DEF Applied
  <2>5. \A y \in x.digest : y[1] = d => y[2] = "RESOLVED"
    BY <2>2, <2>3, <2>4 DEF BatchOK, PlannedOnSettled
  <2>6. PICK u \in People : Commit(b, u)
    BY <1>1, OnlyCommitCommits
  <2>7. x.digest = Live(Used(x.plans))
    BY <2>1, <2>6 DEF Commit, DigestHolds
  <2>8. d \in Used(x.plans)
    BY <2>4 DEF Used, Range
  <2>9. <<d, decision[d].status, decision[d].revision>> \in x.digest
    BY <2>7, <2>8 DEF Live
  <2> QED
    BY <2>5, <2>9
<1>2. IInv /\ [Next]_vars =>
        [\A b \in Batch : Commits(b) /\ (\A c \in Range(batch[b].conflicts) : c = <<>>)
            => \A j \in Applied(b) : Standing(batch[b].plans[j])]_vars
  BY <1>1 DEF Standing
<1> QED
  BY <1>2, InitIsSound, NextIsSound, PTL DEF Spec, DecisionsStandAtCommit
=============================================================================
