------------------------ MODULE LeadOwnershipProofs ------------------------
(***************************************************************************)
(* Proofs about LeadOwnership, for every set of leads, workers and users,  *)
(* every policy and every bound.                                           *)
(***************************************************************************)
EXTENDS LeadOwnership, SequenceTheorems, TLAPS

(* Instants are natural numbers, so none of them is NoTime. *)
LEMMA InstantIsNat == Instant \subseteq Nat /\ NoTime \notin Instant
  BY BoundsAreNat DEF Instant, NoTime

(* NoTime is an integer below every instant.                               *)
LEMMA NoTimeIsInt == NoTime \in Int
  BY DEF NoTime

-----------------------------------------------------------------------------
(* Facts about a history that tiles.                                       *)

(* Only the last segment of a tiling history is open.                      *)
LEMMA OpenIsLast ==
    ASSUME NEW s \in Seq(Segment), Tiles(s)
    PROVE  OpenSegments(s) = IF s = <<>> THEN {} ELSE {Len(s)}
  BY DEF Tiles, OpenSegments

(* The clamp: the handover of a tiling history happens at the requested    *)
(* instant or at the start of the open segment, whichever is later.        *)
LEMMA BoundaryIsClamped ==
    ASSUME NEW s \in Seq(Segment), Tiles(s), NEW at \in Instant
    PROVE  /\ Boundary(s, at) \in Instant
           /\ Boundary(s, at) >= at
           /\ s # <<>> => Boundary(s, at) >= s[Len(s)].start
           /\ s # <<>> => Boundary(s, at) \in {at, s[Len(s)].start}
           /\ s = <<>> => Boundary(s, at) = at
<1>1. CASE s = <<>>
  <2>1. OpenSegments(s) = {}
    BY <1>1, OpenIsLast
  <2>2. Boundary(s, at) = at
    BY <2>1 DEF Boundary
  <2> QED
    BY <1>1, <2>2, InstantIsNat
<1>2. CASE s # <<>>
  <2>1. OpenSegments(s) = {Len(s)} /\ Len(s) \in DOMAIN s
    BY <1>2, OpenIsLast
  <2>2. s[Len(s)] \in Segment /\ s[Len(s)].start \in Instant
    <3>1. s[Len(s)] \in Segment
      BY <1>2
    <3> QED
      BY <3>1 DEF Segment
  <2>3. (CHOOSE i \in OpenSegments(s) : TRUE) = Len(s)
    BY <2>1
  <2>4. Boundary(s, at) = IF at < s[Len(s)].start THEN s[Len(s)].start ELSE at
    BY <2>1, <2>3 DEF Boundary
  <2>5. at \in Nat /\ s[Len(s)].start \in Nat
    BY <2>2, InstantIsNat
  <2> QED
    BY <1>2, <2>2, <2>4, <2>5
<1> QED
  BY <1>1, <1>2

(* A handover at or after the start of the open segment keeps the history  *)
(* tiling and makes the new holder the owner of its open segment.          *)
LEMMA HandoverTiles ==
    ASSUME NEW s \in Seq(Segment), Tiles(s), NEW to \in Holder, NEW at \in Instant,
           s # <<>> => at >= s[Len(s)].start
    PROVE  /\ Handover(s, to, at) \in Seq(Segment)
           /\ Tiles(Handover(s, to, at))
           /\ RowMatches(Handover(s, to, at), at, to)
<1> DEFINE closed == [i \in DOMAIN s |->
                         IF i \in OpenSegments(s) THEN [s[i] EXCEPT !.end = at] ELSE s[i]]
           last == [caretaker |-> to, start |-> at, end |-> NoTime]
           h == Handover(s, to, at)
<1>1. last \in Segment
  BY DEF Segment
<1>2. \A i \in DOMAIN s : closed[i] \in Segment
  <2>1. \A i \in DOMAIN s : s[i] \in Segment
    OBVIOUS
  <2>2. at \in Instant \cup {NoTime}
    OBVIOUS
  <2> QED
    BY <2>1, <2>2 DEF Segment
<1>3. closed \in Seq(Segment) /\ Len(closed) = Len(s)
  BY <1>2
<1>4. /\ h \in Seq(Segment)
      /\ Len(h) = Len(s) + 1
      /\ h[Len(s) + 1] = last
      /\ \A i \in 1..Len(s) : h[i] = closed[i]
  BY <1>1, <1>3 DEF Handover
<1>5. at # NoTime
  BY InstantIsNat
<1>6. \A i \in 1..Len(s) : /\ h[i].start = s[i].start
                           /\ h[i].end = IF i = Len(s) THEN at ELSE s[i].end
                           /\ h[i].end # NoTime
  <2> TAKE i \in 1..Len(s)
  <2>1. s # <<>> /\ s[i] \in Segment
    OBVIOUS
  <2>2. i \in OpenSegments(s) <=> i = Len(s)
    BY <2>1, OpenIsLast
  <2>3. closed[i] = IF i = Len(s) THEN [s[i] EXCEPT !.end = at] ELSE s[i]
    BY <2>2
  <2>4. s[i].end = NoTime <=> i = Len(s)
    BY DEF Tiles
  <2>5. h[i] = IF i = Len(s) THEN [s[i] EXCEPT !.end = at] ELSE s[i]
    BY <1>4, <2>3
  <2> QED
    BY <1>5, <2>1, <2>4, <2>5 DEF Segment
<1>7. Tiles(h)
  <2>1. \A i \in DOMAIN h : h[i].end = NoTime <=> i = Len(h)
    BY <1>4, <1>5, <1>6
  <2>2. ASSUME NEW i \in 1..(Len(h) - 1)
        PROVE  h[i].end = h[i+1].start /\ h[i].start <= h[i].end
    <3>1. i \in 1..Len(s)
      BY <1>4
    <3>2. CASE i = Len(s)
      BY <1>4, <1>6, <3>1, <3>2
    <3>3. CASE i # Len(s)
      <4>1. i + 1 \in 1..Len(s) /\ i \in 1..(Len(s) - 1)
        BY <3>1, <3>3
      <4> QED
        BY <1>6, <3>1, <3>3, <4>1 DEF Tiles
    <3> QED
      BY <3>2, <3>3
  <2> QED
    BY <2>1, <2>2 DEF Tiles
<1> QED
  BY <1>4, <1>7 DEF RowMatches
-----------------------------------------------------------------------------
(* The parts of the invariant that describe a running transaction.         *)

(* Whoever decided a lead, or is about to, holds its row lock.             *)
DecidedUnderLock ==
    \A w \in Worker, l \in Lead :
        l \in Written(w) \/ txn[w].cur = l => lock[l] = w

(* An order has a business time, and a lead is decided at most once.       *)
OrdersHaveTime == \A w \in Worker : txn[w].op = "order" => txn[w].at \in Instant
DecidedOnce ==
    \A w \in Worker :
        /\ txn[w].cur \notin txn[w].todo
        /\ \A l \in Written(w) : l \notin txn[w].todo /\ l # txn[w].cur

-----------------------------------------------------------------------------
(* Type correctness.                                                       *)

(* A fresh transaction is a transaction,                                   *)
LEMMA StartIsTxn ==
    ASSUME NEW op \in {"idle", "reassign", "assign_owner", "order", "reconcile"},
           NEW who \in Holder, NEW at \in Instant \cup {NoTime},
           NEW form \in Version \cup {NoVersion}, NEW todo \in SUBSET Lead
    PROVE  Start(op, who, at, form, todo) \in Txn
  BY DEF Start, Txn

(* and so is the idle one.                                                 *)
LEMMA IdleIsTxn == Idle \in Txn
<1>1. NoUser \in Holder
  BY DEF Holder
<1> QED
  BY <1>1, StartIsTxn DEF Idle

(* Whatever a decision writes, it is a holder and an instant, or nothing.  *)
LEMMA DecisionIsWrite ==
    ASSUME TypeOK, OrdersHaveTime, NEW w \in Worker, NEW l \in Lead
    PROVE  Decision(w, l) \in Write \cup {NoWrite}
<1>1. /\ txn[w] \in Txn /\ caretaker[l] \in Holder
      /\ startedAt[l] \in Instant \cup {NoTime} /\ now \in Instant
  BY DEF TypeOK
<1>2. txn[w].who \in Holder /\ Effective(txn[w].who) \in Holder
  BY <1>1 DEF Txn, Effective, Holder
<1>3. Resolve(l, Effective(txn[w].who)) \in Holder
  BY <1>1, <1>2 DEF Resolve
<1>4. txn[w].op = "order" => txn[w].at \in Instant
  BY DEF OrdersHaveTime
<1>5. \A to \in Holder, at \in Instant : [to |-> to, at |-> at] \in Write
  BY DEF Write
<1>6. CASE txn[w].op = "order"
  BY <1>3, <1>4, <1>5, <1>6 DEF Decision
<1>7. CASE txn[w].op = "reconcile"
  BY <1>1, <1>2, <1>5, <1>7 DEF Decision
<1>8. CASE txn[w].op \notin {"order", "reconcile"}
  BY <1>1, <1>2, <1>5, <1>8 DEF Decision
<1> QED
  BY <1>6, <1>7, <1>8

-----------------------------------------------------------------------------
(* The inductive invariant.  Type correctness alone is not inductive: the  *)
(* handover of a commit stays a sequence of segments only because the      *)
(* histories tile, which they do because the row agrees with the open      *)
(* segment, and a decision is still right at the commit because it was     *)
(* made, once, under the row lock.                                         *)

IInv ==
    /\ TypeOK
    /\ OrdersHaveTime
    /\ SegmentsTile
    /\ RowMatchesOpenSegment
    /\ DecidedUnderLock
    /\ DecidedOnce
    /\ OrderDecisionStands

(* The invariant holds initially.                                          *)
LEMMA InitIInv == Init => IInv
<1> SUFFICES ASSUME Init PROVE IInv
  OBVIOUS
<1>1. 0 \in Instant /\ 1 \in Version /\ NoUser \in Holder
  BY BoundsAreNat, MaxVersionIsNat DEF Instant, Version, Holder
<1>2. TypeOK
  <2>1. RowTypeOK
    BY <1>1 DEF Init, RowInit, RowTypeOK
  <2>2. segments \in [Lead -> Seq(Segment)]
    <3>1. [caretaker |-> NoUser, start |-> 0, end |-> NoTime] \in Segment
      BY <1>1 DEF Segment
    <3> QED
      BY <3>1 DEF Init
  <2>3. txn \in [Worker -> Txn]
    BY IdleIsTxn DEF Init
  <2>4. startedAt \in [Lead -> Instant \cup {NoTime}]
    BY <1>1 DEF Init
  <2> QED
    BY <1>1, <2>1, <2>2, <2>3, <2>4 DEF Init, TypeOK
<1>3. OrdersHaveTime /\ \A w \in Worker : Written(w) = {} /\ txn[w].cur \notin Lead
                                            /\ txn[w].todo = {}
  BY NullsAreNull DEF Init, OrdersHaveTime, Idle, Start, Written
<1>4. SegmentsTile /\ RowMatchesOpenSegment
  <2> SUFFICES ASSUME NEW l \in Lead
               PROVE  Tiles(segments[l]) /\ RowMatches(segments[l], startedAt[l], caretaker[l])
    BY DEF SegmentsTile, RowMatchesOpenSegment
  <2>1. CASE startedAt[l] = NoTime
    BY <2>1 DEF Init, Tiles, RowMatches
  <2>2. CASE startedAt[l] # NoTime
    <3>1. startedAt[l] = 0 /\ caretaker[l] = NoUser
          /\ segments[l] = <<[caretaker |-> NoUser, start |-> 0, end |-> NoTime]>>
      BY <2>2 DEF Init
    <3> QED
      BY <3>1 DEF Tiles, RowMatches
  <2> QED
    BY <2>1, <2>2
<1> QED
  BY <1>2, <1>3, <1>4 DEF IInv, DecidedUnderLock, DecidedOnce, OrderDecisionStands

(* Steps that leave the leads, the locks and the transactions alone.       *)
LEMMA QuietStep ==
    ASSUME IInv, TypeOK', UNCHANGED <<lock, ownerVars, txn>>
    PROVE  IInv'
<1> USE DEF IInv
<1>1. \A w \in Worker : Written(w)' = Written(w)
  BY DEF Written
<1>2. OrdersHaveTime' /\ DecidedUnderLock' /\ DecidedOnce'
  BY <1>1 DEF OrdersHaveTime, DecidedUnderLock, DecidedOnce, ownerVars
<1>3. SegmentsTile' /\ RowMatchesOpenSegment'
  BY DEF SegmentsTile, RowMatchesOpenSegment, ownerVars
<1>4. OrderDecisionStands'
  BY <1>1 DEF OrderDecisionStands, Eligible, ownerVars
<1> QED
  BY <1>2, <1>3, <1>4

(* A new transaction has written nothing and locked nothing.               *)
LEMMA BeginStep ==
    ASSUME IInv, NEW w \in Worker,
           NEW op \in {"reassign", "assign_owner", "order", "reconcile"},
           NEW who \in Holder, NEW at \in Instant \cup {NoTime}, op = "order" => at \in Instant,
           NEW form \in Version \cup {NoVersion}, NEW todo \in SUBSET Lead,
           Begin(w, Start(op, who, at, form, todo)), pending' \subseteq User
    PROVE  IInv'
<1> USE DEF IInv
<1> DEFINE t == Start(op, who, at, form, todo)
<1>1. t \in Txn
  BY StartIsTxn
<1>2. txn' = [txn EXCEPT ![w] = t] /\ UNCHANGED <<rowVars, account, ownerVars, now, forms>>
  BY DEF Begin
<1>3. TypeOK'
  BY <1>1, <1>2 DEF TypeOK, RowTypeOK, rowVars, ownerVars
<1>4. t.op = op /\ t.at = at /\ t.cur = NoLead /\ t.todo = todo /\ \A l \in Lead : t.writes[l] = NoWrite
  BY DEF Start
<1>5. ASSUME NEW v \in Worker, v # w PROVE txn'[v] = txn[v] /\ Written(v)' = Written(v)
  BY <1>2, <1>5 DEF TypeOK, Written
<1>6. txn'[w] = t /\ Written(w)' = {}
  BY <1>2, <1>4 DEF TypeOK, Written
<1>7. OrdersHaveTime'
  BY <1>4, <1>5, <1>6 DEF OrdersHaveTime
<1>8. DecidedUnderLock' /\ DecidedOnce'
  BY <1>2, <1>4, <1>5, <1>6, NullsAreNull DEF DecidedUnderLock, DecidedOnce, rowVars
<1>9. SegmentsTile' /\ RowMatchesOpenSegment'
  BY <1>2 DEF SegmentsTile, RowMatchesOpenSegment, ownerVars
<1>10. OrderDecisionStands'
  BY <1>2, <1>5, <1>6 DEF OrderDecisionStands, Eligible, ownerVars
<1> QED
  BY <1>3, <1>7, <1>8, <1>9, <1>10

(* Deleting an account empties its leads and its segments alike.           *)
LEMMA DeleteUserStep ==
    ASSUME IInv, NEW u \in User, DeleteUser(u)
    PROVE  IInv'
<1> USE DEF IInv
<1>1. TypeOK'
  <2>1. caretaker' \in [Lead -> Holder]
    BY DEF DeleteUser, TypeOK, Holder
  <2>2. segments' \in [Lead -> Seq(Segment)]
    <3> SUFFICES ASSUME NEW l \in Lead
                 PROVE  segments'[l] \in Seq(Segment)
      BY DEF DeleteUser
    <3>1. segments[l] \in Seq(Segment)
      BY DEF TypeOK
    <3>2. segments'[l] = [i \in DOMAIN segments[l] |->
             IF segments[l][i].caretaker = u
             THEN [segments[l][i] EXCEPT !.caretaker = NoUser] ELSE segments[l][i]]
      BY DEF DeleteUser
    <3>3. \A i \in DOMAIN segments[l] : segments[l][i] \in Segment
      BY <3>1
    <3>4. \A x \in Segment : [x EXCEPT !.caretaker = NoUser] \in Segment
      BY DEF Segment, Holder
    <3>5. \A i \in DOMAIN segments[l] : segments'[l][i] \in Segment
      BY <3>2, <3>3, <3>4
    <3>6. DOMAIN segments[l] = 1..Len(segments[l]) /\ Len(segments[l]) \in Nat
      BY <3>1
    <3>7. segments'[l] \in [1..Len(segments[l]) -> Segment]
      BY <3>2, <3>5, <3>6
    <3> QED
      BY <3>6, <3>7
  <2> QED
    BY <2>1, <2>2 DEF DeleteUser, TypeOK, RowTypeOK, rowVars
<1>2. SegmentsTile' /\ RowMatchesOpenSegment'
  <2> SUFFICES ASSUME NEW l \in Lead
               PROVE  /\ Tiles(segments'[l])
                      /\ RowMatches(segments'[l], startedAt'[l], caretaker'[l])
    BY DEF SegmentsTile, RowMatchesOpenSegment
  <2>1. segments[l] \in Seq(Segment) /\ caretaker[l] \in Holder
    BY DEF TypeOK
  <2>2. /\ Len(segments'[l]) = Len(segments[l]) /\ DOMAIN segments'[l] = DOMAIN segments[l]
        /\ segments'[l] = <<>> <=> segments[l] = <<>>
        /\ \A i \in DOMAIN segments[l] :
              /\ segments'[l][i].start = segments[l][i].start
              /\ segments'[l][i].end = segments[l][i].end
              /\ segments'[l][i].caretaker =
                    IF segments[l][i].caretaker = u THEN NoUser ELSE segments[l][i].caretaker
    BY <2>1 DEF DeleteUser, Segment
  <2>3. Tiles(segments'[l])
    BY <2>1, <2>2 DEF SegmentsTile, Tiles
  <2>4. caretaker'[l] = (IF caretaker[l] = u THEN NoUser ELSE caretaker[l])
        /\ startedAt'[l] = startedAt[l]
    BY DEF DeleteUser
  <2>5. RowMatches(segments[l], startedAt[l], caretaker[l])
    BY DEF RowMatchesOpenSegment
  <2>6. RowMatches(segments'[l], startedAt'[l], caretaker'[l])
    BY <2>1, <2>2, <2>4, <2>5, NullsAreNull DEF RowMatches
  <2> QED
    BY <2>3, <2>6
<1>3. \A w \in Worker : Written(w)' = Written(w)
  BY DEF DeleteUser, Written
<1>4. OrdersHaveTime' /\ DecidedUnderLock' /\ DecidedOnce'
  BY <1>3 DEF DeleteUser, OrdersHaveTime, DecidedUnderLock, DecidedOnce, rowVars
<1>5. OrderDecisionStands'
  BY <1>3, FreeIsNoWorker
     DEF DeleteUser, OrderDecisionStands, DecidedUnderLock, Unlocked, Eligible
<1> QED
  BY <1>1, <1>2, <1>4, <1>5

(* A lock is taken only where nobody has decided.                          *)
LEMMA LockLeadStep ==
    ASSUME IInv, NEW w \in Worker, NEW l \in Lead, LockLead(w, l)
    PROVE  IInv'
<1> USE DEF IInv
<1>1. /\ lock[l] = Free /\ lock' = [lock EXCEPT ![l] = w]
      /\ l \in txn[w].todo
      /\ txn' = [txn EXCEPT ![w].cur = l, ![w].todo = @ \ {l}]
      /\ UNCHANGED <<version, account, pending, ownerVars, now, forms>>
  BY DEF LockLead, Acquire, Unlocked
<1>2. txn[w] \in Txn /\ l \in Lead \cup {NoLead}
  BY DEF TypeOK
<1>3. txn'[w] = [txn[w] EXCEPT !.cur = l, !.todo = @ \ {l}] /\ txn'[w] \in Txn
  BY <1>1, <1>2 DEF TypeOK, Txn
<1>4. TypeOK'
  BY <1>1, <1>3 DEF TypeOK, RowTypeOK, ownerVars
<1>5. \A v \in Worker : /\ txn'[v].op = txn[v].op /\ txn'[v].at = txn[v].at
                        /\ txn'[v].writes = txn[v].writes /\ Written(v)' = Written(v)
  BY <1>1, <1>2, <1>3 DEF TypeOK, Txn, Written
<1>6. \A v \in Worker : v # w => txn'[v] = txn[v]
  BY <1>1 DEF TypeOK
<1>7. txn'[w].cur = l /\ txn'[w].todo = txn[w].todo \ {l}
  BY <1>2, <1>3 DEF Txn
<1>8. OrdersHaveTime'
  BY <1>5 DEF OrdersHaveTime
<1>9. DecidedUnderLock'
  <2> SUFFICES ASSUME NEW v \in Worker, NEW k \in Lead, k \in Written(v)' \/ txn'[v].cur = k
               PROVE  lock'[k] = v
    BY DEF DecidedUnderLock
  <2>1. CASE k = l
    <3>1. v = w
      <4>1. SUFFICES ASSUME v # w PROVE FALSE
        OBVIOUS
      <4>2. txn'[v] = txn[v] /\ Written(v)' = Written(v)
        BY <1>5, <1>6, <4>1
      <4>3. l \in Written(v) \/ txn[v].cur = l
        BY <2>1, <4>2
      <4>4. lock[l] = v
        BY <1>1, <4>3 DEF DecidedUnderLock
      <4> QED
        BY <1>1, <4>4, FreeIsNoWorker
    <3> QED
      BY <1>1, <2>1, <3>1 DEF TypeOK, RowTypeOK
  <2>2. CASE k # l
    <3>1. lock[k] = v
      BY <1>5, <1>6, <1>7, <2>2 DEF DecidedUnderLock
    <3> QED
      BY <1>1, <2>2, <3>1 DEF TypeOK, RowTypeOK
  <2> QED
    BY <2>1, <2>2
<1>10. DecidedOnce'
  <2> SUFFICES ASSUME NEW v \in Worker
               PROVE  /\ txn'[v].cur \notin txn'[v].todo
                      /\ \A k \in Written(v)' : k \notin txn'[v].todo /\ k # txn'[v].cur
    BY DEF DecidedOnce
  <2>1. Written(v)' = Written(v)
    BY <1>5
  <2>2. CASE v = w
    BY <1>1, <1>7, <2>1, <2>2 DEF DecidedOnce
  <2>3. CASE v # w
    BY <1>6, <2>1, <2>3 DEF DecidedOnce
  <2> QED
    BY <2>2, <2>3
<1>11. SegmentsTile' /\ RowMatchesOpenSegment'
  BY <1>1 DEF SegmentsTile, RowMatchesOpenSegment, ownerVars
<1>12. OrderDecisionStands'
  BY <1>1, <1>5 DEF OrderDecisionStands, Eligible, ownerVars
<1> QED
  BY <1>4, <1>8, <1>9, <1>10, <1>11, <1>12

(* What an order decides is right for the lead it has locked.              *)
LEMMA OrderDecision ==
    ASSUME NEW w \in Worker, NEW l \in Lead, txn[w].op = "order",
           Decision(w, l) # NoWrite
    PROVE  /\ Eligible(txn[w].at, l)
           /\ Policy[l] = "EXCLUSIVE" => caretaker[l] = NoUser
           /\ Decision(w, l).to # caretaker[l]
  BY DEF Decision, Resolve

(* A decision takes effect on the locked lead only.                        *)
LEMMA DecideStep ==
    ASSUME IInv, NEW w \in Worker, Decide(w)
    PROVE  IInv'
<1> USE DEF IInv
<1> DEFINE l == txn[w].cur
           d == Decision(w, l)
<1>1. /\ l \in Lead
      /\ txn' = [txn EXCEPT ![w].cur = NoLead, ![w].writes[l] = d]
      /\ UNCHANGED <<rowVars, account, pending, ownerVars, now, forms>>
  BY DEF Decide, TypeOK, Txn
<1>2. txn[w] \in Txn /\ d \in Write \cup {NoWrite}
  BY <1>1, DecisionIsWrite DEF TypeOK
<1> HIDE DEF d
<1>3. txn'[w] = [txn[w] EXCEPT !.cur = NoLead, !.writes[l] = d] /\ txn'[w] \in Txn
  BY <1>1, <1>2 DEF TypeOK, Txn
<1>4. TypeOK'
  BY <1>1, <1>3 DEF TypeOK, RowTypeOK, ownerVars, rowVars
<1>5. \A v \in Worker : v # w => txn'[v] = txn[v] /\ Written(v)' = Written(v)
  BY <1>1 DEF TypeOK, Written
<1>6. /\ txn'[w].op = txn[w].op /\ txn'[w].at = txn[w].at
      /\ txn'[w].cur = NoLead /\ txn'[w].todo = txn[w].todo
      /\ \A k \in Lead : txn'[w].writes[k] = IF k = l THEN d ELSE txn[w].writes[k]
  <2>1. DOMAIN txn[w].writes = Lead
    BY <1>2 DEF Txn
  <2>2. txn'[w].writes = [txn[w].writes EXCEPT ![l] = d]
    BY <1>2, <1>3 DEF Txn
  <2>3. /\ txn'[w].op = txn[w].op /\ txn'[w].at = txn[w].at
        /\ txn'[w].cur = NoLead /\ txn'[w].todo = txn[w].todo
    BY <1>2, <1>3 DEF Txn
  <2> QED
    BY <2>1, <2>2, <2>3
<1>7. Written(w)' \subseteq Written(w) \cup {l}
  BY <1>6 DEF Written
<1>8. OrdersHaveTime'
  BY <1>5, <1>6 DEF OrdersHaveTime
<1>9. DecidedUnderLock'
  <2> SUFFICES ASSUME NEW v \in Worker, NEW k \in Lead, k \in Written(v)' \/ txn'[v].cur = k
               PROVE  lock[k] = v
    BY <1>1 DEF DecidedUnderLock, rowVars
  <2>1. CASE v = w
    BY <1>6, <1>7, <2>1, NullsAreNull DEF DecidedUnderLock
  <2>2. CASE v # w
    BY <1>5, <2>2 DEF DecidedUnderLock
  <2> QED
    BY <2>1, <2>2
<1>10. DecidedOnce'
  <2> SUFFICES ASSUME NEW v \in Worker
               PROVE  /\ txn'[v].cur \notin txn'[v].todo
                      /\ \A k \in Written(v)' : k \notin txn'[v].todo /\ k # txn'[v].cur
    BY DEF DecidedOnce
  <2>1. CASE v = w
    <3>1. txn[w].todo \subseteq Lead /\ l \notin txn[w].todo
      BY <1>2 DEF Txn, DecidedOnce
    <3>2. \A k \in Written(w)' : k \in Lead /\ k \notin txn[w].todo
      BY <1>7, <3>1 DEF DecidedOnce, Written
    <3> QED
      BY <1>6, <2>1, <3>1, <3>2, NullsAreNull
  <2>2. CASE v # w
    BY <1>5, <2>2 DEF DecidedOnce
  <2> QED
    BY <2>1, <2>2
<1>11. SegmentsTile' /\ RowMatchesOpenSegment'
  BY <1>1 DEF SegmentsTile, RowMatchesOpenSegment, ownerVars
<1>12. \A v \in Worker : txn'[v].at = txn[v].at
  BY <1>5, <1>6
<1>13. OrderDecisionStands'
  <2> SUFFICES ASSUME NEW v \in Worker, NEW k \in Lead,
                      txn'[v].op = "order", k \in Written(v)'
               PROVE  /\ Eligible(txn[v].at, k)
                      /\ Policy[k] = "EXCLUSIVE" => caretaker[k] = NoUser
                      /\ txn'[v].writes[k].to # caretaker[k]
    BY <1>1, <1>12 DEF OrderDecisionStands, Eligible, ownerVars
  <2>1. CASE v = w /\ k = l
    <3>1. d # NoWrite
      BY <1>6, <2>1 DEF Written
    <3>2. txn[w].op = "order" /\ txn'[w].writes[l] = d
      BY <1>1, <1>6, <2>1
    <3>3. /\ Eligible(txn[w].at, l)
          /\ Policy[l] = "EXCLUSIVE" => caretaker[l] = NoUser
          /\ d.to # caretaker[l]
      BY <1>1, <3>1, <3>2, OrderDecision DEF d
    <3> QED
      BY <2>1, <3>2, <3>3
  <2>2. CASE ~(v = w /\ k = l)
    <3>1. k \in Written(v) /\ txn[v].op = "order" /\ txn'[v].writes[k] = txn[v].writes[k]
      BY <1>5, <1>6, <1>7, <2>2
    <3> QED
      BY <3>1 DEF OrderDecisionStands
  <2> QED
    BY <2>1, <2>2
<1> QED
  BY <1>4, <1>8, <1>9, <1>10, <1>11, <1>13

(* A skipped lead was not decided, so giving its lock back loses nothing.  *)
LEMMA SkipLeadStep ==
    ASSUME IInv, NEW w \in Worker, NEW l \in Lead, SkipLead(w, l)
    PROVE  IInv'
<1> USE DEF IInv
<1>1. /\ l = txn[w].cur \/ (txn[w].cur = NoLead /\ l \in txn[w].todo)
      /\ txn' = [txn EXCEPT ![w].cur = NoLead, ![w].todo = @ \ {l}]
      /\ lock' = [lock EXCEPT ![l] = IF @ = w THEN Free ELSE @]
      /\ UNCHANGED <<version, account, pending, ownerVars, now, forms>>
  BY DEF SkipLead
<1>2. txn[w] \in Txn
  BY DEF TypeOK
<1>3. txn'[w] = [txn[w] EXCEPT !.cur = NoLead, !.todo = @ \ {l}] /\ txn'[w] \in Txn
  BY <1>1, <1>2 DEF TypeOK, Txn
<1>4. TypeOK'
  BY <1>1, <1>3 DEF TypeOK, RowTypeOK, ownerVars
<1>5. \A v \in Worker : /\ txn'[v].op = txn[v].op /\ txn'[v].at = txn[v].at
                        /\ txn'[v].writes = txn[v].writes /\ Written(v)' = Written(v)
  BY <1>1, <1>2, <1>3 DEF TypeOK, Txn, Written
<1>6. \A v \in Worker : v # w => txn'[v] = txn[v]
  BY <1>1 DEF TypeOK
<1>7. txn'[w].cur = NoLead /\ txn'[w].todo = txn[w].todo \ {l} /\ txn[w].todo \subseteq Lead
  BY <1>2, <1>3 DEF Txn
<1>8. l \notin Written(w)
  BY <1>1 DEF DecidedOnce
<1>9. OrdersHaveTime'
  BY <1>5 DEF OrdersHaveTime
<1>10. DecidedUnderLock'
  <2> SUFFICES ASSUME NEW v \in Worker, NEW k \in Lead, k \in Written(v)' \/ txn'[v].cur = k
               PROVE  lock'[k] = v
    BY DEF DecidedUnderLock
  <2>1. lock[k] = v
    BY <1>5, <1>6, <1>7, NullsAreNull DEF DecidedUnderLock
  <2>2. ~(k = l /\ v = w)
    BY <1>5, <1>7, <1>8, NullsAreNull
  <2> QED
    BY <1>1, <2>1, <2>2 DEF TypeOK, RowTypeOK
<1>11. DecidedOnce'
  <2> SUFFICES ASSUME NEW v \in Worker
               PROVE  /\ txn'[v].cur \notin txn'[v].todo
                      /\ \A k \in Written(v)' : k \notin txn'[v].todo /\ k # txn'[v].cur
    BY DEF DecidedOnce
  <2>1. CASE v = w
    BY <1>5, <1>7, <2>1, NullsAreNull DEF DecidedOnce, Written
  <2>2. CASE v # w
    BY <1>5, <1>6, <2>2 DEF DecidedOnce
  <2> QED
    BY <2>1, <2>2
<1>12. SegmentsTile' /\ RowMatchesOpenSegment'
  BY <1>1 DEF SegmentsTile, RowMatchesOpenSegment, ownerVars
<1>13. OrderDecisionStands'
  BY <1>1, <1>5 DEF OrderDecisionStands, Eligible, ownerVars
<1> QED
  BY <1>4, <1>9, <1>10, <1>11, <1>12, <1>13

(* The end of a transaction, committed or not: nothing it decided is left, *)
(* and everybody else keeps what they decided and the locks under it.      *)
LEMMA EndOfTransaction ==
    ASSUME IInv, NEW w \in Worker, ReleaseAll(w), txn' = [txn EXCEPT ![w] = Idle]
    PROVE  /\ lock' \in [Lead -> Worker \cup {Free}]
           /\ txn' \in [Worker -> Txn]
           /\ \A v \in Worker : v # w => txn'[v] = txn[v] /\ Written(v)' = Written(v)
           /\ Written(w)' = {} /\ txn'[w].op = "idle"
           /\ OrdersHaveTime' /\ DecidedUnderLock' /\ DecidedOnce'
<1> USE DEF IInv
<1>1. lock' \in [Lead -> Worker \cup {Free}]
  BY DEF ReleaseAll, TypeOK, RowTypeOK
<1>2. txn' \in [Worker -> Txn]
  BY IdleIsTxn DEF TypeOK
<1>3. txn'[w] = Idle /\ \A v \in Worker : v # w => txn'[v] = txn[v]
  BY DEF TypeOK
<1>4. /\ Idle.op = "idle" /\ Idle.cur = NoLead /\ Idle.todo = {}
      /\ \A l \in Lead : Idle.writes[l] = NoWrite
  BY DEF Idle, Start
<1>5. Written(w)' = {} /\ \A v \in Worker : v # w => Written(v)' = Written(v)
  BY <1>3, <1>4 DEF Written
<1>6. OrdersHaveTime'
  BY <1>3, <1>4 DEF OrdersHaveTime
<1>7. DecidedUnderLock'
  <2> SUFFICES ASSUME NEW v \in Worker, NEW l \in Lead, l \in Written(v)' \/ txn'[v].cur = l
               PROVE  lock'[l] = v
    BY DEF DecidedUnderLock
  <2>1. v # w
    BY <1>3, <1>4, <1>5, NullsAreNull
  <2>2. lock[l] = v
    BY <1>3, <1>5, <2>1 DEF DecidedUnderLock
  <2> QED
    BY <2>1, <2>2 DEF ReleaseAll
<1>8. DecidedOnce'
  BY <1>3, <1>4, <1>5 DEF DecidedOnce
<1> QED
  BY <1>1, <1>2, <1>3, <1>4, <1>5, <1>6, <1>7, <1>8

(* A failed transaction leaves nothing behind.                             *)
LEMMA FailStep ==
    ASSUME IInv, NEW w \in Worker, Fail(w)
    PROVE  IInv'
<1> USE DEF IInv
<1>1. /\ ReleaseAll(w) /\ txn' = [txn EXCEPT ![w] = Idle]
      /\ UNCHANGED <<version, account, pending, ownerVars, now, forms>>
  BY DEF Fail
<1>2. /\ lock' \in [Lead -> Worker \cup {Free}]
      /\ txn' \in [Worker -> Txn]
      /\ \A v \in Worker : v # w => txn'[v] = txn[v] /\ Written(v)' = Written(v)
      /\ Written(w)' = {} /\ txn'[w].op = "idle"
      /\ OrdersHaveTime' /\ DecidedUnderLock' /\ DecidedOnce'
  BY <1>1, EndOfTransaction
<1>3. TypeOK'
  BY <1>1, <1>2 DEF TypeOK, RowTypeOK, ownerVars
<1>4. SegmentsTile' /\ RowMatchesOpenSegment'
  BY <1>1 DEF SegmentsTile, RowMatchesOpenSegment, ownerVars
<1>5. OrderDecisionStands'
  BY <1>1, <1>2 DEF OrderDecisionStands, Eligible, ownerVars
<1> QED
  BY <1>2, <1>3, <1>4, <1>5

(* What a commit does to a lead it decided: the history still tiles, its   *)
(* open segment is the row's, and the ownership does not start earlier.    *)
LEMMA CommitMoves ==
    ASSUME IInv, NEW w \in Worker, Commit(w), NEW l \in Written(w)
    PROVE  /\ caretaker'[l] = txn[w].writes[l].to /\ caretaker'[l] \in Holder
           /\ startedAt'[l] \in Instant /\ startedAt'[l] >= startedAt[l]
           /\ version'[l] = version[l] + 1 /\ version'[l] \in Version
           /\ routing'[l] = DeriveRouting(caretaker'[l])
           /\ access'[l] = DeriveAccess(caretaker'[l])
           /\ segments'[l] \in Seq(Segment) /\ Tiles(segments'[l])
           /\ RowMatches(segments'[l], startedAt'[l], caretaker'[l])
<1> USE DEF IInv
<1> DEFINE s == segments[l]
           x == txn[w].writes[l]
           b == Boundary(s, x.at)
<1>1. l \in Lead /\ x # NoWrite
  BY DEF Written
<1>2. x \in Write
  BY <1>1 DEF TypeOK, Txn
<1>3. x.to \in Holder /\ x.at \in Instant
  BY <1>2 DEF Write
<1>4. s \in Seq(Segment) /\ Tiles(s) /\ RowMatches(s, startedAt[l], caretaker[l])
  BY <1>1 DEF TypeOK, SegmentsTile, RowMatchesOpenSegment
<1>5. /\ caretaker'[l] = x.to /\ startedAt'[l] = b /\ version'[l] = version[l] + 1
      /\ segments'[l] = Handover(s, x.to, b)
      /\ routing'[l] = DeriveRouting(x.to) /\ access'[l] = DeriveAccess(x.to)
      /\ version[l] < MaxVersion
  BY <1>1 DEF Commit
<1>6. /\ b \in Instant
      /\ s # <<>> => b >= s[Len(s)].start
  BY <1>3, <1>4, BoundaryIsClamped
<1>7. startedAt'[l] >= startedAt[l]
  <2>1. b \in Nat
    BY <1>6, InstantIsNat
  <2>2. CASE s = <<>>
    BY <1>4, <1>5, <2>1, <2>2 DEF RowMatches, NoTime
  <2>3. CASE s # <<>>
    BY <1>4, <1>5, <1>6, <2>3 DEF RowMatches
  <2> QED
    BY <2>2, <2>3
<1>8. version'[l] \in Version
  BY <1>1, <1>5, MaxVersionIsNat DEF TypeOK, RowTypeOK, Version
<1> HIDE DEF s, x, b
<1>9. /\ segments'[l] \in Seq(Segment) /\ Tiles(segments'[l])
      /\ RowMatches(segments'[l], startedAt'[l], caretaker'[l])
  BY <1>3, <1>4, <1>5, <1>6, HandoverTiles
<1> QED
  BY <1>3, <1>5, <1>6, <1>7, <1>8, <1>9 DEF x

(* A commit leaves every other lead as it is.                              *)
LEMMA CommitLeaves ==
    ASSUME TypeOK, NEW w \in Worker, Commit(w), NEW l \in Lead, l \notin Written(w)
    PROVE  /\ caretaker'[l] = caretaker[l] /\ startedAt'[l] = startedAt[l]
           /\ version'[l] = version[l] /\ segments'[l] = segments[l]
           /\ routing'[l] = routing[l] /\ access'[l] = access[l]
  BY DEF Commit

(* A commit keeps the invariant.                                           *)
LEMMA CommitStep ==
    ASSUME IInv, NEW w \in Worker, Commit(w)
    PROVE  IInv'
<1> USE DEF IInv
<1>1. /\ ReleaseAll(w) /\ txn' = [txn EXCEPT ![w] = Idle]
      /\ UNCHANGED <<account, pending, now, forms>>
  BY DEF Commit
<1>2. /\ lock' \in [Lead -> Worker \cup {Free}]
      /\ txn' \in [Worker -> Txn]
      /\ \A v \in Worker : v # w => txn'[v] = txn[v] /\ Written(v)' = Written(v)
      /\ Written(w)' = {} /\ txn'[w].op = "idle"
      /\ OrdersHaveTime' /\ DecidedUnderLock' /\ DecidedOnce'
  BY <1>1, EndOfTransaction
<1>3. \A l \in Lead : /\ caretaker'[l] \in Holder /\ version'[l] \in Version
                      /\ startedAt'[l] \in Instant \cup {NoTime}
                      /\ segments'[l] \in Seq(Segment)
                      /\ routing'[l] \in {"ASSIGNED", "TEAM_UNASSIGNED"}
                      /\ access'[l] \in SUBSET User
  <2> TAKE l \in Lead
  <2>1. CASE l \in Written(w)
    BY <2>1, CommitMoves DEF DeriveRouting, DeriveAccess, Holder
  <2>2. CASE l \notin Written(w)
    BY <2>2, CommitLeaves DEF TypeOK, RowTypeOK
  <2> QED
    BY <2>1, <2>2
<1>4. TypeOK'
  <2>1. /\ caretaker' = [l \in Lead |-> caretaker'[l]] /\ version' = [l \in Lead |-> version'[l]]
        /\ startedAt' = [l \in Lead |-> startedAt'[l]] /\ segments' = [l \in Lead |-> segments'[l]]
        /\ routing' = [l \in Lead |-> routing'[l]] /\ access' = [l \in Lead |-> access'[l]]
    BY DEF Commit
  <2>2. caretaker' \in [Lead -> Holder] /\ version' \in [Lead -> Version]
    BY <1>3, <2>1
  <2>3. startedAt' \in [Lead -> Instant \cup {NoTime}] /\ segments' \in [Lead -> Seq(Segment)]
    BY <1>3, <2>1
  <2>4. /\ routing' \in [Lead -> {"ASSIGNED", "TEAM_UNASSIGNED"}]
        /\ access' \in [Lead -> SUBSET User]
    BY <1>3, <2>1
  <2> QED
    BY <1>1, <1>2, <2>2, <2>3, <2>4 DEF TypeOK, RowTypeOK
<1>5. SegmentsTile' /\ RowMatchesOpenSegment'
  <2> SUFFICES ASSUME NEW l \in Lead
               PROVE  /\ Tiles(segments'[l])
                      /\ RowMatches(segments'[l], startedAt'[l], caretaker'[l])
    BY DEF SegmentsTile, RowMatchesOpenSegment
  <2>1. CASE l \in Written(w)
    BY <2>1, CommitMoves
  <2>2. CASE l \notin Written(w)
    BY <2>2, CommitLeaves DEF SegmentsTile, RowMatchesOpenSegment
  <2> QED
    BY <2>1, <2>2
<1>6. OrderDecisionStands'
  <2> SUFFICES ASSUME NEW v \in Worker, NEW l \in Lead,
                      txn'[v].op = "order", l \in Written(v)'
               PROVE  /\ Eligible(txn[v].at, l)'
                      /\ Policy[l] = "EXCLUSIVE" => caretaker'[l] = NoUser
                      /\ txn'[v].writes[l].to # caretaker'[l]
    BY DEF OrderDecisionStands
  <2>1. v # w /\ txn'[v] = txn[v] /\ l \in Written(v)
    BY <1>2
  <2>2. l \notin Written(w)
    BY <2>1 DEF DecidedUnderLock
  <2>3. caretaker'[l] = caretaker[l] /\ startedAt'[l] = startedAt[l]
    BY <2>2, CommitLeaves
  <2> QED
    BY <2>1, <2>3 DEF OrderDecisionStands, Eligible
<1> QED
  BY <1>2, <1>4, <1>5, <1>6

(* Every request starts a transaction that has decided nothing.            *)
LEMMA RequestStep ==
    ASSUME IInv, NEW w \in Worker, Request(w)
    PROVE  IInv'
<1> USE DEF IInv
<1>1. /\ NoUser \in Holder /\ User \subseteq Holder /\ Active \subseteq User
      /\ Existing \subseteq User /\ pending \subseteq User
      /\ NoVersion \in Version \cup {NoVersion}
      /\ OrderDate \subseteq Instant /\ now \in Instant
  BY DEF Holder, Active, Existing, TypeOK, OrderDate
<1>2. ASSUME NEW l \in Lead, NEW u \in Holder, NEW v \in FormVersions(l), BeginReassign(w, l, u, v)
      PROVE  IInv'
  <2>1. v \in Version \cup {NoVersion}
    BY DEF FormVersions, TypeOK, Form
  <2>2. Begin(w, Start("reassign", u, NoTime, v, {l})) /\ pending' \subseteq User
    BY <1>1, <1>2 DEF BeginReassign
  <2> QED
    BY <2>1, <2>2, BeginStep
<1>3. ASSUME NEW u \in User, BeginAssignOwner(w, u) PROVE IInv'
  <2>1. Begin(w, Start("assign_owner", u, NoTime, NoVersion, Lead)) /\ pending' \subseteq User
    BY <1>1, <1>3 DEF BeginAssignOwner
  <2> QED
    BY <1>1, <2>1, BeginStep
<1>4. ASSUME NEW u \in Holder, NEW at \in OrderDate \cup {now}, BeginOrder(w, u, at) PROVE IInv'
  <2>1. Begin(w, Start("order", u, at, NoVersion, Lead)) /\ pending' \subseteq User
    BY <1>1, <1>4 DEF BeginOrder
  <2>2. at \in Instant
    BY <1>1
  <2> QED
    BY <1>1, <2>1, <2>2, BeginStep
<1>5. ASSUME NEW u \in User, BeginReconcile(w, u) PROVE IInv'
  <2> DEFINE held == {l \in Lead : caretaker[l] = u}
  <2>1. Begin(w, Start("reconcile", u, NoTime, NoVersion, held)) /\ pending' \subseteq User
    BY <1>1, <1>5 DEF BeginReconcile
  <2> QED
    BY <1>1, <2>1, BeginStep
<1> QED
  BY <1>2, <1>3, <1>4, <1>5 DEF Request

(* Every step keeps the invariant.                                         *)
LEMMA NextIInv == IInv /\ [Next]_vars => IInv'
<1> SUFFICES ASSUME IInv, [Next]_vars PROVE IInv'
  OBVIOUS
<1>1. CASE Tick
  <2>1. now' \in Instant
    BY <1>1, BoundsAreNat DEF Tick, IInv, TypeOK, Instant
  <2>2. TypeOK'
    BY <1>1, <2>1 DEF Tick, IInv, TypeOK, RowTypeOK, rowVars, ownerVars
  <2> QED
    BY <1>1, <2>2, QuietStep DEF Tick, rowVars
<1>2. ASSUME NEW l \in Lead, RenderForm(l) PROVE IInv'
  <2>1. [lead |-> l, version |-> version[l], caretaker |-> caretaker[l]] \in Form
    BY DEF IInv, TypeOK, RowTypeOK, Form
  <2>2. TypeOK'
    BY <1>2, <2>1 DEF RenderForm, IInv, TypeOK, RowTypeOK, rowVars, ownerVars
  <2> QED
    BY <1>2, <2>2, QuietStep DEF RenderForm, rowVars
<1>3. ASSUME NEW f \in forms, CloseForm(f) PROVE IInv'
  <2>1. TypeOK'
    BY <1>3 DEF CloseForm, IInv, TypeOK, RowTypeOK, rowVars, ownerVars
  <2> QED
    BY <1>3, <2>1, QuietStep DEF CloseForm, rowVars
<1>4. ASSUME NEW u \in User, Deactivate(u) PROVE IInv'
  <2>1. TypeOK'
    BY <1>4 DEF Deactivate, IInv, TypeOK, RowTypeOK, rowVars, ownerVars
  <2> QED
    BY <1>4, <2>1, QuietStep DEF Deactivate, rowVars
<1>5. ASSUME NEW u \in User, ToggleByForm(u) PROVE IInv'
  <2>1. TypeOK'
    BY <1>5 DEF ToggleByForm, IInv, TypeOK, RowTypeOK, rowVars, ownerVars
  <2> QED
    BY <1>5, <2>1, QuietStep DEF ToggleByForm, rowVars
<1>6. ASSUME NEW u \in User, DeleteUser(u) PROVE IInv'
  BY <1>6, DeleteUserStep
<1>7. ASSUME NEW w \in Worker, Request(w) PROVE IInv'
  BY <1>7, RequestStep
<1>8. ASSUME NEW w \in Worker, NEW l \in Lead, LockLead(w, l) PROVE IInv'
  BY <1>8, LockLeadStep
<1>9. ASSUME NEW w \in Worker, NEW l \in Lead, SkipLead(w, l) PROVE IInv'
  BY <1>9, SkipLeadStep
<1>10. ASSUME NEW w \in Worker, Decide(w) PROVE IInv'
  BY <1>10, DecideStep
<1>11. ASSUME NEW w \in Worker, Commit(w) PROVE IInv'
  BY <1>11, CommitStep
<1>12. ASSUME NEW w \in Worker, Fail(w) PROVE IInv'
  BY <1>12, FailStep
<1>13. CASE UNCHANGED vars
  <2>1. TypeOK'
    BY <1>13 DEF vars, IInv, TypeOK, RowTypeOK, rowVars, ownerVars
  <2> QED
    BY <1>13, <2>1, QuietStep DEF vars, rowVars
<1> QED
  BY <1>1, <1>2, <1>3, <1>4, <1>5, <1>6, <1>7, <1>8, <1>9, <1>10, <1>11, <1>12, <1>13
     DEF Next, Step

(* The invariant holds in every reachable state.                           *)
LEMMA SpecIInv == Spec => []IInv
  BY InitIInv, NextIInv, PTL DEF Spec

-----------------------------------------------------------------------------
(* The results.                                                            *)

(* Every variable keeps its type: no service stores anything else.         *)
THEOREM TypeCorrect == Spec => []TypeOK
<1>1. IInv => TypeOK
  BY DEF IInv
<1> QED
  BY <1>1, SpecIInv, PTL

(* The ownership history of every lead tiles, whatever orders, reassigns,  *)
(* reconciles and deletions interleave (services._apply_caretaker).        *)
THEOREM HistoryTiles == Spec => []SegmentsTile
<1>1. IInv => SegmentsTile
  BY DEF IInv
<1> QED
  BY <1>1, SpecIInv, PTL

(* The lead row and its open segment never disagree.                       *)
THEOREM RowIsOpenSegment == Spec => []RowMatchesOpenSegment
<1>1. IInv => RowMatchesOpenSegment
  BY DEF IInv
<1> QED
  BY <1>1, SpecIInv, PTL

(* What an order decided under the row lock is still right at its commit.  *)
THEOREM OrderDecisionsStand == Spec => []OrderDecisionStands
<1>1. IInv => OrderDecisionStands
  BY DEF IInv
<1> QED
  BY <1>1, SpecIInv, PTL

(* The missed-channel baseline of a lead never moves back.                 *)
THEOREM BaselineAdvances == Spec => BaselineNeverMovesBack
<1>1. ASSUME IInv, [Next]_vars, NEW l \in Lead
      PROVE  startedAt'[l] >= startedAt[l]
  <2>1. startedAt[l] \in Int
    <3>1. startedAt[l] \in Instant \cup {NoTime}
      BY <1>1 DEF IInv, TypeOK
    <3>2. CASE startedAt[l] \in Instant
      <4>1. startedAt[l] \in Nat
        BY <3>2, InstantIsNat
      <4> QED
        BY <4>1
    <3>3. CASE startedAt[l] = NoTime
      BY <3>3, NoTimeIsInt
    <3> QED
      BY <3>1, <3>2, <3>3
  <2>2. CASE UNCHANGED startedAt
    BY <2>1, <2>2
  <2>3. ASSUME NEW w \in Worker, Commit(w)
        PROVE  startedAt'[l] >= startedAt[l]
    <3>1. CASE l \in Written(w)
      BY <1>1, <2>3, <3>1, CommitMoves
    <3>2. CASE l \notin Written(w)
      BY <1>1, <2>1, <2>3, <3>2, CommitLeaves DEF IInv
    <3> QED
      BY <3>1, <3>2
  <2> QED
    BY <1>1, <2>2, <2>3
       DEF Next, Tick, RenderForm, CloseForm, Deactivate, ToggleByForm, DeleteUser, Request,
           BeginReassign, BeginAssignOwner, BeginOrder, BeginReconcile, Begin, Step, LockLead,
           Decide, SkipLead, Fail, ownerVars, vars
<1>2. IInv /\ [Next]_vars => [\A l \in Lead : startedAt'[l] >= startedAt[l]]_vars
  BY <1>1
<1> QED
  BY <1>2, SpecIInv, PTL DEF Spec, BaselineNeverMovesBack

(* No order takes an EXCLUSIVE lead from its holder, however many orders   *)
(* are saved at once (domain/ownership.resolve_ownership).                 *)
THEOREM ExclusiveIsKept == Spec => ExclusiveIsNeverStolen
<1>1. ASSUME IInv, NEW w \in Worker, NEW l \in Lead, txn[w].op = "order", Commit(w),
             Policy[l] = "EXCLUSIVE", caretaker[l] # NoUser
      PROVE  caretaker'[l] = caretaker[l]
  <2>1. l \notin Written(w)
    BY <1>1 DEF IInv, OrderDecisionStands
  <2> QED
    BY <1>1, <2>1, CommitLeaves DEF IInv
<1>2. IInv /\ [Next]_vars =>
         [\A w \in Worker, l \in Lead :
             (txn[w].op = "order" /\ Commit(w) /\ Policy[l] = "EXCLUSIVE"
                 /\ caretaker[l] # NoUser)
             => caretaker'[l] = caretaker[l]]_vars
  BY <1>1
<1> QED
  BY <1>2, SpecIInv, PTL DEF Spec, ExclusiveIsNeverStolen

(* A stale order moves nothing, whatever committed while it waited for the *)
(* lock (domain/ownership.is_order_eligible_for_ownership).                *)
THEOREM StaleOrdersAreDropped == Spec => StaleOrderMovesNothing
<1>1. ASSUME IInv, NEW w \in Worker, NEW l \in Lead, txn[w].op = "order", Commit(w),
             caretaker'[l] # caretaker[l]
      PROVE  Eligible(txn[w].at, l)
  <2>1. l \in Written(w)
    BY <1>1, CommitLeaves DEF IInv
  <2> QED
    BY <1>1, <2>1 DEF IInv, OrderDecisionStands
<1>2. IInv /\ [Next]_vars =>
         [\A w \in Worker, l \in Lead :
             (txn[w].op = "order" /\ Commit(w) /\ caretaker'[l] # caretaker[l])
             => Eligible(txn[w].at, l)]_vars
  BY <1>1
<1> QED
  BY <1>2, SpecIInv, PTL DEF Spec, StaleOrderMovesNothing

(* Routing and access follow the caretaker as long as no account is        *)
(* deleted: deletion empties the caretaker and nothing else.               *)
THEOREM RoutingIsDerived ==
    ASSUME UserDeletion = FALSE
    PROVE  Spec => []RoutingFollowsCaretaker
<1>1. Init => RoutingFollowsCaretaker
  BY DEF Init, RoutingFollowsCaretaker, DeriveAccess
<1>2. ASSUME IInv, RoutingFollowsCaretaker, [Next]_vars
      PROVE  RoutingFollowsCaretaker'
  <2>1. CASE UNCHANGED <<caretaker, routing, access>>
    BY <1>2, <2>1 DEF RoutingFollowsCaretaker
  <2>2. ASSUME NEW w \in Worker, Commit(w)
        PROVE  RoutingFollowsCaretaker'
    <3> SUFFICES ASSUME NEW l \in Lead
                 PROVE  /\ routing'[l] = "ASSIGNED" <=> caretaker'[l] # NoUser
                        /\ access'[l] = DeriveAccess(caretaker'[l])
      BY DEF RoutingFollowsCaretaker
    <3>1. CASE l \in Written(w)
      BY <1>2, <2>2, <3>1, CommitMoves DEF DeriveRouting
    <3>2. CASE l \notin Written(w)
      BY <1>2, <2>2, <3>2, CommitLeaves DEF IInv, RoutingFollowsCaretaker
    <3> QED
      BY <3>1, <3>2
  <2> QED
    BY <1>2, <2>1, <2>2
       DEF Next, Tick, RenderForm, CloseForm, Deactivate, ToggleByForm, DeleteUser, Request,
           BeginReassign, BeginAssignOwner, BeginOrder, BeginReconcile, Begin, Step, LockLead,
           Decide, SkipLead, Fail, ownerVars, vars
<1> QED
  BY <1>1, <1>2, SpecIInv, PTL DEF Spec

(* Equal versions mean equal owners, as long as no account is deleted      *)
(* (models.Lead.version, services.lock_lead).                              *)
THEOREM VersionsIdentifyOwners ==
    ASSUME UserDeletion = FALSE
    PROVE  Spec => []VersionIdentifiesOwner
<1>1. Init => VersionIdentifiesOwner
  BY DEF Init, VersionIdentifiesOwner
<1>2. ASSUME IInv, VersionIdentifiesOwner, [Next]_vars
      PROVE  VersionIdentifiesOwner'
  <2>1. \A f \in forms : f \in Form /\ version[f.lead] \in Nat /\ f.version \in Nat
    BY <1>2, MaxVersionIsNat DEF IInv, TypeOK, RowTypeOK, Form, Version
  <2>2. CASE forms' \subseteq forms /\ UNCHANGED <<caretaker, version>>
    BY <1>2, <2>2 DEF VersionIdentifiesOwner
  <2>3. ASSUME NEW l \in Lead, RenderForm(l)
        PROVE  VersionIdentifiesOwner'
    <3>1. version[l] \in Nat
      BY <1>2, MaxVersionIsNat DEF IInv, TypeOK, RowTypeOK, Version
    <3> QED
      BY <1>2, <2>3, <3>1 DEF RenderForm, VersionIdentifiesOwner, rowVars, ownerVars
  <2>4. ASSUME NEW w \in Worker, Commit(w)
        PROVE  VersionIdentifiesOwner'
    <3> SUFFICES ASSUME NEW f \in forms
                 PROVE  /\ f.version <= version'[f.lead]
                        /\ f.version = version'[f.lead] => f.caretaker = caretaker'[f.lead]
      BY <2>4 DEF Commit, VersionIdentifiesOwner
    <3>1. /\ f.lead \in Lead /\ f.version <= version[f.lead]
          /\ f.version = version[f.lead] => f.caretaker = caretaker[f.lead]
          /\ f.version \in Nat /\ version[f.lead] \in Nat
      BY <1>2, <2>1 DEF VersionIdentifiesOwner, Form
    <3>2. CASE f.lead \in Written(w)
      <4>1. version'[f.lead] = version[f.lead] + 1
        BY <1>2, <2>4, <3>2, CommitMoves
      <4> QED
        BY <3>1, <4>1
    <3>3. CASE f.lead \notin Written(w)
      BY <1>2, <2>4, <3>1, <3>3, CommitLeaves DEF IInv
    <3> QED
      BY <3>2, <3>3
  <2> QED
    BY <1>2, <2>2, <2>3, <2>4
       DEF Next, Tick, CloseForm, Deactivate, ToggleByForm, DeleteUser, Request,
           BeginReassign, BeginAssignOwner, BeginOrder, BeginReconcile, Begin, Step, LockLead,
           Decide, SkipLead, Fail, ownerVars, rowVars, vars
<1> QED
  BY <1>1, <1>2, SpecIInv, PTL DEF Spec

(* What assign_owner has dealt with of its leads: a lead it neither holds  *)
(* nor has yet to lock is one it has decided, for the owner or for nobody. *)
AssignCovers(t) ==
    t.op = "assign_owner" =>
        \A l \in Lead : \/ l \in t.todo \/ l = t.cur
                        \/ t.writes[l] # NoWrite /\ t.writes[l].to \in {t.who, NoUser}

(* Every step of a transaction keeps that: only an order skips leads.      *)
LEMMA StepCovers ==
    ASSUME TypeOK, \A v \in Worker : AssignCovers(txn[v]), NEW w \in Worker, Request(w) \/ Step(w)
    PROVE  \A v \in Worker : AssignCovers(txn'[v])
<1>1. txn \in [Worker -> Txn] /\ txn[w] \in Txn
  BY DEF TypeOK
<1>2. ASSUME NEW t, txn' = [txn EXCEPT ![w] = t], AssignCovers(t)
      PROVE  \A v \in Worker : AssignCovers(txn'[v])
  BY <1>1, <1>2
<1>3. ASSUME NEW op, NEW who, NEW at, NEW form, NEW todo, op = "assign_owner" => todo = Lead
      PROVE  AssignCovers(Start(op, who, at, form, todo))
  BY <1>3 DEF AssignCovers, Start
<1>4. AssignCovers(Idle)
  BY <1>3 DEF Idle
<1>5. ASSUME Request(w) PROVE \A v \in Worker : AssignCovers(txn'[v])
  <2>1. ASSUME NEW l \in Lead, NEW u \in Holder, NEW v \in FormVersions(l), BeginReassign(w, l, u, v)
        PROVE  \A x \in Worker : AssignCovers(txn'[x])
    BY <1>2, <1>3, <2>1 DEF BeginReassign, Begin
  <2>2. ASSUME NEW u \in User, BeginAssignOwner(w, u)
        PROVE  \A x \in Worker : AssignCovers(txn'[x])
    BY <1>2, <1>3, <2>2 DEF BeginAssignOwner, Begin
  <2>3. ASSUME NEW u \in Holder, NEW at, BeginOrder(w, u, at)
        PROVE  \A x \in Worker : AssignCovers(txn'[x])
    BY <1>2, <1>3, <2>3 DEF BeginOrder, Begin
  <2>4. ASSUME NEW u \in User, BeginReconcile(w, u)
        PROVE  \A x \in Worker : AssignCovers(txn'[x])
    BY <1>2, <1>3, <2>4 DEF BeginReconcile, Begin
  <2> QED
    BY <1>5, <2>1, <2>2, <2>3, <2>4 DEF Request
<1>6. PICK t \in Txn : t = txn[w] /\ AssignCovers(t)
  BY <1>1
<1>7. ASSUME NEW l \in Lead, LockLead(w, l) PROVE \A v \in Worker : AssignCovers(txn'[v])
  <2>1. txn' = [txn EXCEPT ![w] = [t EXCEPT !.cur = l, !.todo = @ \ {l}]] /\ t.cur = NoLead
    BY <1>6, <1>7 DEF LockLead
  <2>2. AssignCovers([t EXCEPT !.cur = l, !.todo = @ \ {l}])
    BY <1>6, <2>1, NullsAreNull DEF AssignCovers, Txn
  <2> QED
    BY <1>2, <2>1, <2>2
<1>8. ASSUME NEW l \in Lead, SkipLead(w, l) PROVE \A v \in Worker : AssignCovers(txn'[v])
  <2>1. txn' = [txn EXCEPT ![w] = [t EXCEPT !.cur = NoLead, !.todo = @ \ {l}]] /\ t.op = "order"
    BY <1>6, <1>8 DEF SkipLead
  <2>2. AssignCovers([t EXCEPT !.cur = NoLead, !.todo = @ \ {l}])
    BY <2>1 DEF AssignCovers, Txn
  <2> QED
    BY <1>2, <2>1, <2>2
<1>9. ASSUME Decide(w) PROVE \A v \in Worker : AssignCovers(txn'[v])
  <2>a. PICK l \in Lead : l = t.cur
    BY <1>6, <1>9 DEF Decide, Txn
  <2>b. PICK d : d = Decision(w, l)
    OBVIOUS
  <2>1. txn' = [txn EXCEPT ![w] = [t EXCEPT !.cur = NoLead, !.writes[l] = d]]
    BY <1>6, <1>9, <2>a, <2>b DEF Decide
  <2>2. t.op = "assign_owner" => d = [to |-> Effective(t.who), at |-> now]
    BY <1>6, <2>b DEF Decision
  <2>3. now \in Instant /\ NoTime \notin Instant
    BY InstantIsNat DEF TypeOK
  <2>4. t.op = "assign_owner" => d # NoWrite /\ d.to \in {t.who, NoUser}
    BY <2>2, <2>3 DEF NoWrite, Effective
  <2>5. AssignCovers([t EXCEPT !.cur = NoLead, !.writes[l] = d])
    BY <1>6, <2>a, <2>4 DEF AssignCovers, Txn
  <2> QED
    BY <1>2, <2>1, <2>5
<1>10. ASSUME Commit(w) \/ Fail(w) PROVE \A v \in Worker : AssignCovers(txn'[v])
  BY <1>2, <1>4, <1>10 DEF Commit, Fail
<1> QED
  BY <1>5, <1>7, <1>8, <1>9, <1>10 DEF Step

(* assign_owner is all or nothing: no lead of the customer is left with    *)
(* somebody else (customers.services.assign_owner).                        *)
THEOREM OwnersGetEveryLead == Spec => AssignOwnerMovesEveryLead
<1>1. Init => \A w \in Worker : AssignCovers(txn[w])
  <2>1. AssignCovers(Idle)
    BY DEF AssignCovers, Idle, Start
  <2> QED
    BY <2>1 DEF Init
<1>2. IInv /\ (\A w \in Worker : AssignCovers(txn[w])) /\ [Next]_vars
         => (\A w \in Worker : AssignCovers(txn[w]))'
  <2> SUFFICES ASSUME IInv, \A w \in Worker : AssignCovers(txn[w]), [Next]_vars
               PROVE  \A w \in Worker : AssignCovers(txn'[w])
    OBVIOUS
  <2>1. CASE UNCHANGED txn
    BY <2>1
  <2>2. ASSUME NEW w \in Worker, Request(w) \/ Step(w)
        PROVE  \A v \in Worker : AssignCovers(txn'[v])
    BY <2>2, StepCovers DEF IInv
  <2> QED
    BY <2>1, <2>2
       DEF Next, Tick, RenderForm, CloseForm, Deactivate, ToggleByForm, DeleteUser, vars
<1>3. ASSUME IInv, \A w \in Worker : AssignCovers(txn[w]),
             NEW w \in Worker, txn[w].op = "assign_owner", Commit(w), NEW l \in Lead
      PROVE  caretaker'[l] \in {txn[w].who, NoUser}
  <2>1. txn[w].todo = {} /\ txn[w].cur = NoLead
    BY <1>3 DEF Commit
  <2>2. txn[w].writes[l] # NoWrite /\ txn[w].writes[l].to \in {txn[w].who, NoUser}
    BY <1>3, <2>1, NullsAreNull DEF AssignCovers
  <2> QED
    BY <1>3, <2>2, CommitMoves DEF Written
<1>4. IInv /\ (\A w \in Worker : AssignCovers(txn[w])) /\ [Next]_vars =>
         [\A w \in Worker :
             (txn[w].op = "assign_owner" /\ Commit(w))
             => \A l \in Lead : caretaker'[l] \in {txn[w].who, NoUser}]_vars
  BY <1>3
<1> QED
  BY <1>1, <1>2, <1>4, SpecIInv, PTL DEF Spec, AssignOwnerMovesEveryLead

-----------------------------------------------------------------------------
(* LeadOwnership implements OwnershipHistory: the initial states are, and  *)
(* every step is a step of the history or leaves it as it is.  Only a      *)
(* commit and the deletion of an account write the leads; the invariant    *)
(* says that the row is the open segment, so that what a handover appends  *)
(* to the past is the ownership the row showed.                            *)

(* The ended segments are all but the last.                                *)
LEMMA EndedSegments ==
    ASSUME NEW s \in Seq(Segment), s # <<>>
    PROVE  /\ Ended(s) \in Seq(Segment) /\ Len(Ended(s)) = Len(s) - 1
           /\ \A i \in 1..(Len(s) - 1) : i \in 1..Len(s) /\ Ended(s)[i] = s[i]
<1> DEFINE n == Len(s)
<1>1. n \in Nat \ {0} /\ \A i \in 1..n : s[i] \in Segment
  BY EmptySeq
<1>2. n - 1 \in Nat /\ \A i \in 1..(n-1) : i \in 1..n
  <2> HIDE DEF n
  <2> QED
    BY <1>1
<1>3. Ended(s) \in [1..(n-1) -> Segment]
  BY <1>1, <1>2 DEF Ended
<1>4. Ended(s) \in Seq(Segment) /\ Len(Ended(s)) = n - 1
  <2> HIDE DEF n
  <2> QED
    BY <1>2, <1>3
<1> QED
  BY <1>2, <1>4 DEF Ended

(* Without a segment, or with one, nothing has ended.                      *)
LEMMA NothingEnded ==
    ASSUME NEW s \in Seq(Segment), Len(s) \in {0, 1}
    PROVE  Ended(s) = <<>>
<1> DEFINE n == Len(s)
<1>1. 1..(n-1) = 1..0
  <2>1. n \in {0, 1}
    OBVIOUS
  <2> HIDE DEF n
  <2> QED
    BY <2>1
<1>2. Ended(s) \in [1..0 -> Segment]
  BY <1>1 DEF Ended
<1>3. Ended(s) \in Seq(Segment) /\ Len(Ended(s)) = 0
  BY <1>2
<1> QED
  BY <1>3, EmptySeq

(* The ended segments after a handover are those before it and the one it  *)
(* closed.                                                                 *)
LEMMA EndedAfterHandover ==
    ASSUME NEW s \in Seq(Segment), s # <<>>, Tiles(s), NEW to \in Holder, NEW at \in Instant
    PROVE  Ended(Handover(s, to, at)) =
               Append(Ended(s), [caretaker |-> s[Len(s)].caretaker,
                                 start |-> s[Len(s)].start, end |-> at])
<1> DEFINE closed == [i \in DOMAIN s |->
                         IF i \in OpenSegments(s) THEN [s[i] EXCEPT !.end = at] ELSE s[i]]
           n == Len(s)
           last == [caretaker |-> to, start |-> at, end |-> NoTime]
           h == Handover(s, to, at)
           ended == [caretaker |-> s[n].caretaker, start |-> s[n].start, end |-> at]
           e == Append(Ended(s), ended)
<1>1. n \in Nat \ {0} /\ DOMAIN s = 1..n /\ \A i \in 1..n : s[i] \in Segment
  BY EmptySeq
<1>2. /\ last \in Segment /\ ended \in Segment
      /\ \A i \in 1..n : closed[i] \in Segment
  BY <1>1 DEF Segment
<1>3. closed \in Seq(Segment) /\ Len(closed) = n
  BY <1>1, <1>2
<1>4. /\ h \in Seq(Segment) /\ h # <<>> /\ Len(h) = n + 1
      /\ \A i \in 1..n : h[i] = closed[i]
  BY <1>2, <1>3, AppendProperties DEF Handover
<1>5. /\ Ended(h) \in Seq(Segment) /\ Len(Ended(h)) = n
      /\ \A i \in 1..n : Ended(h)[i] = closed[i]
  <2> HIDE DEF n, h, closed
  <2>1. Len(h) - 1 = n
    BY <1>1, <1>4
  <2>2. /\ Ended(h) \in Seq(Segment) /\ Len(Ended(h)) = Len(h) - 1
        /\ \A i \in 1..(Len(h) - 1) : Ended(h)[i] = h[i]
    BY <1>4, EndedSegments
  <2> QED
    BY <1>4, <2>1, <2>2
<1>6. OpenSegments(s) = {n}
  BY OpenIsLast
<1>7. closed[n] = ended
  <2>1. n \in DOMAIN s /\ closed[n] = [s[n] EXCEPT !.end = at] /\ s[n] \in Segment
    BY <1>1, <1>6
  <2> QED
    BY <2>1 DEF Segment
<1>8. /\ e \in Seq(Segment) /\ Len(e) = n /\ e[n] = ended
      /\ \A i \in 1..(n-1) : e[i] = s[i]
  <2>1. n - 1 + 1 = n
    BY <1>1
  <2>2. /\ Ended(s) \in Seq(Segment) /\ Len(Ended(s)) = n - 1
        /\ \A i \in 1..(n-1) : Ended(s)[i] = s[i]
    BY EndedSegments
  <2> HIDE DEF n, ended
  <2>3. /\ e \in Seq(Segment) /\ Len(e) = Len(Ended(s)) + 1 /\ e[Len(Ended(s)) + 1] = ended
        /\ \A i \in 1..Len(Ended(s)) : e[i] = Ended(s)[i]
    BY <1>2, <2>2, AppendProperties
  <2> HIDE DEF e
  <2> QED
    BY <2>1, <2>2, <2>3
<1>9. ASSUME NEW i \in 1..n
      PROVE  Ended(h)[i] = e[i]
  <2>1. CASE i = n
    BY <1>5, <1>7, <1>8, <2>1
  <2>2. CASE i # n
    <3>1. i \in 1..(n-1)
      <4> HIDE DEF n
      <4> QED
        BY <1>1, <2>2
    <3>2. closed[i] = s[i]
      BY <1>1, <1>6, <2>2
    <3> QED
      BY <1>5, <1>8, <3>1, <3>2
  <2> QED
    BY <2>1, <2>2
<1> HIDE DEF closed, n, last, h, ended, e
<1>10. Ended(h) = e
  BY <1>5, <1>8, <1>9, SeqEqual
<1> QED
  BY <1>10 DEF h, e, ended, n

Past == [l \in Lead |-> Ended(segments[l])]

(* Initially nothing has ended.                                            *)
LEMMA HistoryInit == Init => History!Init
<1> SUFFICES ASSUME Init PROVE History!Init
  OBVIOUS
<1>1. \A l \in Lead : segments[l] \in Seq(Segment) /\ Len(segments[l]) \in {0, 1}
  <2> SUFFICES ASSUME NEW l \in Lead
               PROVE  segments[l] \in Seq(Segment) /\ Len(segments[l]) \in {0, 1}
    OBVIOUS
  <2>1. [caretaker |-> NoUser, start |-> 0, end |-> NoTime] \in Segment
    BY InstantIsNat, BoundsAreNat DEF Segment, Holder, Instant
  <2>2. segments[l] \in {<<>>, <<[caretaker |-> NoUser, start |-> 0, end |-> NoTime]>>}
    BY DEF Init
  <2> DEFINE e == [caretaker |-> NoUser, start |-> 0, end |-> NoTime]
  <2> HIDE DEF e
  <2>3. e \in Segment /\ segments[l] \in {<<>>, <<e>>}
    BY <2>1, <2>2 DEF e
  <2>4. <<>> \in Seq(Segment) /\ Len(<<>>) = 0 /\ <<e>> \in Seq(Segment) /\ Len(<<e>>) = 1
    BY <2>3
  <2>5. CASE segments[l] = <<>>
    BY <2>4, <2>5
  <2>6. CASE segments[l] = <<e>>
    BY <2>4, <2>6
  <2> QED
    BY <2>3, <2>5, <2>6
<1>2. \A l \in Lead : Ended(segments[l]) = <<>>
  BY <1>1, NothingEnded
<1> QED
  BY <1>2 DEF Init, History!Init

(* A commit hands over the leads it decided, at one instant each.          *)
LEMMA CommitHandsOver ==
    ASSUME IInv, NEW w \in Worker, Commit(w)
    PROVE  History!HandOver
<1>1. ASSUME NEW l \in Lead, l \in Written(w)
      PROVE  History!ChangesHands(l)
  <2> DEFINE s == segments[l]
             x == txn[w].writes[l]
             b == Boundary(s, x.at)
  <2>1. /\ caretaker'[l] \in Holder /\ startedAt'[l] \in Instant
        /\ startedAt'[l] >= startedAt[l]
    BY <1>1, CommitMoves
  <2>2. x \in Write
    BY <1>1 DEF IInv, TypeOK, Txn, Written
  <2>3. s \in Seq(Segment) /\ Tiles(s) /\ RowMatches(s, startedAt[l], caretaker[l])
    BY <1>1 DEF IInv, TypeOK, SegmentsTile, RowMatchesOpenSegment
  <2>4. segments'[l] = Handover(s, x.to, b) /\ startedAt'[l] = b
    BY <1>1 DEF Commit
  <2>5. b \in Instant /\ x.to \in Holder
    BY <2>1, <2>2, <2>4 DEF Write
  <2>6. Ended(segments'[l]) =
            IF s = <<>> THEN Ended(s)
            ELSE Append(Ended(s), [caretaker |-> s[Len(s)].caretaker,
                                   start |-> s[Len(s)].start, end |-> b])
    <3>1. CASE s = <<>>
      <4>4. [caretaker |-> x.to, start |-> b, end |-> NoTime] \in Segment
        BY <2>5 DEF Segment
      <4>5. Handover(s, x.to, b) = <<[caretaker |-> x.to, start |-> b, end |-> NoTime]>>
        BY <3>1, <4>4 DEF Handover
      <4>1. Len(Handover(s, x.to, b)) = 1 /\ Handover(s, x.to, b) \in Seq(Segment)
        BY <4>4, <4>5
      <4>2. Len(s) = 0
        BY <3>1
      <4>3. Ended(Handover(s, x.to, b)) = <<>> /\ Ended(s) = <<>>
        BY <2>3, <4>1, <4>2, NothingEnded
      <4> QED
        BY <2>4, <3>1, <4>3
    <3>2. CASE s # <<>>
      BY <2>3, <2>4, <2>5, <3>2, EndedAfterHandover
    <3> QED
      BY <3>1, <3>2
  <2>7. startedAt[l] = NoTime <=> s = <<>>
    <3>1. CASE s = <<>>
      BY <2>3, <3>1 DEF RowMatches
    <3>2. CASE s # <<>>
      <4>1. s[Len(s)] \in Segment
        BY <2>3, <3>2
      <4> QED
        BY <2>3, <3>2, <4>1, InstantIsNat DEF RowMatches, Segment
    <3> QED
      BY <3>1, <3>2
  <2>8. s # <<>> => s[Len(s)].start = startedAt[l] /\ s[Len(s)].caretaker = caretaker[l]
    BY <2>3 DEF RowMatches
  <2>9. Past'[l] = IF startedAt[l] = NoTime THEN Past[l]
                   ELSE Append(Past[l], [caretaker |-> caretaker[l], start |-> startedAt[l],
                                         end |-> startedAt'[l]])
    BY <1>1, <2>4, <2>6, <2>7, <2>8 DEF Past
  <2> QED
    BY <1>1, <2>1, <2>9 DEF History!ChangesHands, History!Spell, Past, Holder
<1>2. ASSUME NEW l \in Lead, l \notin Written(w)
      PROVE  History!Stays(l)
  BY <1>2, CommitLeaves DEF IInv, History!Stays
<1>3. DOMAIN caretaker' = Lead /\ DOMAIN startedAt' = Lead
  BY DEF Commit
<1> QED
  BY <1>1, <1>2, <1>3 DEF History!HandOver

(* Deleting an account takes its name out of the present and the past.     *)
LEMMA DeletionForgets ==
    ASSUME IInv, NEW u \in User, DeleteUser(u)
    PROVE  History!Forget(u)
<1>1. caretaker' = [l \in Lead |-> IF caretaker[l] = u THEN NoUser ELSE caretaker[l]]
      /\ UNCHANGED startedAt
  BY DEF DeleteUser
<1>2. ASSUME NEW l \in Lead
      PROVE  Past'[l] = [i \in DOMAIN Past[l] |->
                 [Past[l][i] EXCEPT !.caretaker = IF @ = u THEN NoUser ELSE @]]
  <2> DEFINE s == segments[l]
             n == Len(s)
             forgotten(x) == IF x.caretaker = u THEN [x EXCEPT !.caretaker = NoUser] ELSE x
  <2>1. s \in Seq(Segment) /\ n \in Nat /\ DOMAIN s = 1..n
    BY DEF IInv, TypeOK
  <2>2. segments'[l] = [i \in 1..n |-> forgotten(s[i])]
    BY <2>1 DEF DeleteUser
  <2>3. Len(segments'[l]) = n
    BY <2>1, <2>2
  <2>4. Ended(segments'[l]) = [i \in 1..(n-1) |-> forgotten(s[i])]
    <3>1. 1..(n-1) \subseteq 1..n
      BY <2>1
    <3> QED
      BY <2>2, <2>3, <3>1 DEF Ended
  <2>5. \A x \in Segment : forgotten(x) = [x EXCEPT !.caretaker = IF @ = u THEN NoUser ELSE @]
    BY DEF Segment
  <2>6. \A i \in 1..(n-1) : s[i] \in Segment
    BY <2>1
  <2>7. Past[l] = [i \in 1..(n-1) |-> s[i]] /\ Past'[l] = Ended(segments'[l])
    BY DEF Past, Ended
  <2>8. DOMAIN Past[l] = 1..(n-1)
    BY <2>7
  <2>9. \A i \in 1..(n-1) : forgotten(s[i]) =
            [Past[l][i] EXCEPT !.caretaker = IF @ = u THEN NoUser ELSE @]
    <3> HIDE DEF forgotten
    <3> QED
      BY <2>5, <2>6, <2>7
  <2> HIDE DEF forgotten, n, s
  <2> QED
    BY <2>4, <2>7, <2>8, <2>9
<1> QED
  BY <1>1, <1>2 DEF History!Forget, History!Without, Past

(* No other step writes what the history is about.                         *)
LEMMA OthersKeepHistory ==
    ASSUME [Next]_vars, \A w \in Worker : ~Commit(w), \A u \in User : ~DeleteUser(u)
    PROVE  UNCHANGED <<caretaker, startedAt, segments>>
  BY DEF Next, Tick, RenderForm, CloseForm, Deactivate, ToggleByForm, Request,
         BeginReassign, BeginAssignOwner, BeginOrder, BeginReconcile, Begin, Step, LockLead,
         Decide, SkipLead, Fail, ownerVars, vars

(* Every behaviour of the services is one of the history they promise: one *)
(* holder at a time, one instant per handover, and a past that only loses  *)
(* the names of deleted accounts.                                          *)
THEOREM HistoryIsImplemented == Spec => HistoryIsKept
<1>1. ASSUME IInv, [Next]_vars
      PROVE  [History!Next]_(History!vars)
  <2>1. ASSUME NEW w \in Worker, Commit(w)
        PROVE  History!Next
    BY <1>1, <2>1, CommitHandsOver DEF History!Next
  <2>2. ASSUME NEW u \in User, DeleteUser(u)
        PROVE  History!Next
    BY <1>1, <2>2, DeletionForgets DEF History!Next
  <2>3. CASE (\A w \in Worker : ~Commit(w)) /\ (\A u \in User : ~DeleteUser(u))
    BY <1>1, <2>3, OthersKeepHistory DEF History!vars
  <2> QED
    BY <2>1, <2>2, <2>3
<1> QED
  BY <1>1, HistoryInit, SpecIInv, PTL DEF Spec, HistoryIsKept, History!Spec
=============================================================================
