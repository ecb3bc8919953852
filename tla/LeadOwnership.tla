--------------------------- MODULE LeadOwnership ---------------------------
(***************************************************************************)
(* Who takes care of a lead: crm/leads/services.py (ownership writes),     *)
(* crm/domain/ownership.py (policies), crm/domain/access.py, the account   *)
(* switches of crm/accounts/views.py and the callers that move several     *)
(* leads at once (crm/leads/sync.py, crm/customers/services.py).           *)
(*                                                                         *)
(* A service is a database transaction at READ COMMITTED: it locks a lead, *)
(* reads which accounts are active, decides, and its writes become visible *)
(* together when it commits.  Accounts are rows of their own, so they can  *)
(* change between the read and the commit.                                 *)
(*                                                                         *)
(* Instants count half days: an even instant is a Bangkok midnight, the    *)
(* only time an order carries (order_date is a date).                      *)
(***************************************************************************)
EXTENDS LeadRow, Integers, Sequences, FiniteSets

CONSTANTS
    User,           \* the accounts
    NoUser,         \* null caretaker, null closer
    NoLead,         \* no lead being decided
    Members,        \* Members[l]: users with a lead-holding role in l's team
    Policy,         \* Policy[l]: the ownership policy of l's team
    FormToggles,    \* may the user form switch an account on and off?
    UserDeletion,   \* may an account be deleted in the Django admin?
    ScriptedPosts,  \* may a reassignment come without the version of a page?
    MaxPages,       \* bound: lead pages open at the same time
    MaxInactive,    \* bound: accounts inactive at the same time
    MaxTime,        \* bound: last instant of the clock
    MaxSegments     \* bound: ownership segments per lead

ASSUME NullsAreNull == NoUser \notin User /\ NoLead \notin Lead
ASSUME MembersAreUsers == Members \in [Lead -> SUBSET User]
ASSUME PolicyIsKnown == Policy \in [Lead -> {"EXCLUSIVE", "LATEST_ORDER"}]
ASSUME BoundsAreNat == {MaxPages, MaxInactive, MaxTime, MaxSegments} \subseteq Nat
ASSUME SwitchesAreBoolean == {FormToggles, UserDeletion, ScriptedPosts} \subseteq BOOLEAN

VARIABLES
    account,    \* account[u]: "active", "inactive" or "deleted"
    pending,    \* users whose deactivation view has not reconciled yet
    caretaker,  \* caretaker[l]: Lead.caretaker
    routing,    \* routing[l]: Lead.routing_state
    access,     \* access[l]: Lead.access_user_ids
    startedAt,  \* startedAt[l]: Lead.ownership_started_at
    segments,   \* segments[l]: the OwnershipSegment rows, oldest first
    now,        \* the clock
    forms,      \* lead pages in users' browsers
    txn         \* txn[w]: the transaction w runs, with its uncommitted writes

ownerVars == <<caretaker, routing, access, startedAt, segments>>
vars == <<rowVars, account, pending, ownerVars, now, forms, txn>>

-----------------------------------------------------------------------------
NoTime == -1
Instant == 0..MaxTime
Midnight(t) == t - (t % 2)
OrderDate == {t \in Instant : Midnight(t) = t}

Holder == User \cup {NoUser}
Segment == [caretaker : Holder, start : Instant, end : Instant \cup {NoTime}]
Form == [lead : Lead, version : Version, caretaker : Holder]
Write == [to : Holder, at : Instant]
NoWrite == [to |-> NoUser, at |-> NoTime]

(* op: which service; who: the target, closer or deactivated user; at: the *)
(* order's business time; form: the version the user's page carried; todo: *)
(* leads not locked yet; cur: lead locked but not decided; writes: what    *)
(* the commit will make visible.                                           *)
Txn == [op : {"idle", "reassign", "assign_owner", "order", "reconcile"},
        who : Holder, at : Instant \cup {NoTime}, form : Version \cup {NoVersion},
        todo : SUBSET Lead, cur : Lead \cup {NoLead},
        writes : [Lead -> Write \cup {NoWrite}]]

Start(op, who, at, form, todo) ==
    [op |-> op, who |-> who, at |-> at, form |-> form, todo |-> todo,
     cur |-> NoLead, writes |-> [l \in Lead |-> NoWrite]]

Idle == Start("idle", NoUser, NoTime, NoVersion, {})

Active == {u \in User : account[u] = "active"}
Existing == {u \in User : account[u] # "deleted"}

TypeOK ==
    /\ RowTypeOK
    /\ account \in [User -> {"active", "inactive", "deleted"}]
    /\ pending \subseteq User
    /\ caretaker \in [Lead -> Holder]
    /\ routing \in [Lead -> {"ASSIGNED", "TEAM_UNASSIGNED"}]
    /\ access \in [Lead -> SUBSET User]
    /\ startedAt \in [Lead -> Instant \cup {NoTime}]
    /\ segments \in [Lead -> Seq(Segment)]
    /\ now \in Instant
    /\ forms \subseteq Form
    /\ txn \in [Worker -> Txn]

(* An intake conversion or a backfill gives a new lead an open segment     *)
(* without a caretaker; the import creates one with no segment at all.     *)
Init ==
    /\ RowInit
    /\ account = [u \in User |-> "active"]
    /\ pending = {}
    /\ caretaker = [l \in Lead |-> NoUser]
    /\ routing = [l \in Lead |-> "TEAM_UNASSIGNED"]
    /\ access = [l \in Lead |-> {}]
    /\ startedAt \in [Lead -> {0, NoTime}]
    /\ segments = [l \in Lead |->
           IF startedAt[l] = NoTime THEN <<>>
           ELSE <<[caretaker |-> NoUser, start |-> 0, end |-> NoTime]>>]
    /\ now = 0
    /\ forms = {}
    /\ txn = [w \in Worker |-> Idle]

-----------------------------------------------------------------------------
(* Pure rules.                                                             *)

(* An inactive caretaker is stored as no caretaker at all.                 *)
Effective(u) == IF u \in Active THEN u ELSE NoUser

(* Mutant: routing does not look at whether there is a caretaker left.     *)
RoutingAssigned(u) == "ASSIGNED"
DeriveRouting(u) == IF u = NoUser THEN "TEAM_UNASSIGNED" ELSE "ASSIGNED"
DeriveAccess(u) == IF u = NoUser THEN {} ELSE {u}

(* Dated on or after the Bangkok day the current ownership began.          *)
Eligible(at, l) == startedAt[l] = NoTime \/ at >= Midnight(startedAt[l])

(* Mutant: every policy follows the last closer.                           *)
ResolveLatest(l, closer) == IF closer = NoUser THEN caretaker[l] ELSE closer

(* EXCLUSIVE takes a closer only when nobody holds the lead; LATEST_ORDER  *)
(* moves the lead to every new human closer.                               *)
Resolve(l, closer) ==
    IF Policy[l] = "EXCLUSIVE" /\ caretaker[l] # NoUser THEN caretaker[l]
    ELSE IF closer = NoUser THEN caretaker[l] ELSE closer

(* The instant of the handover: never before the segment it closes.        *)
OpenSegments(s) == {i \in DOMAIN s : s[i].end = NoTime}

(* Mutants: the boundary is not clamped; it needs a segment to start from. *)
BoundaryUnclamped(s, at) == at
BoundaryOfOpen(s, at) == IF OpenSegments(s) = {} THEN NoTime ELSE at

Boundary(s, at) ==
    IF \E i \in OpenSegments(s) : at < s[i].start
    THEN s[CHOOSE i \in OpenSegments(s) : TRUE].start
    ELSE at

(* Mutants: the open segment stays open; a handover to the same caretaker  *)
(* is taken for no handover.                                               *)
HandoverLeavesOpen(s, to, at) ==
    Append(s, [caretaker |-> to, start |-> at, end |-> NoTime])
HandoverOnlyToOther(s, to, at) ==
    IF s # <<>> /\ s[Len(s)].caretaker = to THEN s
    ELSE Append([i \in DOMAIN s |-> IF i \in OpenSegments(s) THEN [s[i] EXCEPT !.end = at] ELSE s[i]],
                [caretaker |-> to, start |-> at, end |-> NoTime])

(* Close what is open, open the next segment, both at the same instant.    *)
Handover(s, to, at) ==
    Append([i \in DOMAIN s |-> IF i \in OpenSegments(s) THEN [s[i] EXCEPT !.end = at] ELSE s[i]],
           [caretaker |-> to, start |-> at, end |-> NoTime])

-----------------------------------------------------------------------------
(* Pages and accounts.                                                     *)

Tick ==
    /\ now < MaxTime
    /\ now' = now + 1
    /\ UNCHANGED <<rowVars, account, pending, ownerVars, forms, txn>>

RenderForm(l) ==
    /\ Cardinality(forms) < MaxPages
    /\ forms' = forms \cup
           {[lead |-> l, version |-> version[l], caretaker |-> caretaker[l]]}
    /\ UNCHANGED <<rowVars, account, pending, ownerVars, now, txn>>

CloseForm(f) ==
    /\ forms' = forms \ {f}
    /\ UNCHANGED <<rowVars, account, pending, ownerVars, now, txn>>

RoomForInactive == Cardinality({u \in User : account[u] = "inactive"}) < MaxInactive

(* Mutant: the leads are cleared by a bulk update next to is_active.       *)
DeactivateInBulk(u) ==
    /\ account[u] = "active"
    /\ account' = [account EXCEPT ![u] = "inactive"]
    /\ caretaker' = [l \in Lead |-> IF caretaker[l] = u THEN NoUser ELSE caretaker[l]]
    /\ UNCHANGED <<rowVars, pending, routing, access, startedAt, segments, now, forms, txn>>

(* deactivate_user saves is_active first, in a statement of its own, and   *)
(* reconciles the leads afterwards.                                        *)
Deactivate(u) ==
    /\ account[u] = "active" /\ RoomForInactive
    /\ account' = [account EXCEPT ![u] = "inactive"]
    /\ pending' = pending \cup {u}
    /\ UNCHANGED <<rowVars, ownerVars, now, forms, txn>>

(* save_user and the Django admin carry is_active as an ordinary field.    *)
ToggleByForm(u) ==
    /\ FormToggles
    /\ \/ account[u] = "active" /\ RoomForInactive /\ account' = [account EXCEPT ![u] = "inactive"]
       \/ account[u] = "inactive" /\ account' = [account EXCEPT ![u] = "active"]
    /\ UNCHANGED <<rowVars, pending, ownerVars, now, forms, txn>>

(* The Django admin deletes an account: every reference to it is SET_NULL, *)
(* and nothing else of the lead changes.                                   *)
DeleteUser(u) ==
    /\ UserDeletion
    /\ account[u] # "deleted" /\ u \notin pending
    /\ \A w \in Worker : txn[w].who # u
    /\ \A l \in Lead : caretaker[l] = u => Unlocked(l)
    /\ account' = [account EXCEPT ![u] = "deleted"]
    /\ caretaker' = [l \in Lead |-> IF caretaker[l] = u THEN NoUser ELSE caretaker[l]]
    /\ segments' = [l \in Lead |-> [i \in DOMAIN segments[l] |->
           IF segments[l][i].caretaker = u
           THEN [segments[l][i] EXCEPT !.caretaker = NoUser] ELSE segments[l][i]]]
    /\ UNCHANGED <<rowVars, pending, routing, access, startedAt, now, forms, txn>>

-----------------------------------------------------------------------------
(* Transactions: begin, then lock and decide each lead, then commit.       *)

Begin(w, t) ==
    /\ txn[w] = Idle
    /\ txn' = [txn EXCEPT ![w] = t]
    /\ UNCHANGED <<rowVars, account, ownerVars, now, forms>>

(* The reassign view: one lead, the version the page carried (or none).    *)
BeginReassign(w, l, u, v) ==
    /\ Begin(w, Start("reassign", u, NoTime, v, {l}))
    /\ u \in Active \cup {NoUser}
    /\ UNCHANGED pending

(* assign_owner: every lead of the customer, one transaction, no version.  *)
BeginAssignOwner(w, u) ==
    /\ Begin(w, Start("assign_owner", u, NoTime, NoVersion, Lead))
    /\ u \in Active
    /\ UNCHANGED pending

(* An order was saved: sync_leads_for_order visits each lead.  The closer  *)
(* is resolved once; an order without a date takes the current instant.    *)
BeginOrder(w, closer, at) ==
    /\ Begin(w, Start("order", closer, at, NoVersion, Lead))
    /\ closer \in Existing \cup {NoUser}
    /\ UNCHANGED pending

(* reconcile_lead_access, from the deactivation view or from the repair    *)
(* command: the leads are listed before any of them is locked.             *)
BeginReconcile(w, u) ==
    /\ Begin(w, Start("reconcile", u, NoTime, NoVersion, {l \in Lead : caretaker[l] = u}))
    /\ u \in pending \/ (u \notin Active /\ \E l \in Lead : caretaker[l] = u)
    /\ pending' = pending \ {u}

(* lock_lead, then the version check and, on the manual path, the reread   *)
(* of the target.  A failing check raises: see Fail.                       *)
LockLead(w, l) ==
    LET t == txn[w] IN
    /\ t.cur = NoLead /\ l \in t.todo
    /\ FormIsCurrent(l, t.form)
    /\ t.op \in {"reassign", "assign_owner"} /\ t.who # NoUser =>
           t.who \in Active \cap Members[l]
    /\ Acquire(w, l)
    /\ txn' = [txn EXCEPT ![w].cur = l, ![w].todo = @ \ {l}]
    /\ UNCHANGED <<version, account, pending, ownerVars, now, forms>>

(* What the locked lead, the accounts active NOW and the request decide.   *)
Decision(w, l) ==
    LET t == txn[w]
        closer == Effective(t.who)
    IN  CASE t.op = "order" ->
                 IF Eligible(t.at, l) /\ Resolve(l, closer) # caretaker[l]
                 THEN [to |-> Resolve(l, closer), at |-> t.at] ELSE NoWrite
          [] t.op = "reconcile" ->
                 IF caretaker[l] = t.who
                 THEN [to |-> Effective(t.who),
                       at |-> IF startedAt[l] = NoTime THEN now ELSE startedAt[l]]
                 ELSE NoWrite
          [] OTHER -> [to |-> Effective(t.who), at |-> now]

Decide(w) ==
    LET l == txn[w].cur IN
    /\ l # NoLead
    /\ txn' = [txn EXCEPT ![w].cur = NoLead, ![w].writes[l] = Decision(w, l)]
    /\ UNCHANGED <<rowVars, account, pending, ownerVars, now, forms>>

(* Mutant: assign_owner, too, goes on when one lead fails.                 *)
SkipAnyLead(w, l) ==
    /\ l = txn[w].cur \/ (txn[w].cur = NoLead /\ l \in txn[w].todo)
    /\ txn' = [txn EXCEPT ![w].cur = NoLead, ![w].todo = @ \ {l}]
    /\ lock' = [lock EXCEPT ![l] = IF @ = w THEN Free ELSE @]
    /\ UNCHANGED <<version, account, pending, ownerVars, now, forms>>

(* sync_leads_for_order swallows a failure: the savepoint of this lead is  *)
(* rolled back, its lock with it, and the other leads go on.               *)
SkipLead(w, l) ==
    /\ txn[w].op = "order"
    /\ l = txn[w].cur \/ (txn[w].cur = NoLead /\ l \in txn[w].todo)
    /\ txn' = [txn EXCEPT ![w].cur = NoLead, ![w].todo = @ \ {l}]
    /\ lock' = [lock EXCEPT ![l] = IF @ = w THEN Free ELSE @]
    /\ UNCHANGED <<version, account, pending, ownerVars, now, forms>>

Written(w) == {l \in Lead : txn[w].writes[l] # NoWrite}

(* _apply_caretaker for every lead decided, visible together.              *)
Commit(w) ==
    LET moved == Written(w)
        to(l) == txn[w].writes[l].to
        at(l) == Boundary(segments[l], txn[w].writes[l].at)
    IN
    /\ txn[w].op # "idle" /\ txn[w].todo = {} /\ txn[w].cur = NoLead
    /\ \A l \in moved : Len(segments[l]) < MaxSegments /\ version[l] < MaxVersion
    /\ segments' = [l \in Lead |->
           IF l \in moved THEN Handover(segments[l], to(l), at(l)) ELSE segments[l]]
    /\ caretaker' = [l \in Lead |-> IF l \in moved THEN to(l) ELSE caretaker[l]]
    /\ routing' = [l \in Lead |-> IF l \in moved THEN DeriveRouting(to(l)) ELSE routing[l]]
    /\ access' = [l \in Lead |-> IF l \in moved THEN DeriveAccess(to(l)) ELSE access[l]]
    /\ startedAt' = [l \in Lead |-> IF l \in moved THEN at(l) ELSE startedAt[l]]
    /\ version' = [l \in Lead |-> IF l \in moved THEN version[l] + 1 ELSE version[l]]
    /\ ReleaseAll(w)
    /\ txn' = [txn EXCEPT ![w] = Idle]
    /\ UNCHANGED <<account, pending, now, forms>>

(* Any exception (stale form, refused target, deadlock victim) or a dead   *)
(* worker: PostgreSQL drops the writes and the locks.                      *)
Fail(w) ==
    /\ txn[w].op # "idle"
    /\ ReleaseAll(w)
    /\ txn' = [txn EXCEPT ![w] = Idle]
    /\ UNCHANGED <<version, account, pending, ownerVars, now, forms>>

-----------------------------------------------------------------------------
FormVersions(l) ==
    (IF ScriptedPosts THEN {NoVersion} ELSE {})
        \cup {f.version : f \in {g \in forms : g.lead = l}}

Request(w) ==
    \/ \E l \in Lead, u \in Holder : \E v \in FormVersions(l) : BeginReassign(w, l, u, v)
    \/ \E u \in User : BeginAssignOwner(w, u)
    \/ \E u \in Holder, at \in OrderDate \cup {now} : BeginOrder(w, u, at)
    \/ \E u \in User : BeginReconcile(w, u)

Step(w) ==
    \/ \E l \in Lead : LockLead(w, l) \/ SkipLead(w, l)
    \/ Decide(w) \/ Commit(w) \/ Fail(w)

Next ==
    \/ Tick
    \/ \E l \in Lead : RenderForm(l)
    \/ \E f \in forms : CloseForm(f)
    \/ \E u \in User : Deactivate(u) \/ ToggleByForm(u) \/ DeleteUser(u)
    \/ \E w \in Worker : Request(w) \/ Step(w)

Spec == Init /\ [][Next]_vars

-----------------------------------------------------------------------------
(* Properties.                                                             *)

(* The segments of a lead tile its history: each closed one ends where the *)
(* next begins, only the last is open, none runs backwards.  An order date *)
(* may precede the ownership it ends (services._apply_caretaker's clamp).  *)
Tiles(s) ==
    /\ \A i \in DOMAIN s : s[i].end = NoTime <=> i = Len(s)
    /\ \A i \in 1..(Len(s) - 1) : s[i].end = s[i+1].start /\ s[i].start <= s[i].end

SegmentsTile == \A l \in Lead : Tiles(segments[l])

(* The lead row agrees with its open segment: same caretaker, same start.  *)
(* The missed-channel baseline reads the segment, queues read the row.     *)
RowMatches(s, start, holder) ==
    IF s = <<>> THEN start = NoTime /\ holder = NoUser
    ELSE s[Len(s)].start = start /\ s[Len(s)].caretaker = holder

RowMatchesOpenSegment ==
    \A l \in Lead : RowMatches(segments[l], startedAt[l], caretaker[l])

(* A lead is ASSIGNED exactly when somebody holds it, and only the holder  *)
(* is granted access: production code cannot produce a mismatch            *)
(* (docs/TODO-crm-v2.md).                                                  *)
RoutingFollowsCaretaker ==
    \A l \in Lead :
        /\ routing[l] = "ASSIGNED" <=> caretaker[l] # NoUser
        /\ access[l] = DeriveAccess(caretaker[l])

(* The version on an open page identifies the ownership it showed: equal   *)
(* versions mean the page is not stale (models.Lead.version).              *)
VersionIdentifiesOwner ==
    \A f \in forms :
        /\ f.version <= version[f.lead]
        /\ f.version = version[f.lead] => f.caretaker = caretaker[f.lead]

(* What an order decided still holds when it commits: the lead has not been *)
(* taken, nor has its ownership been restarted, behind the decision.       *)
OrderDecisionStands ==
    \A w \in Worker, l \in Lead :
        (txn[w].op = "order" /\ l \in Written(w)) =>
            /\ Eligible(txn[w].at, l)
            /\ Policy[l] = "EXCLUSIVE" => caretaker[l] = NoUser
            /\ txn[w].writes[l].to # caretaker[l]

(* No order takes an EXCLUSIVE lead away from its holder, even when two    *)
(* orders for an unowned lead are saved at the same time.                  *)
ExclusiveIsNeverStolen ==
    [][\A w \in Worker, l \in Lead :
          (txn[w].op = "order" /\ Commit(w) /\ Policy[l] = "EXCLUSIVE"
              /\ caretaker[l] # NoUser)
          => caretaker'[l] = caretaker[l]]_vars

(* An order dated before the day the current ownership began never moves   *)
(* it, whatever committed while the order was waiting for the lock.        *)
StaleOrderMovesNothing ==
    [][\A w \in Worker, l \in Lead :
          (txn[w].op = "order" /\ Commit(w) /\ caretaker'[l] # caretaker[l])
          => Eligible(txn[w].at, l)]_vars

(* The ownership baseline never moves back, so the missed-channel counter  *)
(* never counts again an order an earlier owner answered for.              *)
BaselineNeverMovesBack ==
    [][\A l \in Lead : startedAt'[l] >= startedAt[l]]_vars

BeingDisabled == pending \cup {txn[w].who : w \in {v \in Worker : txn[v].op = "reconcile"}}

(* A caretaker who is not active is stored as no caretaker at all          *)
(* (services.reassign_caretaker): a commit never gives a lead to an account *)
(* whose deactivation, its reconcile included, is over.                    *)
InactiveIsStoredAsNobody ==
    [][\A w \in Worker, l \in Lead :
          (Commit(w) /\ caretaker'[l] # caretaker[l])
          => caretaker'[l] \in Active \cup BeingDisabled \cup {NoUser}]_vars

(* assign_owner is all or nothing: after it every lead of the customer is  *)
(* with the new owner, or with nobody, never with somebody else.           *)
AssignOwnerMovesEveryLead ==
    [][\A w \in Worker :
          (txn[w].op = "assign_owner" /\ Commit(w))
          => \A l \in Lead : caretaker'[l] \in {txn[w].who, NoUser}]_vars

(* The services implement the ownership history they promise: the ended    *)
(* segments are the past, caretaker and baseline the present               *)
(* (OwnershipSegment, _apply_caretaker).                                   *)
Ended(s) == [i \in 1..(Len(s) - 1) |-> s[i]]
History == INSTANCE OwnershipHistory WITH
    holder <- caretaker, since <- startedAt, past <- [l \in Lead |-> Ended(segments[l])],
    Never <- NoTime
HistoryIsKept == History!Spec
============================================================================
