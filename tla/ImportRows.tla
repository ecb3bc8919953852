----------------------------- MODULE ImportRows -----------------------------
(***************************************************************************)
(* What an order in an uploaded file does to the customers and orders:     *)
(* crm/importv2/services (preview, decision_gate, decisions, conflicts,    *)
(* adapters, commit) over the rules of crm/domain (order_merge, identity,  *)
(* row_evaluation, import_confirm, conflict_scope, migration_decisions).   *)
(*                                                                         *)
(* Several batches are open at once, so one is planned against customers   *)
(* and orders that another changes before it commits.  The batch's status  *)
(* and locks are ImportBatch's and the writes under a row ImportJournal's: *)
(* preview, resolution, confirm and commit are one step each here.         *)
(*                                                                         *)
(* Leads, and an order's status with the reversals it may need, are left   *)
(* out.  Of the other fields four are kept, one of each kind: the date, a  *)
(* reference (the closer), a column (the tracking number) and a part of    *)
(* the nested address.  Phones and dates are numbers, every name is its    *)
(* own normal form, and two names are similar when they are equal.         *)
(***************************************************************************)
EXTENDS Integers, FiniteSets, Sequences, FiniteSetsExt, SequencesExt, Access

CONSTANTS
    People,         \* users who work on imports, as in Access
    Staff,          \* users a file may name as closer
    StaffName,      \* StaffName[u]: what files call u
    AliasName,      \* a historical staff name with a migration decision
    MappedUser,     \* the user it may be mapped to
    SharedPhone,    \* a phone whose customer a decision settles
    OddStatus,      \* a status text with a decision
    Files,          \* the files people upload: [kind, rows]
    Seeds,          \* customers and orders there may be before any import
    Batch,          \* uploads
    MaxChanges      \* bound: changes of decisions and staff accounts

ASSUME StaffIsNumbered == Staff \subseteq Nat /\ MappedUser \in Staff
ASSUME ChangesAreCounted == MaxChanges \in Nat
ASSUME BlankIsNoNumber == Blank \notin Nat
ASSUME SharedPhoneIsAPhone == SharedPhone # Blank

VARIABLES
    active,         \* staff whose account is active
    changes,        \* changes of accounts and decisions so far
    decision,       \* the migration decisions
    customers,      \* customer rows, by id
    orders,         \* order rows, by id
    merged,         \* merged[i]: the patches the commits merged into order i
    batch           \* the batches with their plans and conflicts

db == <<customers, orders, merged>>
vars == <<active, changes, decision, customers, orders, merged, batch>>

-----------------------------------------------------------------------------
(* Rows.                                                                   *)

Field == {"date", "closer", "track", "line"}
NoValues == [f \in Field |-> Blank]

ASSUME FilesAreFiles ==
    \A file \in Files :
        /\ file.rows \in Seq(Range(file.rows))
        /\ \A row \in Range(file.rows) :
            /\ DOMAIN row = {"no", "date", "name", "phone", "alt", "seller", "status", "team",
                             "track", "line", "bad"}
            /\ row.date \in Nat \cup {Blank}

(* Nothing but an import stamps a field.                                   *)
ASSUME SeedsAreUnstamped ==
    \A s \in Seeds :
        /\ s.customers \in Seq(Range(s.customers)) /\ s.orders \in Seq(Range(s.orders))
        /\ \A o \in Range(s.orders) :
            /\ DOMAIN o = {"customer", "no", "value", "stamp"}
            /\ o.customer \in DOMAIN s.customers /\ DOMAIN o.value = Field /\ o.stamp = NoValues

(* A migration decision of each category a supported file can meet: their  *)
(* profiles require a date, so a row without one is invalid before any     *)
(* NULL_DATE_ORDER decision is asked for.                                  *)
DecisionId == {"STAFF_ALIAS", "IDENTITY_REVIEW", "UNKNOWN_STATUS"}

AllowedActions ==
    [STAFF_ALIAS |-> {"MAP_TO_USER", "HISTORICAL_ONLY", "DEFER"},
     IDENTITY_REVIEW |-> {"MATCH_EXISTING", "CREATE_NEW_CUSTOMER", "KEEP_SEPARATE", "DEFER"},
     UNKNOWN_STATUS |-> {"MAP_TO_STATUS", "ARCHIVE_ONLY", "DEFER"}]

NextStatusFor(action) == IF action = "DEFER" THEN "DEFERRED" ELSE "RESOLVED"

NewBatch == [status |-> "NONE", file |-> Blank, plans |-> <<>>, conflicts |-> <<>>, digest |-> {}]

Statuses == {"NONE", "PREVIEW", "AWAITING_RESOLUTION", "COMMITTING", "COMMITTED", "FAILED_RETRYABLE"}

TypeOK ==
    /\ active \subseteq Staff
    /\ \A d \in DecisionId :
        /\ decision[d].status \in {"OPEN", "DEFERRED", "RESOLVED"}
        /\ decision[d].revision \in 1..changes + 1
        /\ decision[d].status = "RESOLVED" => decision[d].action \in AllowedActions[d] \ {"DEFER"}
    /\ \A o \in Range(orders) :
        /\ o.customer \in DOMAIN customers
        /\ DOMAIN o.value = Field /\ DOMAIN o.stamp = Field
        /\ \A f \in Field : o.value[f] = Blank => o.stamp[f] = Blank
    /\ DOMAIN merged = DOMAIN orders
    /\ \A b \in Batch : batch[b].status \in Statuses

Init ==
    /\ active = Staff
    /\ changes = 0
    /\ decision = [d \in DecisionId |-> [status |-> "OPEN", revision |-> 1, action |-> ""]]
    /\ \E s \in Seeds : customers = s.customers /\ orders = s.orders
    /\ merged = [i \in DOMAIN orders |-> {}]
    /\ batch = [b \in Batch |-> NewBatch]

-----------------------------------------------------------------------------
(* order_merge: what each field of an incoming patch does to an order.     *)

(* Only imports stamp fields, always with precedence 10, so the rules that *)
(* compare precedences never apply.  Mutant: an older source is accepted.  *)
KindAnyAge(before, after, stamp, at) ==
    IF after \in {Blank, before} THEN "UNCHANGED"
    ELSE IF before = Blank \/ stamp = Blank \/ at # stamp THEN "SAFE_UPDATE" ELSE "CONFLICT"

Kind(before, after, stamp, at) ==
    IF after \in {Blank, before} THEN "UNCHANGED"
    ELSE IF before = Blank \/ stamp = Blank \/ at > stamp THEN "SAFE_UPDATE"
    ELSE IF at < stamp THEN "STALE_INPUT" ELSE "CONFLICT"

KindOf(order, patch, f) == Kind(order.value[f], patch.value[f], order.stamp[f], patch.at)
Blocking(order, patch) == {f \in Field : KindOf(order, patch, f) = "CONFLICT"}

(* merge_order, then _update_order, which takes the one choice made for    *)
(* the row to every conflicting field; an accepted part of the address is  *)
(* stored under a name nothing reads.  Mutant: choosing nothing accepts.   *)
MergeUnlessKept(order, patch, choice) ==
    LET taken == {f \in Field : KindOf(order, patch, f) \in {"SAFE_UPDATE", "CONFLICT"}}
    IN  [order EXCEPT !.value = [f \in Field |-> IF f \in taken /\ choice # "KEEP_EXISTING"
                                                 THEN patch.value[f] ELSE @[f]],
                      !.stamp = [f \in Field |-> IF f \in taken THEN patch.at ELSE @[f]]]

Merge(order, patch, choice) ==
    LET safe == {f \in Field : KindOf(order, patch, f) = "SAFE_UPDATE"}
        accepted == IF choice = "ACCEPT_INCOMING" THEN Blocking(order, patch) \ {"line"} ELSE {}
    IN  [order EXCEPT !.value = [f \in Field |-> IF f \in safe \cup accepted
                                                 THEN patch.value[f] ELSE @[f]],
                      !.stamp = [f \in Field |-> IF f \in safe THEN patch.at ELSE @[f]]]

(* _create_order and _stamp.  Mutant: a field without a value is stamped.  *)
NewOrderStampsAll(customer, no, patch) ==
    [customer |-> customer, no |-> no, value |-> patch.value, stamp |-> [f \in Field |-> patch.at]]

NewOrder(customer, no, patch) ==
    [customer |-> customer, no |-> no, value |-> patch.value,
     stamp |-> [f \in Field |-> IF patch.value[f] = Blank THEN Blank ELSE patch.at]]

-----------------------------------------------------------------------------
(* Who a row is about.                                                     *)

(* Directory.user_for: exactly one active user carries the name.           *)
UserFor(name) ==
    LET hits == {u \in active : StaffName[u] = name}
    IN  IF Cardinality(hits) = 1 THEN CHOOSE u \in hits : TRUE ELSE Blank

Phones(x) == {x.phone, x.alt} \ {Blank}

(* new_customer_phone_key, and the split key <key>#<order> of a customer   *)
(* who must stay apart.  Mutant: everyone with a phone shares its key.     *)
PhoneKeyShared(row, split) ==
    IF Phones(row) = {} THEN <<"row", row.no, split>> ELSE <<"phone", Min(Phones(row)), Blank>>

PhoneKey(row, split) ==
    IF Phones(row) = {} THEN <<"row", row.no, split>>
    ELSE <<"phone", Min(Phones(row)), IF split THEN row.no ELSE Blank>>

(* The customers the phone index finds (_resolve_customer).                *)
Candidates(row) ==
    {c \in DOMAIN customers :
        \/ Phones(customers[c]) \cap Phones(row) # {}
        \/ \E p \in Phones(row) : customers[c].key = <<"phone", p, Blank>>}

(* classify_identity of one candidate.                                     *)
Classify(row, c) ==
    LET exact == row.phone \in Phones(customers[c])
        similar == row.name = customers[c].name
    IN  IF exact /\ similar THEN "AUTO_MATCH"
        ELSE IF exact \/ similar THEN "HUMAN_REVIEW" ELSE "NEW_CUSTOMER"

(* classify_identity_guarded: several qualifying customers are nobody's    *)
(* match.                                                                  *)
Identity(row) ==
    LET qualify == {c \in Candidates(row) : Classify(row, c) # "NEW_CUSTOMER"}
        only == CHOOSE c \in qualify : TRUE
    IN  IF qualify = {} THEN [kind |-> "NEW_CUSTOMER", candidate |-> Blank]
        ELSE IF Cardinality(qualify) = 1 THEN [kind |-> Classify(row, only), candidate |-> only]
        ELSE [kind |-> "HUMAN_REVIEW", candidate |-> Blank]

(* _holders_of_orders: the oldest order that carries the number.           *)
Holders(no) == {i \in DOMAIN orders : orders[i].no = no}
HolderOf(no) == orders[Min(Holders(no))].customer

JoinByOrderNumber == {"LITE_DETAIL_ORDER", "INOUT_MANAGE_MAIN"}
Joined(kind, row) == kind \in JoinByOrderNumber /\ Holders(row.no) # {}

OrderOf(book, customer, no) == {i \in DOMAIN book : book[i].customer = customer /\ book[i].no = no}

(* A Lite row has no phone: who it is about comes from the order.          *)
Filled(kind, row) ==
    IF kind = "LITE_DETAIL_ORDER"
    THEN LET c == customers[HolderOf(row.no)]
         IN  [row EXCEPT !.phone = c.phone, !.alt = c.alt, !.name = c.name, !.line = c.line]
    ELSE row

-----------------------------------------------------------------------------
(* decision_gate: the decisions a row consults and what they say.          *)

Consults(row) ==
    (IF row.seller = AliasName /\ UserFor(row.seller) = Blank THEN {"STAFF_ALIAS"} ELSE {})
    \cup (IF row.phone = SharedPhone THEN {"IDENTITY_REVIEW"} ELSE {})
    \cup (IF row.status = OddStatus THEN {"UNKNOWN_STATUS"} ELSE {})

Says(row, d, action) ==
    d \in Consults(row) /\ decision[d].status = "RESOLVED" /\ decision[d].action = action

Unresolved(row) == \E d \in Consults(row) : decision[d].status # "RESOLVED"
Excluded(row) == Says(row, "UNKNOWN_STATUS", "ARCHIVE_ONLY")
Separate(row) == Says(row, "IDENTITY_REVIEW", "CREATE_NEW_CUSTOMER") \/ Says(row, "IDENTITY_REVIEW", "KEEP_SEPARATE")

Closer(row) ==
    IF Says(row, "STAFF_ALIAS", "MAP_TO_USER")
    THEN IF MappedUser \in active THEN MappedUser ELSE Blank
    ELSE UserFor(row.seller)

(* The customer a decision names is the first of its candidates.           *)
Who(kind, row) ==
    IF Separate(row) THEN [kind |-> "NEW_CUSTOMER", candidate |-> Blank]
    ELSE IF Says(row, "IDENTITY_REVIEW", "MATCH_EXISTING") THEN [kind |-> "AUTO_MATCH", candidate |-> 1]
    ELSE IF Joined(kind, row) THEN [kind |-> "AUTO_MATCH", candidate |-> HolderOf(row.no)]
    ELSE Identity(row)

(* live_decision_state.                                                    *)
Live(used) == {<<d, decision[d].status, decision[d].revision>> : d \in used}

-----------------------------------------------------------------------------
(* Preview.                                                                *)

Invalid(row) == row.bad \/ row.date = Blank \/ row.no = Blank

Patch(row) ==
    [at |-> row.date,
     value |-> [date |-> row.date, closer |-> Closer(row), track |-> row.track, line |-> row.line]]

Plan(what, row, patch, who, used) ==
    [what |-> what, row |-> row, patch |-> patch, who |-> who, used |-> used, separate |-> Separate(row)]

Nobody == [kind |-> "", candidate |-> Blank]
NoPatch == [at |-> Blank, value |-> NoValues]

(* One order of the file (the loop of build_preview).                      *)
PlanOf(kind, row) ==
    IF Invalid(row) THEN Plan("INVALID", row, NoPatch, Nobody, {})
    ELSE IF kind = "LITE_DETAIL_ORDER" /\ Holders(row.no) = {}
         THEN Plan("EXCLUDED", row, NoPatch, Nobody, {})
    ELSE LET full == Filled(kind, row)
         IN  IF Excluded(full) THEN Plan("EXCLUDED", full, NoPatch, Nobody, Consults(full))
             ELSE Plan("ROW", full, Patch(full), Who(kind, full), Consults(full))

(* The customer the plan attaches to; a match under review is none.        *)
Target(plan) == IF plan.who.kind = "AUTO_MATCH" THEN plan.who.candidate ELSE Blank

(* The conflicts of a row (evaluate_row and the decisions' blockers), each *)
(* still open; a MAPPING conflict offers nothing to choose.                *)
Conflicts(plan) ==
    IF plan.what # "ROW" THEN {}
    ELSE (IF plan.who.kind = "HUMAN_REVIEW" THEN {"identity"} ELSE {})
         \cup (IF Unresolved(plan.row) THEN {"mapping"} ELSE {})
         \cup UNION {Blocking(orders[i], plan.patch) : i \in OrderOf(orders, Target(plan), plan.row.no)}

Options(plan, about) ==
    CASE about = "mapping" -> {}
      [] about = "identity" -> {"NEW_CUSTOMER"} \cup (IF plan.who.candidate = Blank THEN {} ELSE {"AUTO_MATCH"})
      [] OTHER -> {"KEEP_EXISTING", "ACCEPT_INCOMING"}

Used(plans) == UNION {p.used : p \in Range(plans)}

Upload(b, u) ==
    /\ CanImportV2(u)
    /\ batch[b].status = "NONE"
    /\ \E file \in Files : batch' = [batch EXCEPT ![b].file = file, ![b].status = "PREVIEW"]
    /\ UNCHANGED <<active, changes, decision, db>>

(* build_preview: a file with an invalid row stays where it is.            *)
Preview(b, u) ==
    /\ CanImportV2(u)
    /\ batch[b].status \in {"PREVIEW", "AWAITING_RESOLUTION"}
    /\ LET file == batch[b].file
           plans == [i \in DOMAIN file.rows |-> PlanOf(file.kind, file.rows[i])]
           asked == [i \in DOMAIN plans |-> [c \in Conflicts(plans[i]) |-> ""]]
           ok == \A p \in Range(plans) : p.what # "INVALID"
       IN  batch' = [batch EXCEPT ![b].plans = plans, ![b].conflicts = asked,
                                  ![b].digest = Live(Used(plans)),
                                  ![b].status = IF ok THEN "AWAITING_RESOLUTION" ELSE @]
    /\ UNCHANGED <<active, changes, decision, db>>

-----------------------------------------------------------------------------
(* Resolutions.                                                            *)

(* assert_resolver_scope: a Team Lead decides about one team's rows, never *)
(* about who a customer is.                                                *)
MayResolve(u, plan, about) ==
    /\ CanResolveImportConflicts(u)
    /\ ImportActorRole(u) = "ADMIN" \/ (about # "identity" /\ plan.row.team \in TeamScope(u))

(* resolve_conflict re-derives the digest, from the decisions as they are. *)
Resolve(b, i, about, choice, u) ==
    /\ batch[b].status = "AWAITING_RESOLUTION"
    /\ MayResolve(u, batch[b].plans[i], about)
    /\ batch[b].conflicts[i][about] = ""
    /\ choice \in Options(batch[b].plans[i], about)
    /\ batch' = [batch EXCEPT ![b].conflicts[i][about] = choice,
                              ![b].digest = Live(Used(batch[b].plans))]
    /\ UNCHANGED <<active, changes, decision, db>>

(* resolve_decision; validate_resolution wants the named customer among    *)
(* the candidates it has evidence of.                                      *)
ResolveDecision(d, action, u) ==
    /\ CanImportV2(u)
    /\ decision[d].status # "RESOLVED"
    /\ changes < MaxChanges
    /\ action \in AllowedActions[d]
    /\ action = "MATCH_EXISTING" => 1 \in DOMAIN customers
    /\ decision' = [decision EXCEPT ![d] = [status |-> NextStatusFor(action), revision |-> @.revision + 1,
                                            action |-> action]]
    /\ changes' = changes + 1
    /\ UNCHANGED <<active, db, batch>>

ReopenDecision(d, u) ==
    /\ CanImportV2(u)
    /\ decision[d].status = "RESOLVED"
    /\ changes < MaxChanges
    /\ decision' = [decision EXCEPT ![d] = [status |-> "OPEN", revision |-> @.revision + 1, action |-> ""]]
    /\ changes' = changes + 1
    /\ UNCHANGED <<active, db, batch>>

SwitchAccount(u) ==
    /\ changes < MaxChanges
    /\ active' = (active \ {u}) \cup ({u} \ active)
    /\ changes' = changes + 1
    /\ UNCHANGED <<decision, db, batch>>

-----------------------------------------------------------------------------
(* Confirm and commit.                                                     *)

Open(b) == \E i \in DOMAIN batch[b].conflicts : \E c \in DOMAIN batch[b].conflicts[i] : batch[b].conflicts[i][c] = ""

(* Mutant: the digest leaves the decisions out.                            *)
DigestIgnored(b) == TRUE
DigestHolds(b) == Live(Used(batch[b].plans)) = batch[b].digest

(* evaluate_confirm and _confirm_locked.                                   *)
Confirm(b, u) ==
    /\ CanImportV2(u)
    /\ batch[b].status = "AWAITING_RESOLUTION"
    /\ \A p \in Range(batch[b].plans) : p.what # "INVALID"
    /\ ~Open(b)
    /\ DigestHolds(b)
    /\ batch' = [batch EXCEPT ![b].status = "COMMITTING"]
    /\ UNCHANGED <<active, changes, decision, db>>

(* _resolutions: of the choices made for a row's fields, the one of the    *)
(* conflict that comes last counts.                                        *)
FieldsInOrder == <<"track", "line", "date", "closer">>
ChoiceFor(answers) ==
    LET asked == {n \in DOMAIN FieldsInOrder : FieldsInOrder[n] \in DOMAIN answers}
    IN  IF asked = {} THEN "" ELSE answers[FieldsInOrder[Max(asked)]]

(* _create_customer: a customer who already has the key is this one.       *)
WithCustomer(world, row, split) ==
    LET key == PhoneKey(row, split)
        known == {c \in DOMAIN world.customers : world.customers[c].key = key}
    IN  IF known # {} THEN [world EXCEPT !.at = Min(known)]
        ELSE [world EXCEPT !.customers = Append(@, [name |-> row.name, phone |-> row.phone, alt |-> row.alt,
                                                    line |-> row.line, key |-> key]),
                           !.at = Len(world.customers) + 1]

WhoseOrder(world, plan, answers) ==
    IF Target(plan) # Blank THEN [world EXCEPT !.at = Target(plan)]
    ELSE IF plan.who.kind = "HUMAN_REVIEW" /\ answers["identity"] = "AUTO_MATCH"
         THEN [world EXCEPT !.at = plan.who.candidate]
    ELSE WithCustomer(world, plan.row, plan.separate \/ plan.who.kind = "HUMAN_REVIEW")

(* _apply_group: find or create the customer, then the order.              *)
WriteRow(world, plan, answers) ==
    LET w == WhoseOrder(world, plan, answers)
        held == OrderOf(w.orders, w.at, plan.row.no)
        i == CHOOSE j \in held : TRUE
    IN  IF held = {}
        THEN [w EXCEPT !.orders = Append(@, NewOrder(w.at, plan.row.no, plan.patch)),
                       !.merged = Append(@, {plan.patch})]
        ELSE [w EXCEPT !.orders[i] = Merge(@, plan.patch, ChoiceFor(answers)),
                       !.merged[i] = @ \cup {plan.patch}]

(* The rows in order, but those a decision left out: what is there after   *)
(* each.                                                                   *)
Written(b) ==
    LET plans == batch[b].plans
        world[k \in 0..Len(plans)] ==
            IF k = 0
            THEN [customers |-> customers, orders |-> orders, merged |-> merged, at |-> Blank]
            ELSE IF plans[k].what = "ROW"
                 THEN WriteRow(world[k-1], plans[k], batch[b].conflicts[k]) ELSE world[k-1]
    IN  world

(* commit_batch.                                                           *)
Commit(b, u) ==
    /\ CanImportV2(u)
    /\ batch[b].status \in {"COMMITTING", "FAILED_RETRYABLE"}
    /\ DigestHolds(b)
    /\ LET end == Written(b)[Len(batch[b].plans)]
       IN  /\ customers' = end.customers
           /\ orders' = end.orders
           /\ merged' = end.merged
    /\ batch' = [batch EXCEPT ![b].status = "COMMITTED"]
    /\ UNCHANGED <<active, changes, decision>>

(* A commit whose approval no longer holds fails before any write.         *)
RefuseCommit(b, u) ==
    /\ CanImportV2(u)
    /\ batch[b].status = "COMMITTING"
    /\ ~DigestHolds(b)
    /\ batch' = [batch EXCEPT ![b].status = "FAILED_RETRYABLE"]
    /\ UNCHANGED <<active, changes, decision, db>>

Next ==
    \/ \E u \in People :
        \/ \E b \in Batch :
            \/ Upload(b, u) \/ Preview(b, u) \/ Confirm(b, u) \/ Commit(b, u) \/ RefuseCommit(b, u)
            \/ \E i \in DOMAIN batch[b].conflicts : \E c \in DOMAIN batch[b].conflicts[i] :
                   \E choice \in {"KEEP_EXISTING", "ACCEPT_INCOMING", "NEW_CUSTOMER", "AUTO_MATCH"} :
                       Resolve(b, i, c, choice, u)
        \/ \E d \in DecisionId :
            \/ \E action \in AllowedActions[d] : ResolveDecision(d, action, u)
            \/ ReopenDecision(d, u)
    \/ \E u \in Staff : SwitchAccount(u)

Spec == Init /\ [][Next]_vars

-----------------------------------------------------------------------------
(* Properties.                                                             *)

(* The patches that say something about a field of an order.               *)
Sayings(i, f) == {p \in merged[i] : p.value[f] # Blank}

(* Whatever the order in which files are imported, an order ends with what *)
(* the newest of them says: of different values from different days, none  *)
(* of them the one it started from, the latest is held (order_merge.py).   *)
NewestWins ==
    \A i \in DOMAIN orders : \A f \in Field :
        LET said == Sayings(i, f)
        IN  /\ said # {}
            /\ \A p, q \in said : p # q => p.at # q.at /\ p.value[f] # q.value[f]
            /\ \A s \in Seeds : i \in DOMAIN s.orders => \A p \in said : p.value[f] # s.orders[i].value[f]
            => \A p \in said : (\A q \in said : q.at <= p.at) => orders[i].value[f] = p.value[f]

Commits(b) == batch[b].status # "COMMITTED" /\ batch'[b].status = "COMMITTED"
Applied(b) == {i \in DOMAIN batch[b].plans : batch[b].plans[i].what = "ROW"}

(* Two files of one day that differ are a person's question even when they *)
(* were planned at once: a value is replaced by another of its own date    *)
(* only by a batch in which somebody chose to accept it (commit.py).       *)
SameDayIsAsked ==
    [][\A i \in DOMAIN orders : \A f \in Field : \A b \in Batch :
        (Commits(b) /\ orders[i].value[f] # Blank /\ orders'[i].value[f] # orders[i].value[f]
            /\ \A j \in Applied(b) : batch[b].plans[j].row.no = orders[i].no
                => batch[b].plans[j].patch.at = orders[i].stamp[f])
        => \E j \in Applied(b) : "ACCEPT_INCOMING" \in Range(batch[b].conflicts[j])]_vars

(* A row somebody decided to keep apart never joins a customer known for   *)
(* another order, whatever was imported since (the split phone key).       *)
ApartStaysApart ==
    [][\A b \in Batch : Commits(b) =>
        \A j \in Applied(b) : LET p == batch[b].plans[j] IN
            p.separate => \E i \in DOMAIN orders' :
                /\ orders'[i].no = p.row.no
                /\ \/ orders'[i].customer \notin DOMAIN customers
                   \/ customers[orders'[i].customer].key[3] = p.row.no]_vars

Standing(p) == \A d \in p.used : decision[d].status = "RESOLVED"

(* A decision reopened or changed after the preview is not applied: the    *)
(* plans of a batch in which nothing else was asked commit only under the  *)
(* decisions they were made from (validate at confirm and at commit).      *)
DecisionsStandAtCommit ==
    [][\A b \in Batch : Commits(b) /\ (\A c \in Range(batch[b].conflicts) : c = <<>>)
        => \A j \in Applied(b) : Standing(batch[b].plans[j])]_vars

(* The same of every batch (preview.py: "Reopening or re-resolving a       *)
(* consumed decision therefore makes the preview stale").                  *)
ReopenedIsStale ==
    [][\A b \in Batch : Commits(b) => \A j \in Applied(b) : Standing(batch[b].plans[j])]_vars

=============================================================================
