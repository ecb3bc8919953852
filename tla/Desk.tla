-------------------------------- MODULE Desk --------------------------------
(***************************************************************************)
(* How customers come to have leads without an order: editors convert      *)
(* intakes (crm/intake), importer version 2 creates leads and intakes      *)
(* (crm/importv2/services/commit.py), and the backfill command walks over  *)
(* all customers (crm/leads/management/commands/backfill_leads.py), while  *)
(* users move between teams (crm/teams).                                   *)
(*                                                                         *)
(* A lead is known by its customer and team, an intake by its customer and *)
(* source order.  Who takes care of a lead later is LeadOwnership's.       *)
(***************************************************************************)
EXTENDS Customers, FiniteSets

CONSTANTS
    Teams,          \* the teams there are
    Fallback,       \* the team of the backfill's --team-code
    Sources,        \* source order ids; Blank is one
    Staff,          \* the users
    Desks,          \* those of them, by id, who have a window open
    ChunkSize,      \* customers of a chunk
    MaxTime         \* bound: the clock

ASSUME FallbackIsATeam == Fallback \in Teams
ASSUME BlankIsASource == Blank \in Sources
ASSUME BlankIsNull ==
    Blank \notin Nat \cup Teams \cup {"BACKFILL", "INTAKE", "IMPORT", "GLOBAL_UNASSIGNED", "CONVERTED"}
ASSUME ChunksAreNotEmpty == ChunkSize \in Nat \ {0}
ASSUME StaffHaveIds ==
    \A u, v \in Staff : u.id \in Nat /\ u.active \in BOOLEAN /\ (u.id = v.id => u = v)
ASSUME TimeIsBounded == MaxTime \in Nat

VARIABLES
    lead,       \* lead[c][t]: the lead of customer c in team t, or NoLead
    intake,     \* intake[c][src]: the queued item, or NoItem
    inactive,   \* teams that are closed
    backfill,   \* the run of the command
    row,        \* the row importer version 2 is committing
    window,     \* window[w]: what a user is about to post
    member,     \* member[id]: the team assignments of a user, oldest first
    clock       \* microseconds

deskVars == <<lead, intake, inactive, backfill, row, window, member, clock>>

-----------------------------------------------------------------------------
Cust == 1..MaxCustomers
Ids == {u.id : u \in Staff}
UserWith(id) == CHOOSE u \in Staff : u.id = id

(* open: its open ownership segments; by: who created it.                  *)
NoLead == [by |-> Blank, caretaker |-> Blank, open |-> 0]
NewLead(by, caretaker, open) == [by |-> by, caretaker |-> caretaker, open |-> open]
NoItem == [status |-> Blank, team |-> Blank, audits |-> 0]
Queued == [status |-> "GLOBAL_UNASSIGNED", team |-> Blank, audits |-> 0]

HasLead(c) == \E t \in Teams : lead[c][t] # NoLead
HasItem(c) == \E src \in Sources : intake[c][src] # NoItem

Off == [pc |-> "off", todo |-> <<>>, pos |-> 0, end |-> 0, resolve |-> Blank, teams |-> <<>>,
        found |-> {}, queue |-> {}, had |-> {}]
NoRow == [pc |-> "off", customer |-> NoCustomer, src |-> Blank, team |-> Blank, known |-> FALSE]
Closed == [pc |-> "off", customer |-> NoCustomer, src |-> Blank, team |-> Blank, id |-> Blank,
           current |-> 0, seen |-> Blank, open |-> FALSE, met |-> FALSE]

DeskTypeOK ==
    /\ lead \in [Cust -> [Teams -> [by : {Blank, "BACKFILL", "INTAKE", "IMPORT"},
                                    caretaker : Ids \cup {Blank}, open : Nat]]]
    /\ intake \in [Cust -> [Sources -> [status : {Blank, "GLOBAL_UNASSIGNED", "CONVERTED"},
                                        team : Teams \cup {Blank}, audits : Nat]]]
    /\ inactive \subseteq Teams
    /\ backfill.pc \in {"off", "chunk", "rows", "queue", "done"}
    /\ backfill.pos \in 0..Len(backfill.todo) /\ backfill.end \in 0..Len(backfill.todo)
    /\ row.pc \in {"off", "write"}
    /\ \A w \in Desks : window[w].pc \in {"off", "resolve", "lock", "save"}
    /\ \A id \in Ids : \A i \in DOMAIN member[id] :
          /\ member[id][i].team \in Teams
          /\ member[id][i].to = Blank \/ member[id][i].from < member[id][i].to
    /\ clock \in 0..MaxTime

DeskInit ==
    /\ lead = [c \in Cust |-> [t \in Teams |-> NoLead]]
    /\ intake = [c \in Cust |-> [src \in Sources |-> NoItem]]
    /\ inactive = {} /\ backfill = Off /\ row = NoRow
    /\ window = [w \in Desks |-> Closed]
    /\ member = [id \in Ids |-> <<>>]
    /\ clock = 0

-----------------------------------------------------------------------------
(* Intakes.                                                                *)

CloseTeam(t) ==
    /\ Begun
    /\ inactive' = inactive \cup {t}
    /\ UNCHANGED <<customers, lead, intake, backfill, row, window, member, clock>>

(* The view loads the item and the team.                                   *)
OpenIntake(w, c, src, t) ==
    /\ Begun
    /\ window[w].pc = "off" /\ CanResolveIntake(UserWith(w))
    /\ intake[c][src] # NoItem
    /\ window' = [window EXCEPT ![w] = [Closed EXCEPT !.pc = "resolve", !.customer = c, !.src = src,
                    !.team = t, !.seen = intake[c][src].status, !.open = t \notin inactive]]
    /\ UNCHANGED <<customers, lead, intake, inactive, backfill, row, member, clock>>

(* Mutant: goes by the status the view has loaded.                         *)
StillQueuedAsSeen(w) == window[w].seen = "GLOBAL_UNASSIGNED"

(* The status is read again under the lock of the item.                    *)
StillQueued(w) == intake[window[w].customer][window[w].src].status = "GLOBAL_UNASSIGNED"

(* The lead of the team is reused, or created with its initial segment.    *)
Converted(old) == IF old # NoLead THEN old ELSE NewLead("INTAKE", Blank, 1)

ResolveIntake(w) ==
    /\ window[w].pc = "resolve"
    /\ LET c == window[w].customer
           src == window[w].src
           t == window[w].team
       IN IF StillQueued(w) /\ window[w].open
          THEN /\ lead' = [lead EXCEPT ![c][t] = Converted(@)]
               /\ intake' = [intake EXCEPT ![c][src] =
                               [status |-> "CONVERTED", team |-> t, audits |-> @.audits + 1]]
          ELSE UNCHANGED <<lead, intake>>
    /\ window' = [window EXCEPT ![w] = Closed]
    /\ UNCHANGED <<customers, ops, inactive, backfill, row, member, clock>>

-----------------------------------------------------------------------------
(* Importer version 2: a row names its team, or not.                       *)

ReadRow(c, src, t) ==
    /\ Begun
    /\ row.pc = "off" /\ c \in DOMAIN customers
    /\ row' = [pc |-> "write", customer |-> c, src |-> src, team |-> t,
               known |-> IF t = Blank THEN HasLead(c) ELSE lead[c][t] # NoLead]
    /\ UNCHANGED <<customers, lead, intake, inactive, backfill, window, member, clock>>

(* An intake is found again whatever has become of it.  A lead created     *)
(* meanwhile makes the commit of the batch fail.                           *)
EnsureLeadOrIntake ==
    /\ row.pc = "write"
    /\ LET c == row.customer
       IN /\ lead' = IF row.team # Blank /\ lead[c][row.team] = NoLead /\ ~row.known
                     THEN [lead EXCEPT ![c][row.team] = NewLead("IMPORT", Blank, 0)] ELSE lead
          /\ intake' = IF row.team = Blank /\ ~row.known /\ intake[c][row.src] = NoItem
                       THEN [intake EXCEPT ![c][row.src] = Queued] ELSE intake
    /\ row' = NoRow
    /\ UNCHANGED <<customers, ops, inactive, backfill, window, member, clock>>

-----------------------------------------------------------------------------
(* The backfill command.                                                   *)

(* The user a staff code stands for: an active one if there is one.        *)
HolderOf(code) ==
    LET Holders == {u \in Staff : u.code = code}
        Better(u, v) == (u.active /\ ~v.active) \/ (u.active = v.active /\ u.id <= v.id)
    IN IF Holders = {} THEN Blank ELSE (CHOOSE u \in Holders : \A v \in Holders : Better(u, v)).id

(* The open assignment, of a sequence of them.                             *)
OpenOne(rows) ==
    LET Open == {i \in DOMAIN rows : rows[i].to = Blank}
    IN IF Open = {} THEN 0 ELSE CHOOSE i \in Open : TRUE
TeamNow(rows) == IF OpenOne(rows) = 0 THEN Blank ELSE rows[OpenOne(rows)].team

(* The customers and the teams of users are read once, at the start.       *)
StartBackfill(resolve) ==
    /\ Begun
    /\ backfill.pc \in {"off", "done"}
    /\ backfill' = [Off EXCEPT !.pc = "chunk", !.resolve = resolve,
                      !.todo = [c \in DOMAIN customers |-> customers[c].staff],
                      !.teams = [id \in Ids |-> TeamNow(member[id])],
                      !.had = {c \in DOMAIN customers : HasLead(c)}]
    /\ UNCHANGED <<customers, lead, intake, inactive, row, window, member, clock>>

(* Mutant: the chunk that is left over at the end is not processed.        *)
WholeChunks(n) == ChunkSize * (n \div ChunkSize)
(* How many of n customers are processed: all.                             *)
Processed(n) == n

BackfillChunk ==
    /\ backfill.pc = "chunk"
    /\ backfill.pos < Processed(Len(backfill.todo))
    /\ LET last == backfill.pos + ChunkSize
           end == IF last < Len(backfill.todo) THEN last ELSE Len(backfill.todo)
       IN backfill' = [backfill EXCEPT !.pc = "rows", !.end = end, !.queue = {},
                         !.found = {c \in (backfill.pos + 1)..end : HasLead(c)}]
    /\ UNCHANGED <<customers, ops, lead, intake, inactive, row, window, member, clock>>

(* The team of a customer's caretaker when the run began.                  *)
BackfillTeam(code) ==
    IF code = Blank THEN backfill.resolve
    ELSE IF HolderOf(code) # Blank /\ backfill.teams[HolderOf(code)] # Blank
    THEN backfill.teams[HolderOf(code)] ELSE Fallback
BackfillCaretaker(code) ==
    IF code # Blank /\ HolderOf(code) # Blank /\ UserWith(HolderOf(code)).active
    THEN HolderOf(code) ELSE Blank

(* Mutant: only a customer without staff code is looked up.                *)
SkipsResolvedOnly(c) == backfill.todo[c] = Blank /\ c \in backfill.found

Skips(c) == c \in backfill.found

Backfilled(old, caretaker) == IF old # NoLead THEN old ELSE NewLead("BACKFILL", caretaker, 1)

(* One customer: queued for an intake, passed over, or a lead of her own   *)
(* in one transaction.                                                     *)
BackfillCustomer ==
    /\ backfill.pc = "rows" /\ backfill.pos < backfill.end
    /\ LET c == backfill.pos + 1
           code == backfill.todo[c]
           t == BackfillTeam(code)
       IN /\ backfill' = [backfill EXCEPT !.pos = c,
                            !.queue = IF t = Blank THEN @ \cup {c} ELSE @]
          /\ lead' = IF t = Blank \/ Skips(c) THEN lead
                     ELSE [lead EXCEPT ![c][t] = Backfilled(@, BackfillCaretaker(code))]
    /\ UNCHANGED <<customers, ops, intake, inactive, row, window, member, clock>>

(* The intakes of a chunk, at its end; those that are there are let be.    *)
BackfillQueue ==
    /\ backfill.pc = "rows" /\ backfill.pos = backfill.end
    /\ intake' = [c \in Cust |->
                    IF c \in backfill.queue /\ intake[c][Blank] = NoItem
                    THEN [intake[c] EXCEPT ![Blank] = Queued] ELSE intake[c]]
    /\ backfill' = [backfill EXCEPT !.pc = "chunk"]
    /\ UNCHANGED <<customers, ops, lead, inactive, row, window, member, clock>>

BackfillEnds ==
    /\ backfill.pc = "chunk"
    /\ backfill.pos >= Processed(Len(backfill.todo))
    /\ backfill' = [backfill EXCEPT !.pc = "done"]
    /\ UNCHANGED <<customers, ops, lead, intake, inactive, row, window, member, clock>>

BackfillDies ==
    /\ Begun
    /\ backfill.pc \in {"chunk", "rows"}
    /\ backfill' = Off
    /\ UNCHANGED <<customers, lead, intake, inactive, row, window, member, clock>>

-----------------------------------------------------------------------------
(* Team assignments: a save locks the user's open row, if it sees one.     *)

Tick ==
    /\ clock < MaxTime
    /\ clock' = clock + 1
    /\ UNCHANGED <<customers, ops, lead, intake, inactive, backfill, row, window, member>>

AskTeam(w, id, t) ==
    /\ Begun
    /\ window[w].pc = "off" /\ CanViewTeamSales(UserWith(w))
    /\ window' = [window EXCEPT ![w] = [Closed EXCEPT !.pc = "lock", !.id = id, !.team = t,
                                          !.current = OpenOne(member[id])]]
    /\ UNCHANGED <<customers, lead, intake, inactive, backfill, row, member, clock>>

(* The row is locked when nobody else holds it; a row that was closed in   *)
(* the meantime drops out, and a newer one is not looked for.              *)
LockTeam(w) ==
    /\ window[w].pc = "lock"
    /\ LET q == window[w]
           current == IF q.current # 0 /\ member[q.id][q.current].to = Blank THEN q.current ELSE 0
           now == IF current = 0 THEN Blank ELSE member[q.id][current].team
       IN /\ q.current # 0 =>
                \A v \in Desks \ {w} : ~(window[v].pc = "save" /\ window[v].id = q.id
                                         /\ window[v].current = q.current)
          /\ window' = [window EXCEPT ![w] =
                          IF now = q.team THEN Closed ELSE [q EXCEPT !.pc = "save", !.current = current]]
    /\ UNCHANGED <<customers, ops, lead, intake, inactive, backfill, row, member, clock>>

(* Mutant: the time of the save, even if the open row begins then.         *)
SaveTimeAsIs(open) == clock

SaveTime(open) == IF open # Blank /\ clock <= open THEN open + 1 ELSE clock

(* The open row is closed, and another opened unless the user is cleared.  *)
Moved(rows, current, t, at) ==
    LET closed == IF current = 0 THEN rows ELSE [rows EXCEPT ![current].to = at]
    IN IF t = Blank THEN closed ELSE Append(closed, [team |-> t, from |-> at, to |-> Blank])

(* The constraints of the table: periods are not empty and do not overlap. *)
Overlap(a, b) == (a.to = Blank \/ b.from < a.to) /\ (b.to = Blank \/ a.from < b.to)
PeriodsAllowed(rows) ==
    /\ \A i \in DOMAIN rows : rows[i].to = Blank \/ rows[i].from < rows[i].to
    /\ \A i, j \in DOMAIN rows : i # j => ~Overlap(rows[i], rows[j])

SaveTeam(w) ==
    /\ window[w].pc = "save"
    /\ LET q == window[w]
           open == IF q.current = 0 THEN Blank ELSE member[q.id][q.current].from
           rows == Moved(member[q.id], q.current, q.team, SaveTime(open))
           ok == PeriodsAllowed(rows)
       IN /\ member' = IF ok THEN [member EXCEPT ![q.id] = rows] ELSE member
          /\ window' = [v \in Desks |->
                          IF v = w THEN Closed
                          ELSE IF ok /\ window[v].id = q.id THEN [window[v] EXCEPT !.met = TRUE]
                          ELSE window[v]]
    /\ UNCHANGED <<customers, ops, lead, intake, inactive, backfill, row, clock>>

DeskNext ==
    \/ \E t \in Teams : CloseTeam(t)
    \/ \E w \in Desks, c \in DOMAIN customers, src \in Sources, t \in Teams : OpenIntake(w, c, src, t)
    \/ \E w \in Desks : ResolveIntake(w) \/ LockTeam(w) \/ SaveTeam(w)
    \/ \E c \in DOMAIN customers, src \in Sources, t \in Teams \cup {Blank} : ReadRow(c, src, t)
    \/ EnsureLeadOrIntake
    \/ \E t \in Teams \cup {Blank} : StartBackfill(t)
    \/ BackfillChunk \/ BackfillCustomer \/ BackfillQueue \/ BackfillEnds \/ BackfillDies
    \/ \E w \in Desks, id \in Ids, t \in Teams \cup {Blank} : AskTeam(w, id, t)
    \/ Tick

-----------------------------------------------------------------------------
(* Properties.                                                             *)

(* An intake is converted once, whoever else has it on the screen: one     *)
(* entry in the audit trail, and a team that is not chosen again.          *)
ConvertedOnce ==
    \A c \in Cust, src \in Sources :
        /\ intake[c][src].audits = (IF intake[c][src].status = "CONVERTED" THEN 1 ELSE 0)
        /\ intake[c][src].status = "CONVERTED" => lead[c][intake[c][src].team] # NoLead

(* Editors and the backfill that meet at one customer and team make one    *)
(* lead, with one open segment; only importer version 2 makes one without. *)
OneOpenSegment ==
    \A c \in Cust, t \in Teams :
        lead[c][t] # NoLead => lead[c][t].open = (IF lead[c][t].by = "IMPORT" THEN 0 ELSE 1)

(* Whoever turns customers into leads meets the others' leads: neither an  *)
(* intake nor a customer's team is served twice (intake/services.py,       *)
(* backfill_leads.py).                                                     *)
LeadsAreMadeOnce == DeskTypeOK /\ ConvertedOnce /\ OneOpenSegment

(* A run that has ended has left no customer of its start without a lead   *)
(* or an intake, whatever died before it and came in between.              *)
BackfillCovers ==
    backfill.pc = "done" => \A c \in DOMAIN backfill.todo : HasLead(c) \/ HasItem(c)

(* Run again, the command makes no second lead for a customer who had one  *)
(* when it started, even if her caretaker has moved to another team.       *)
RerunAddsNoLead ==
    [][backfill'.pos > backfill.pos => \A c \in backfill.had : lead'[c] = lead[c]]_<<lead, backfill>>

(* The team of a user at an instant, as sales are attributed to it.        *)
TeamAt(rows, at) ==
    LET Then == {i \in DOMAIN rows : rows[i].from <= at /\ (rows[i].to = Blank \/ at < rows[i].to)}
    IN IF Then = {} THEN Blank
       ELSE rows[CHOOSE i \in Then : \A j \in Then : rows[j].from <= rows[i].from].team

(* No save moves a sale of the past to another team.                       *)
PastTeamsStand ==
    [][\A id \in Ids : \A at \in 0..(clock - 1) :
          TeamAt(member'[id], at) = TeamAt(member[id], at)]_member

(* A save that meets no other is in force when it ends, even in the same   *)
(* microsecond as the one before, unless that one has cleared the user and *)
(* its end still lies ahead.                                               *)
AloneIsInForce ==
    [][\A w \in Desks :
          window[w].pc = "save" /\ window'[w].pc = "off" /\ ~window[w].met
          /\ (window[w].current # 0 \/ \A i \in DOMAIN member[window[w].id] :
                                        member[window[w].id][i].to <= clock) =>
              TeamNow(member'[window[w].id]) = window[w].team]_window

(* A change of team holds from its instant on and for no instant before,   *)
(* whatever other desk saves at the same time (teams.services.assign_team).*)
TeamChangesHold == PastTeamsStand /\ AloneIsInForce
=============================================================================
