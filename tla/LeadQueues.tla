----------------------------- MODULE LeadQueues -----------------------------
(***************************************************************************)
(* A user pages through a queue of leads (crm/leads/selectors.py,          *)
(* crm/core/pagination.py, crm/leadui/views.py) while leads change and     *)
(* time passes.  A page is one statement; the cursor in its "next" link is *)
(* all that connects it to the one before.                                 *)
(*                                                                         *)
(* Instant 2d is the Bangkok midnight that begins day d, 2d + 1 any time   *)
(* during it.  A row holds what queues look at.                            *)
(***************************************************************************)
EXTENDS Integers, Sequences, FiniteSets, SequencesExt, Access

CONSTANTS
    Leads,      \* how many leads there are
    RowSet,     \* what a lead row may hold
    Viewers,    \* the users who look
    Requests,   \* the queries they make
    PageSize,   \* rows of a page
    Start,      \* the first instant
    MaxTicks,   \* bound: steps of the clock
    MaxChanges  \* bound: changes of rows

Lead == 1..Leads

Row == [team : STRING, caretaker : {u.id : u \in Viewers} \cup {Blank},
        owner : {u.code : u \in Viewers} \cup {Blank},
        status : {"NEW", "FOLLOWING", "WAITING_CUSTOMER", "WAITING_FOLLOWUP", "STOPPED"},
        last : Nat \cup {Blank}, follow : Nat \cup {Blank},
        cycle : BOOLEAN, locked : BOOLEAN]

ASSUME RowsAreRows ==
    \A r \in RowSet :
        /\ r.status \in {"NEW", "FOLLOWING", "WAITING_CUSTOMER", "WAITING_FOLLOWUP", "STOPPED"}
        /\ {r.last, r.follow} \subseteq Nat \cup {Blank}
        /\ r.locked => r.cycle
ASSUME BlankIsNoNumber == Blank \notin Nat
ASSUME ViewersHaveIds == \A u \in Viewers : u.active \in BOOLEAN /\ u.id # Blank
ASSUME PagesAreNotEmpty == PageSize \in Nat \ {0}
ASSUME QueueBoundsAreNat == {Leads, Start, MaxTicks, MaxChanges} \subseteq Nat

VARIABLES
    now,        \* the clock
    rows,       \* rows[l]: the lead row
    walk,       \* the pages one user has asked for since she opened the queue
    changes     \* rows changed so far

vars == <<now, rows, walk, changes>>

-----------------------------------------------------------------------------
(* Ages, in whole days.                                                    *)

Day(t) == t \div 2
DayStart(d) == 2 * d
Age(last, at) == Day(at) - Day(last)

Presets ==
    << [id |-> "0_7", min |-> 0, max |-> 7], [id |-> "8_15", min |-> 8, max |-> 15],
       [id |-> "16_30", min |-> 16, max |-> 30], [id |-> "31_45", min |-> 31, max |-> 45],
       [id |-> "46_60", min |-> 46, max |-> 60], [id |-> "61_90", min |-> 61, max |-> 90],
       [id |-> "OVER_90", min |-> 91, max |-> Blank] >>

PresetIds == {p.id : p \in Range(Presets)} \cup {"NO_ORDER"}

ASSUME RequestsAreQueries ==
    \A q \in Requests :
        /\ DOMAIN q = {"kind", "sort", "preset", "review", "caretaker", "appointment", "followup", "lock"}
        /\ q.kind \in {"MY_WORK", "TEAM", "STOPPED"}
        /\ q.sort \in {"WORK_PRIORITY", "OLDEST_LAST_ORDER", "NEWEST_LAST_ORDER"}
        /\ q.preset \in PresetIds \cup {"ANY"}

PresetNamed(id) == CHOOSE p \in Range(Presets) : p.id = id
ReviewDays == 45

(* Mutant: the upper edge is the midnight of the youngest day itself.      *)
CutoffsExclusive(min, max, at) ==
    [from |-> IF max = Blank THEN Blank ELSE DayStart(Day(at) - max),
     before |-> DayStart(Day(at) - min)]

(* A range of days as instants: from is inclusive, before is exclusive.    *)
Cutoffs(min, max, at) ==
    [from |-> IF max = Blank THEN Blank ELSE DayStart(Day(at) - max),
     before |-> DayStart(Day(at) - min + 1)]

Between(t, cut) == t # Blank /\ t < cut.before /\ (cut.from = Blank \/ t >= cut.from)

(* The preset a last order falls into, as the badge computes it.           *)
AgeBucket(last, at) ==
    IF last = Blank THEN "NO_ORDER"
    ELSE IF Age(last, at) < 0 THEN "DATE_ANOMALY"
    ELSE (CHOOSE p \in Range(Presets) :
             p.min <= Age(last, at) /\ (p.max = Blank \/ Age(last, at) <= p.max)).id

(* The age filter of the query.                                            *)
AgeFilter(preset, r, at) ==
    IF preset = "NO_ORDER" THEN r.last = Blank
    ELSE LET p == PresetNamed(preset) IN Between(r.last, Cutoffs(p.min, p.max, at))

(* is_reallocation_review_candidate, of the lead as decorate shows it.     *)
Candidate(r, at) ==
    /\ r.last # Blank /\ Age(r.last, at) >= ReviewDays
    /\ r.caretaker # Blank /\ r.status # "STOPPED"
    /\ r.follow = Blank /\ ~r.cycle /\ ~r.locked

(* The same as a filter of the query.                                      *)
ReviewFilter(r, at) ==
    /\ r.status # "STOPPED" /\ ~r.locked /\ r.caretaker # Blank
    /\ Between(r.last, Cutoffs(ReviewDays, Blank, at))
    /\ r.follow = Blank /\ ~r.cycle

-----------------------------------------------------------------------------
(* Queries.                                                                *)

(* Mutant: a page is open to whoever logs in.                              *)
MayUseAnyone(u, kind) == u.active

MayUse(u, kind) == IF kind = "MY_WORK" THEN CanUseLeadWorkspace(u) ELSE CanReviewAnyLead(u)

Tri(choice, there) == choice = "ANY" \/ (choice = "ACTIVE") = there

(* A reviewer's filter is dropped for those who may not review; a telesale *)
(* gets her own leads, whatever caretaker she asks for.                    *)
Restricted(u, q) ==
    [q EXCEPT !.review = q.review /\ CanReviewAnyLead(u),
              !.caretaker = IF IsTelesell(u) /\ q.kind = "MY_WORK" THEN u.id ELSE @]

Filter(q, r, at) ==
    /\ q.caretaker # Blank => r.caretaker = q.caretaker
    /\ q.kind = "TEAM" => r.status # "STOPPED" /\ r.caretaker = Blank
    /\ q.kind = "STOPPED" => r.status = "STOPPED"
    /\ q.preset # "ANY" => AgeFilter(q.preset, r, at)
    /\ Tri(q.appointment, r.follow # Blank) /\ Tri(q.followup, r.cycle) /\ Tri(q.lock, r.locked)
    /\ q.review => ReviewFilter(r, at)

(* Overdue first, then today's appointments, then by status.               *)
WorkRank(r, at) ==
    IF r.follow # Blank /\ r.follow < DayStart(Day(at)) THEN 0
    ELSE IF r.follow # Blank /\ r.follow < DayStart(Day(at) + 1) THEN 1
    ELSE IF r.status = "WAITING_FOLLOWUP" THEN 2
    ELSE IF r.status = "NEW" THEN 3
    ELSE IF r.status = "WAITING_CUSTOMER" THEN 4 ELSE 5

(* The columns a queue is sorted by, nulls last.                           *)
Key(sort, l, at) ==
    IF sort = "WORK_PRIORITY" THEN <<WorkRank(rows[l], at), rows[l].follow, l>>
    ELSE <<rows[l].last, l>>

Descending(sort, i) == sort = "NEWEST_LAST_ORDER" /\ i = 1

(* Mutant: the row the cursor names comes again.                           *)
AheadOrAt(sort, k, c) ==
    k = c \/ \E i \in DOMAIN k :
        /\ \A j \in 1..(i-1) : k[j] = c[j]
        /\ c[i] # Blank
        /\ k[i] = Blank \/ IF Descending(sort, i) THEN k[i] < c[i] ELSE k[i] > c[i]

(* The keyset predicate: key k comes after cursor c.                       *)
Ahead(sort, k, c) ==
    \E i \in DOMAIN k :
        /\ \A j \in 1..(i-1) : k[j] = c[j]
        /\ c[i] # Blank
        /\ \/ k[i] = Blank
           \/ k[i] # Blank /\ IF Descending(sort, i) THEN k[i] < c[i] ELSE k[i] > c[i]

(* ORDER BY.                                                               *)
Before(sort, a, b) ==
    \E i \in DOMAIN a :
        /\ \A j \in 1..(i-1) : a[j] = b[j]
        /\ a[i] # b[i]
        /\ \/ b[i] = Blank
           \/ {a[i], b[i]} \subseteq Nat /\ IF Descending(sort, i) THEN a[i] > b[i] ELSE a[i] < b[i]

NoCursor == <<>>

(* What the query finds after the cursor, in order.                        *)
Page(u, q, cursor, at) ==
    LET found == {l \in Lead :
                    /\ ForUser(u, rows[l]) /\ Filter(q, rows[l], at)
                    /\ cursor # NoCursor => Ahead(q.sort, Key(q.sort, l, at), cursor)}
    IN  CHOOSE p \in [1..Cardinality(found) -> found] :
            \A i, j \in DOMAIN p :
                i < j => Before(q.sort, Key(q.sort, p[i], at), Key(q.sort, p[j], at))

-----------------------------------------------------------------------------
(* What the user should see, in terms of the rules.                        *)

Wanted(u, q, r, at) ==
    /\ CanViewLead(u, r)
    /\ IsTelesell(u) /\ q.kind = "MY_WORK" => IsLeadCaretaker(u, r)
    /\ q.caretaker # Blank => r.caretaker = q.caretaker
    /\ q.kind = "TEAM" => r.caretaker = Blank /\ r.status # "STOPPED"
    /\ q.kind = "STOPPED" => r.status = "STOPPED"
    /\ q.preset # "ANY" => AgeBucket(r.last, at) = q.preset
    /\ Tri(q.appointment, r.follow # Blank) /\ Tri(q.followup, r.cycle) /\ Tri(q.lock, r.locked)
    /\ q.review => Candidate(r, at)

WantedNow(u, q, at) == {l \in Lead : Wanted(u, q, rows[l], at)}

-----------------------------------------------------------------------------
(* at: the instant the last page was computed at.  always: the leads       *)
(* wanted at every page so far; changed: those that changed meanwhile.     *)
Closed ==
    [user |-> Blank, query |-> Blank, cursor |-> NoCursor, at |-> 0, more |-> FALSE,
     listed |-> <<>>, always |-> {}, changed |-> {}]

TypeOK ==
    /\ now \in Nat /\ changes \in 0..MaxChanges
    /\ rows \in [Lead -> RowSet]
    /\ walk # Closed =>
          /\ walk.user \in Viewers
          /\ Len(walk.listed) <= Leads + changes
          /\ walk.more => walk.cursor # NoCursor
          /\ walk.always \subseteq Lead /\ walk.changed \subseteq Lead

Init ==
    /\ now = Start
    /\ rows \in [Lead -> RowSet]
    /\ walk = Closed
    /\ changes = 0

ShowPage(u, q, cursor, at, w) ==
    LET found == Page(u, q, cursor, at)
        items == SubSeq(found, 1, IF Len(found) < PageSize THEN Len(found) ELSE PageSize)
        more == Len(found) > PageSize
    IN  walk' = [w EXCEPT !.user = u, !.query = q, !.at = at, !.more = more,
                          !.listed = @ \o items, !.always = @ \cap WantedNow(u, q, at),
                          !.cursor = IF more THEN Key(q.sort, items[PageSize], at) ELSE NoCursor]

Open(u, q) ==
    /\ walk = Closed
    /\ MayUse(u, q.kind)
    /\ ShowPage(u, Restricted(u, q), NoCursor, now, [Closed EXCEPT !.always = Lead])
    /\ UNCHANGED <<now, rows, changes>>

(* Mutant: the ranks of each page are those of its own day.                *)
PageInstantNow(w) == now

(* Work priority depends on the day: the first page's instant travels in   *)
(* the cursor.                                                             *)
PageInstant(w) == IF w.query.sort = "WORK_PRIORITY" THEN w.at ELSE now

More ==
    /\ walk.more
    /\ ShowPage(walk.user, walk.query, walk.cursor, PageInstant(walk), walk)
    /\ UNCHANGED <<now, rows, changes>>

(* Somebody works on a lead.                                               *)
Change(l, r) ==
    /\ changes < MaxChanges /\ rows[l] # r /\ walk.more
    /\ rows' = [rows EXCEPT ![l] = r]
    /\ walk' = [walk EXCEPT !.changed = @ \cup {l}]
    /\ changes' = changes + 1
    /\ UNCHANGED now

Tick ==
    /\ now < Start + MaxTicks
    /\ now' = now + 1
    /\ UNCHANGED <<rows, walk, changes>>

Next ==
    \/ \E u \in Viewers, q \in Requests : Open(u, q)
    \/ More \/ Tick
    \/ \E l \in Lead, r \in RowSet : Change(l, r)

Spec == Init /\ [][Next]_vars

-----------------------------------------------------------------------------
(* Properties.                                                             *)

Times(l) == Cardinality({i \in DOMAIN walk.listed : walk.listed[i] = l})

(* Paging to the end shows every lead that belongs to the queue throughout *)
(* and is left alone, once and only once, however other leads move and     *)
(* though midnight passes between two pages (selectors._split_work_cursor: *)
(* no skips or duplicates around midnight).                                *)
EachIsListedOnce ==
    walk # Closed =>
        \A l \in Lead \ walk.changed :
            /\ Times(l) <= 1
            /\ l \in walk.always /\ ~walk.more => Times(l) = 1

(* A page shows what the rules say belongs there, and nothing else: the    *)
(* query's scope admits no lead that can_view_lead refuses to somebody the *)
(* page is open to (scoping.for_user mirrors can_view_lead).               *)
OnlyWantedAreListed ==
    [][\A i \in DOMAIN walk'.listed \ DOMAIN walk.listed :
          Wanted(walk'.user, walk'.query, rows[walk'.listed[i]], walk'.at)]_vars

(* The age filter's instants select exactly the leads whose badge shows    *)
(* that preset, on either side of each midnight (last_order_age_cutoffs    *)
(* against age_bucket_id).                                                 *)
AgeFilterIsTheBadge ==
    \A l \in Lead : \A p \in PresetIds :
        AgeFilter(p, rows[l], now) <=> AgeBucket(rows[l].last, now) = p

(* The review filter selects exactly the leads badged for review           *)
(* (presenters.decorate: the badge must not point at a queue the lead is   *)
(* not in).                                                                *)
ReviewFilterIsTheBadge ==
    \A l \in Lead : ReviewFilter(rows[l], now) <=> Candidate(rows[l], now)

(* What a filter selects is what its badge shows (selectors.py against     *)
(* presenters.py).                                                         *)
FiltersAreTheBadges == AgeFilterIsTheBadge /\ ReviewFilterIsTheBadge
=============================================================================
