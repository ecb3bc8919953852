---------------------------- MODULE FollowupWork ----------------------------
(***************************************************************************)
(* The work done on a lead: crm/followcycles/services.py (cycles, contact  *)
(* attempts, appointments, notes), the lifecycle services of               *)
(* crm/leads/services.py, and the views of crm/leads/views.py that call    *)
(* them.                                                                   *)
(*                                                                         *)
(* A view loads what it needs, then the service locks the lead row and     *)
(* reloads it into its instance; the writes are made from that instance    *)
(* and from the rows the locked transaction queries, and become visible    *)
(* when it commits.  A transaction here works on one lead: the leads of an *)
(* order share no follow-up state, and LeadOwnership models their locks.   *)
(***************************************************************************)
EXTENDS LeadRow, Integers, Sequences, FiniteSets

CONSTANTS
    AutoStop,       \* Team.auto_stop
    Threshold,      \* Team.max_no_answer_attempts
    Day,            \* the instants appointments are made for
    Note,           \* note bodies
    NoNote,         \* Lead.latest_note of a lead without notes
    MaxPages,       \* bound: lead pages open at the same time
    MaxRows         \* bound: cycles, attempts, appointments and notes of a lead

ASSUME SomeLead == Lead # {}
ASSUME AutoStopIsBoolean == AutoStop \in BOOLEAN
ASSUME ThresholdIsNat == Threshold \in Nat
ASSUME DaysArePositive == Day \subseteq Nat \ {0}
ASSUME NoNoteIsNull == NoNote \notin Note
ASSUME WorkBoundsAreNat == {MaxPages, MaxRows} \subseteq Nat

VARIABLES
    lifecycle,      \* lifecycle[l]: Lead.lifecycle_status
    stopReason,     \* stopReason[l]: Lead.stopped_reason
    cycles,         \* cycles[l]: the FollowupCycle rows, a row's id its index
    current,        \* current[l]: Lead.current_cycle_id
    attempts,       \* attempts[l]: results of the ContactAttempt rows
    streak,         \* streak[l]: Lead.no_answer_streak
    appointments,   \* appointments[l]: the Appointment rows
    nextFollow,     \* nextFollow[l]: Lead.next_follow_at
    notes,          \* notes[l]: the Note rows
    latestNote,     \* latestNote[l]: Lead.latest_note
    pages,          \* lead pages in users' browsers
    txn             \* txn[w]: the service call w runs

statusVars == <<lifecycle, stopReason>>
cycleVars == <<cycles, current>>
attemptVars == <<attempts, streak>>
appointmentVars == <<appointments, nextFollow>>
noteVars == <<notes, latestNote>>
workVars == <<statusVars, cycleVars, attemptVars, appointmentVars, noteVars>>
vars == <<rowVars, workVars, pages, txn>>

-----------------------------------------------------------------------------
Status == {"NEW", "FOLLOWING", "STOPPED"}   \* the waiting statuses act as FOLLOWING
StopReason == {"CONTACT_LIMIT_REACHED", "MANUAL_STOP"}  \* OTHER acts as MANUAL_STOP
Result == {"NO_ANSWER", "ORDERED"}          \* every other result resets the streak
NoCycle == 0
NoTime == 0

Cycle == [status : {"ACTIVE", "ENDED"},
          reason : {"", "NEW_ORDER", "MANUAL_CLOSE", "STOPPED"}]
Appointment == [at : Day, status : {"SCHEDULED", "DONE", "MISSED", "CANCELLED"}]
Page == [lead : Lead, version : Version, lifecycle : Status]

(* choice: the result, status or body the request carries; ref: the cycle, *)
(* appointment or instant it names; seen: the lead instance, as reloaded   *)
(* when the row was locked.                                                *)
Seen == [lifecycle : Status, streak : Nat]
Choice == Status \cup StopReason \cup Result \cup Note \cup {"", "DONE", "MISSED", "CANCELLED"}
Op == {"idle", "order", "close_cycle", "attempt", "appoint", "close_appointment",
       "note", "stop", "reactivate", "set_status", "reassign"}
Txn == [op : Op, lead : Lead, form : Version \cup {NoVersion}, choice : Choice,
        ref : Nat, seen : Seen]

NotSeen == [lifecycle |-> "NEW", streak |-> 0]
Call(op, l, form, choice, ref) ==
    [op |-> op, lead |-> l, form |-> form, choice |-> choice, ref |-> ref,
     seen |-> NotSeen]
Idle == Call("idle", CHOOSE l \in Lead : TRUE, NoVersion, "", 0)

TypeOK ==
    /\ RowTypeOK
    /\ lifecycle \in [Lead -> Status]
    /\ stopReason \in [Lead -> StopReason \cup {""}]
    /\ cycles \in [Lead -> Seq(Cycle)]
    /\ current \in [Lead -> Nat]
    /\ attempts \in [Lead -> Seq(Result)]
    /\ streak \in [Lead -> Nat]
    /\ appointments \in [Lead -> Seq(Appointment)]
    /\ nextFollow \in [Lead -> Day \cup {NoTime}]
    /\ notes \in [Lead -> Seq(Note)]
    /\ latestNote \in [Lead -> Note \cup {NoNote}]
    /\ pages \subseteq Page
    /\ txn \in [Worker -> Txn]

Init ==
    /\ RowInit
    /\ lifecycle = [l \in Lead |-> "NEW"]
    /\ stopReason = [l \in Lead |-> ""]
    /\ cycles = [l \in Lead |-> <<>>]
    /\ current = [l \in Lead |-> NoCycle]
    /\ attempts = [l \in Lead |-> <<>>]
    /\ streak = [l \in Lead |-> 0]
    /\ appointments = [l \in Lead |-> <<>>]
    /\ nextFollow = [l \in Lead |-> NoTime]
    /\ notes = [l \in Lead |-> <<>>]
    /\ latestNote = [l \in Lead |-> NoNote]
    /\ pages = {}
    /\ txn = [w \in Worker |-> Idle]

-----------------------------------------------------------------------------
(* Queries.                                                                *)

ActiveCycles(s) == {i \in DOMAIN s : s[i].status = "ACTIVE"}
FirstOf(ids) == {i \in ids : \A j \in ids : i <= j}

EndCycles(s, ids, reason) ==
    [i \in DOMAIN s |->
        IF i \in ids THEN [status |-> "ENDED", reason |-> reason] ELSE s[i]]

Scheduled(s) == {i \in DOMAIN s : s[i].status = "SCHEDULED"}

Soonest(s) ==
    IF Scheduled(s) = {} THEN NoTime
    ELSE CHOOSE t \in {s[i].at : i \in Scheduled(s)} :
             \A i \in Scheduled(s) : t <= s[i].at

-----------------------------------------------------------------------------
(* Requests.  A call takes its first step when it gets the lead's lock: of  *)
(* the database it knows until then only what its page carried, which may  *)
(* be old.                                                                 *)

(* lock_lead: the row lock, the reload and the version check (refused: no  *)
(* step).                                                                  *)
Begin(w, t) ==
    LET l == t.lead IN
    /\ txn[w] = Idle
    /\ FormIsCurrent(l, t.form)
    /\ Acquire(w, l)
    /\ txn' = [txn EXCEPT ![w] = [t EXCEPT !.seen = [lifecycle |-> lifecycle[l], streak |-> streak[l]]]]
    /\ UNCHANGED <<version, workVars, pages>>

RenderPage(l) ==
    /\ Cardinality(pages) < MaxPages
    /\ pages' = pages \cup {[lead |-> l, version |-> version[l], lifecycle |-> lifecycle[l]]}
    /\ UNCHANGED <<rowVars, workVars, txn>>

ClosePage(p) ==
    /\ pages' = pages \ {p}
    /\ UNCHANGED <<rowVars, workVars, txn>>

(* The close view names the cycle the lead pointed at when the view loaded *)
(* it: every cycle was that once.                                          *)
BeginCloseCycle(w, l, c) ==
    /\ c \in DOMAIN cycles[l]
    /\ Begin(w, Call("close_cycle", l, NoVersion, "", c))

BeginCloseAppointment(w, l, i, s) ==
    /\ i \in DOMAIN appointments[l]
    /\ Begin(w, Call("close_appointment", l, NoVersion, s, i))

BeginOrder(w, l) == Begin(w, Call("order", l, NoVersion, "", 0))
BeginReassign(w, l, v) == Begin(w, Call("reassign", l, v, "", 0))
BeginAttempt(w, l, r) == Begin(w, Call("attempt", l, NoVersion, r, 0))
BeginAppoint(w, l, at) == Begin(w, Call("appoint", l, NoVersion, "", at))
BeginNote(w, l, b) == Begin(w, Call("note", l, NoVersion, b, 0))
BeginStop(w, l, v, r) == Begin(w, Call("stop", l, v, r, 0))
BeginReactivate(w, l, v) == Begin(w, Call("reactivate", l, v, "", 0))
BeginSetStatus(w, l, v, s) == Begin(w, Call("set_status", l, v, s, 0))

-----------------------------------------------------------------------------
(* Services, from the locked row to the commit.                            *)

HasRoom(l) == Len(cycles[l]) + Len(attempts[l]) + Len(appointments[l]) + Len(notes[l]) < MaxRows

Locked(w, op) == txn[w].op = op

Finish(w) ==
    /\ ReleaseAll(w)
    /\ txn' = [txn EXCEPT ![w] = Idle]
    /\ UNCHANGED pages

(* Mutant: only the ownership writes bump the version.                     *)
KeepVersion(l) == UNCHANGED version

BumpVersion(l) ==
    /\ version[l] < MaxVersion
    /\ version' = [version EXCEPT ![l] = @ + 1]

(* Ownership moved: LeadOwnership says how; here only the version shows.   *)
Reassign(w) ==
    /\ Locked(w, "reassign")
    /\ BumpVersion(txn[w].lead)
    /\ Finish(w)
    /\ UNCHANGED workVars

(* sync_leads_for_order after the ownership step, which may or may not     *)
(* move the lead: a new cycle unless the lead is STOPPED, the previous one *)
(* ended with NEW_ORDER.  (open_cycle.)                                    *)
Order(w) ==
    LET l == txn[w].lead
        ended == EndCycles(cycles[l], FirstOf(ActiveCycles(cycles[l])), "NEW_ORDER")
    IN
    /\ Locked(w, "order")
    /\ BumpVersion(l) \/ UNCHANGED version
    /\ IF txn[w].seen.lifecycle = "STOPPED" THEN UNCHANGED cycleVars
       ELSE /\ HasRoom(l)
            /\ cycles' = [cycles EXCEPT ![l] = Append(ended, [status |-> "ACTIVE", reason |-> ""])]
            /\ current' = [current EXCEPT ![l] = Len(cycles[l]) + 1]
    /\ Finish(w)
    /\ UNCHANGED <<statusVars, attemptVars, appointmentVars, noteVars>>

(* Mutant: the cycle the page named is closed as it was when loaded.       *)
CloseCycleBlind(w) ==
    LET l == txn[w].lead IN
    /\ Locked(w, "close_cycle")
    /\ cycles' = [cycles EXCEPT ![l] = EndCycles(@, {txn[w].ref}, "MANUAL_CLOSE")]
    /\ current' = [current EXCEPT ![l] = NoCycle]
    /\ Finish(w)
    /\ UNCHANGED <<version, statusVars, attemptVars, appointmentVars, noteVars>>

(* end_cycle: the cycle is read again under the locks.                     *)
CloseCycle(w) ==
    LET l == txn[w].lead
        c == txn[w].ref
    IN
    /\ Locked(w, "close_cycle")
    /\ cycles[l][c].status = "ACTIVE"
    /\ cycles' = [cycles EXCEPT ![l] = EndCycles(@, {c}, "MANUAL_CLOSE")]
    /\ current' = [current EXCEPT ![l] = IF @ = c THEN NoCycle ELSE @]
    /\ Finish(w)
    /\ UNCHANGED <<version, statusVars, attemptVars, appointmentVars, noteVars>>

(* Mutant: auto-stop sets the lead's fields and leaves its cycle alone.    *)
StopFieldsOnly(l, reason) ==
    /\ lifecycle' = [lifecycle EXCEPT ![l] = "STOPPED"]
    /\ stopReason' = [stopReason EXCEPT ![l] = reason]
    /\ BumpVersion(l)
    /\ UNCHANGED cycleVars

(* stop_lead's writes, with the caller's stop reason.                      *)
StopWrites(l, reason) ==
    /\ cycles' = [cycles EXCEPT ![l] = EndCycles(@, ActiveCycles(@), "STOPPED")]
    /\ current' = [current EXCEPT ![l] = NoCycle]
    /\ lifecycle' = [lifecycle EXCEPT ![l] = "STOPPED"]
    /\ stopReason' = [stopReason EXCEPT ![l] = reason]
    /\ BumpVersion(l)

Stop(w) ==
    /\ Locked(w, "stop")
    /\ StopWrites(txn[w].lead, txn[w].choice)
    /\ Finish(w)
    /\ UNCHANGED <<attemptVars, appointmentVars, noteVars>>

Reactivate(w) ==
    LET l == txn[w].lead IN
    /\ Locked(w, "reactivate") /\ txn[w].seen.lifecycle = "STOPPED"
    /\ lifecycle' = [lifecycle EXCEPT ![l] = "FOLLOWING"]
    /\ stopReason' = [stopReason EXCEPT ![l] = ""]
    /\ BumpVersion(l)
    /\ Finish(w)
    /\ UNCHANGED <<cycleVars, attemptVars, appointmentVars, noteVars>>

(* Mutant: the status dropdown also takes a lead out of STOPPED.           *)
SetStatusFromAny(w) ==
    LET l == txn[w].lead IN
    /\ Locked(w, "set_status") /\ txn[w].choice # "STOPPED"
    /\ lifecycle' = [lifecycle EXCEPT ![l] = txn[w].choice]
    /\ BumpVersion(l)
    /\ Finish(w)
    /\ UNCHANGED <<stopReason, cycleVars, attemptVars, appointmentVars, noteVars>>

(* set_lifecycle: never to or from STOPPED; the same status is a no-op.    *)
SetStatus(w) ==
    LET l == txn[w].lead
        s == txn[w].choice
    IN
    /\ Locked(w, "set_status")
    /\ s # "STOPPED" /\ txn[w].seen.lifecycle # "STOPPED"
    /\ IF s = txn[w].seen.lifecycle THEN UNCHANGED <<lifecycle, version>>
       ELSE lifecycle' = [lifecycle EXCEPT ![l] = s] /\ BumpVersion(l)
    /\ Finish(w)
    /\ UNCHANGED <<stopReason, cycleVars, attemptVars, appointmentVars, noteVars>>

(* log_contact_attempt: the streak goes on from the reloaded row; a team   *)
(* that opted in stops the lead at the threshold.                          *)
NextStreak(seen, result) == IF result = "NO_ANSWER" THEN seen + 1 ELSE 0

LimitExceeded(n) == n > Threshold /\ AutoStop     \* mutant
LimitReached(n) == n >= Threshold /\ AutoStop

Attempt(w) ==
    LET l == txn[w].lead
        n == NextStreak(txn[w].seen.streak, txn[w].choice)
    IN
    /\ Locked(w, "attempt") /\ txn[w].seen.lifecycle # "STOPPED"
    /\ HasRoom(l)
    /\ attempts' = [attempts EXCEPT ![l] = Append(@, txn[w].choice)]
    /\ streak' = [streak EXCEPT ![l] = n]
    /\ IF LimitReached(n) THEN StopWrites(l, "CONTACT_LIMIT_REACHED")
       ELSE UNCHANGED <<version, statusVars, cycleVars>>
    /\ Finish(w)
    /\ UNCHANGED <<appointmentVars, noteVars>>

(* set_appointment.                                                        *)
Appoint(w) ==
    LET l == txn[w].lead
        s == Append(appointments[l], [at |-> txn[w].ref, status |-> "SCHEDULED"])
    IN
    /\ Locked(w, "appoint") /\ txn[w].seen.lifecycle # "STOPPED"
    /\ HasRoom(l)
    /\ appointments' = [appointments EXCEPT ![l] = s]
    /\ nextFollow' = [nextFollow EXCEPT ![l] = Soonest(s)]
    /\ Finish(w)
    /\ UNCHANGED <<version, statusVars, cycleVars, attemptVars, noteVars>>

(* _close_appointment: DONE, MISSED or CANCELLED, once; also on a STOPPED  *)
(* lead.                                                                   *)
CloseAppointment(w) ==
    LET l == txn[w].lead
        i == txn[w].ref
        s == [appointments[l] EXCEPT ![i].status = txn[w].choice]
    IN
    /\ Locked(w, "close_appointment")
    /\ appointments[l][i].status = "SCHEDULED"
    /\ appointments' = [appointments EXCEPT ![l] = s]
    /\ nextFollow' = [nextFollow EXCEPT ![l] = Soonest(s)]
    /\ Finish(w)
    /\ UNCHANGED <<version, statusVars, cycleVars, attemptVars, noteVars>>

(* add_note: allowed on a STOPPED lead.                                    *)
AddNote(w) ==
    LET l == txn[w].lead IN
    /\ Locked(w, "note")
    /\ HasRoom(l)
    /\ notes' = [notes EXCEPT ![l] = Append(@, txn[w].choice)]
    /\ latestNote' = [latestNote EXCEPT ![l] = txn[w].choice]
    /\ Finish(w)
    /\ UNCHANGED <<version, statusVars, cycleVars, attemptVars, appointmentVars>>

(* A refused call, a database error or a dead worker: nothing is written.  *)
Fail(w) ==
    /\ txn[w].op # "idle"
    /\ Finish(w)
    /\ UNCHANGED <<version, workVars>>

-----------------------------------------------------------------------------
PageVersions(l) == {NoVersion} \cup {p.version : p \in {q \in pages : q.lead = l}}

Request(w, l) ==
    \/ BeginOrder(w, l)
    \/ \E c \in 1..MaxRows : BeginCloseCycle(w, l, c)
    \/ \E r \in Result : BeginAttempt(w, l, r)
    \/ \E at \in Day : BeginAppoint(w, l, at)
    \/ \E i \in 1..MaxRows, s \in {"DONE", "MISSED", "CANCELLED"} :
           BeginCloseAppointment(w, l, i, s)
    \/ \E b \in Note : BeginNote(w, l, b)
    \/ \E v \in PageVersions(l) :
           \/ BeginReassign(w, l, v) \/ BeginReactivate(w, l, v)
           \/ \E r \in StopReason : BeginStop(w, l, v, r)
           \/ \E s \in Status : BeginSetStatus(w, l, v, s)

Step(w) ==
    \/ Reassign(w) \/ Order(w) \/ CloseCycle(w)
    \/ Stop(w) \/ Reactivate(w) \/ SetStatus(w)
    \/ Attempt(w) \/ Appoint(w) \/ CloseAppointment(w) \/ AddNote(w)
    \/ Fail(w)

Next ==
    \/ \E l \in Lead : RenderPage(l)
    \/ \E p \in pages : ClosePage(p)
    \/ \E w \in Worker : Step(w) \/ \E l \in Lead : Request(w, l)

Spec == Init /\ [][Next]_vars

-----------------------------------------------------------------------------
(* Properties.                                                             *)

(* The lead points at its active cycle, and there is at most one: the      *)
(* partial unique index ux_cycle_one_active is never hit, and the queues   *)
(* that read current_cycle_id agree with the cycle rows.                   *)
CyclesAgree(s, c) ==
    /\ c # NoCycle => c \in DOMAIN s
    /\ \A i \in DOMAIN s : s[i].status = "ACTIVE" <=> i = c

CurrentIsTheActiveCycle == \A l \in Lead : CyclesAgree(cycles[l], current[l])

(* STOPPED always carries a reason, holds no active cycle, and nothing     *)
(* else carries one (services.stop_lead, models.Lead.clean).               *)
StoppedIsParked ==
    \A l \in Lead :
        /\ lifecycle[l] = "STOPPED" <=> stopReason[l] # ""
        /\ lifecycle[l] = "STOPPED" => current[l] = NoCycle /\ ActiveCycles(cycles[l]) = {}

(* next_follow_at is the soonest appointment still scheduled, however the  *)
(* bookings and the closings interleave (services._refresh_next_follow_at). *)
NextFollowIsSoonest ==
    \A l \in Lead :
        IF Scheduled(appointments[l]) = {} THEN nextFollow[l] = NoTime
        ELSE /\ \E i \in Scheduled(appointments[l]) : appointments[l][i].at = nextFollow[l]
             /\ \A i \in Scheduled(appointments[l]) : nextFollow[l] <= appointments[l][i].at

(* The streak is the number of NO_ANSWER results since the last other one: *)
(* two concurrent attempts never lose a count (services.log_contact_attempt). *)
CountsTrailing(s, n) ==
    /\ n <= Len(s)
    /\ \A i \in (Len(s) - n + 1)..Len(s) : s[i] = "NO_ANSWER"
    /\ n < Len(s) => s[Len(s) - n] # "NO_ANSWER"

StreakIsExact == \A l \in Lead : CountsTrailing(attempts[l], streak[l])

(* The version of an open page identifies the status it showed, so a       *)
(* decision taken on an old page is refused (services.lock_lead).          *)
VersionIdentifiesStatus ==
    \A p \in pages :
        /\ p.version <= version[p.lead]
        /\ p.version = version[p.lead] => p.lifecycle = lifecycle[p.lead]

(* What a service saw when it locked the lead still holds when it writes.  *)
SeenIsCurrent ==
    \A w \in Worker : LET t == txn[w] IN
        t # Idle => /\ lock[t.lead] = w
                    /\ t.seen = [lifecycle |-> lifecycle[t.lead], streak |-> streak[t.lead]]

(* The lead row, the rows below it and what a request holds of them agree, *)
(* whoever else was at work on the lead (followcycles/services.py).        *)
LeadIsConsistent ==
    /\ TypeOK
    /\ CurrentIsTheActiveCycle /\ StoppedIsParked
    /\ NextFollowIsSoonest /\ StreakIsExact
    /\ SeenIsCurrent

(* A STOPPED lead gets no attempt, no appointment and no cycle, and leaves *)
(* STOPPED only through reactivate_lead, whatever was in flight when it    *)
(* was stopped (services._reject_if_stopped, sync_leads_for_order).        *)
StoppedIsLeftAlone ==
    [][\A l \in Lead :
          lifecycle[l] = "STOPPED" =>
              /\ UNCHANGED <<attempts[l], current[l]>>
              /\ Len(appointments'[l]) = Len(appointments[l])
              /\ Len(cycles'[l]) = Len(cycles[l])
              /\ lifecycle'[l] # "STOPPED" => \E w \in Worker : Reactivate(w)]_vars

(* Ended cycles and closed appointments are history: the reason a cycle    *)
(* ended for and the way an appointment was closed are never overwritten,  *)
(* and no row disappears (services.open_cycle, _close_appointment).        *)
HistoryIsFinal ==
    [][\A l \in Lead :
          /\ \A i \in DOMAIN cycles[l] :
                 /\ i \in DOMAIN cycles'[l]
                 /\ cycles[l][i].status = "ENDED" => cycles'[l][i] = cycles[l][i]
          /\ \A i \in DOMAIN appointments[l] :
                 /\ i \in DOMAIN appointments'[l]
                 /\ appointments[l][i].status # "SCHEDULED" =>
                       appointments'[l][i] = appointments[l][i]]_vars

(* A team that opted in stops a lead with the very attempt that makes      *)
(* Threshold consecutive NO_ANSWERs, whoever logged the others.            *)
AutoStopFires ==
    [][\A l \in Lead :
          (AutoStop /\ Len(attempts'[l]) > Len(attempts[l]) /\ Len(attempts'[l]) >= Threshold
            /\ \A i \in (Len(attempts'[l]) - Threshold + 1)..Len(attempts'[l]) :
                   attempts'[l][i] = "NO_ANSWER")
          => lifecycle'[l] = "STOPPED"]_vars
=============================================================================
