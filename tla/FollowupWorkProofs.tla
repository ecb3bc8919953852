------------------------- MODULE FollowupWorkProofs -------------------------
(***************************************************************************)
(* Proofs about FollowupWork, for every set of leads and workers, every    *)
(* threshold and every bound.                                              *)
(***************************************************************************)
EXTENDS FollowupWork, WellFoundedInduction, SequenceTheorems, TLAPS

-----------------------------------------------------------------------------
(* What the services compute.                                              *)

(* A set of natural numbers that is not empty has a least element.         *)
LEMMA LeastOfNaturals ==
    ASSUME NEW S \in SUBSET Nat, S # {}
    PROVE  \E m \in S : \A n \in S : m <= n
<1>1. IsWellFoundedOn(OpToRel(<, Nat), Nat)
  BY NatLessThanWellFounded
<1>2. PICK m \in S : \A n \in S : ~ (<<n, m>> \in OpToRel(<, Nat))
  BY <1>1, WFMin
<1>3. ASSUME NEW n \in S
      PROVE  ~ (n < m)
  <2>1. <<n, m>> \notin {ss \in Nat \X Nat : ss[1] < ss[2]}
    BY <1>2 DEF OpToRel
  <2> QED
    BY <2>1
<1> QED
  BY <1>3

(* _refresh_next_follow_at: the soonest scheduled instant, or none.        *)
LEMMA SoonestIsSoonest ==
    ASSUME NEW s \in Seq(Appointment)
    PROVE  /\ Soonest(s) \in Day \cup {NoTime}
           /\ IF Scheduled(s) = {} THEN Soonest(s) = NoTime
              ELSE /\ \E i \in Scheduled(s) : s[i].at = Soonest(s)
                   /\ \A i \in Scheduled(s) : Soonest(s) <= s[i].at
<1> DEFINE T == {s[i].at : i \in Scheduled(s)}
<1>1. CASE Scheduled(s) = {}
  BY <1>1 DEF Soonest
<1>2. CASE Scheduled(s) # {}
  <2>1. \A i \in Scheduled(s) : s[i] \in Appointment
    BY DEF Scheduled
  <2>2. T \subseteq Day /\ T # {}
    BY <1>2, <2>1 DEF Appointment
  <2>3. T \in SUBSET Nat
    BY <2>2, DaysArePositive
  <2>4. \E t \in T : \A u \in T : t <= u
    <3> HIDE DEF T
    <3> QED
      BY <2>2, <2>3, LeastOfNaturals
  <2>5. \E t \in T : \A i \in Scheduled(s) : t <= s[i].at
    BY <2>4
  <2>6. Soonest(s) \in T /\ \A i \in Scheduled(s) : Soonest(s) <= s[i].at
    BY <1>2, <2>5 DEF Soonest
  <2> QED
    BY <1>2, <2>2, <2>6
<1> QED
  BY <1>1, <1>2

(* One more result: the count goes on, or starts again.                    *)
LEMMA CountGoesOn ==
    ASSUME NEW s \in Seq(Result), NEW n \in Nat, CountsTrailing(s, n), NEW r \in Result
    PROVE  CountsTrailing(Append(s, r), NextStreak(n, r)) /\ NextStreak(n, r) \in Nat
<1> DEFINE a == Append(s, r)
           k == Len(s)
<1>1. /\ k \in Nat /\ a \in Seq(Result) /\ Len(a) = k + 1 /\ a[k + 1] = r
      /\ \A i \in 1..k : a[i] = s[i]
  BY AppendProperties
<1>2. /\ n <= k
      /\ \A i \in (k - n + 1)..k : s[i] = "NO_ANSWER"
      /\ n < k => s[k - n] # "NO_ANSWER"
  BY DEF CountsTrailing
<1> HIDE DEF a, k
<1>3. CASE r = "NO_ANSWER"
  <2>1. NextStreak(n, r) = n + 1
    BY <1>3 DEF NextStreak
  <2>2. \A i \in (k + 1 - (n + 1) + 1)..(k + 1) : a[i] = "NO_ANSWER"
    <3> TAKE i \in (k + 1 - (n + 1) + 1)..(k + 1)
    <3>1. CASE i = k + 1
      BY <1>1, <1>3, <3>1
    <3>2. CASE i # k + 1
      BY <1>1, <1>2, <3>2
    <3> QED
      BY <3>1, <3>2
  <2>3. n + 1 < k + 1 => a[k + 1 - (n + 1)] # "NO_ANSWER"
    <3> SUFFICES ASSUME n + 1 < k + 1
                 PROVE  a[k + 1 - (n + 1)] # "NO_ANSWER"
      OBVIOUS
    <3>1. k + 1 - (n + 1) = k - n /\ k - n \in 1..k
      BY <1>1, <1>2
    <3> QED
      BY <1>1, <1>2, <3>1
  <2> QED
    BY <1>1, <1>2, <2>1, <2>2, <2>3 DEF CountsTrailing, a
<1>4. CASE r # "NO_ANSWER"
  <2>1. NextStreak(n, r) = 0
    BY <1>4 DEF NextStreak
  <2>2. (k + 1 - 0 + 1)..(k + 1) = {} /\ k + 1 - 0 = k + 1
    BY <1>1
  <2>3. CountsTrailing(a, 0)
    BY <1>1, <1>4, <2>2 DEF CountsTrailing
  <2> QED
    BY <2>1, <2>3 DEF a
<1> QED
  BY <1>3, <1>4

(* A function on the positions of a sequence is a sequence as long.        *)
LEMMA SameLength ==
    ASSUME NEW S, NEW T, NEW s \in Seq(S), NEW f \in [DOMAIN s -> T]
    PROVE  f \in Seq(T) /\ Len(f) = Len(s) /\ DOMAIN f = DOMAIN s
<1>1. Len(s) \in Nat /\ DOMAIN s = 1..Len(s)
  OBVIOUS
<1> QED
  BY <1>1

(* Appending to a sequence: the new last element, the others as they were. *)
LEMMA Appending ==
    ASSUME NEW S, NEW s \in Seq(S), NEW x \in S
    PROVE  /\ Append(s, x) \in Seq(S) /\ Len(Append(s, x)) = Len(s) + 1
           /\ Len(s) \in Nat /\ DOMAIN s = 1..Len(s)
           /\ DOMAIN Append(s, x) = 1..(Len(s) + 1)
           /\ Append(s, x)[Len(s) + 1] = x
           /\ \A i \in 1..Len(s) : /\ s[i] \in S /\ Append(s, x)[i] = s[i]
                                   /\ i \in 1..(Len(s) + 1) /\ i # Len(s) + 1
           /\ \A i \in 1..(Len(s) + 1) : i = Len(s) + 1 \/ i \in 1..Len(s)
<1> DEFINE n == Len(s)
<1>1. n \in Nat /\ DOMAIN s = 1..n /\ \A i \in 1..n : s[i] \in S
  OBVIOUS
<1>2. /\ \A i \in 1..n : i \in 1..(n + 1) /\ i # n + 1
      /\ \A i \in 1..(n + 1) : i = n + 1 \/ i \in 1..n
  <2> HIDE DEF n
  <2> QED
    BY <1>1
<1>3. /\ Append(s, x) \in Seq(S) /\ Len(Append(s, x)) = n + 1
      /\ Append(s, x)[n + 1] = x /\ \A i \in 1..n : Append(s, x)[i] = s[i]
  BY AppendProperties
<1>4. DOMAIN Append(s, x) = 1..(n + 1)
  BY <1>3
<1> QED
  BY <1>1, <1>2, <1>3, <1>4

Ending(reason) == [status |-> "ENDED", reason |-> reason]
Opened == [status |-> "ACTIVE", reason |-> ""]

(* A row that was opened, and one that was ended, are cycles.              *)
LEMMA CycleRows ==
    /\ Opened \in Cycle /\ Opened.status = "ACTIVE"
    /\ \A r \in {"NEW_ORDER", "MANUAL_CLOSE", "STOPPED"} :
           Ending(r) \in Cycle /\ Ending(r).status = "ENDED"
    /\ \A c \in Cycle : c.status # "ACTIVE" <=> c.status = "ENDED"
  BY DEF Opened, Ending, Cycle

(* Ending cycles changes the rows that are named and leaves the others.    *)
LEMMA EndingCycles ==
    ASSUME NEW s \in Seq(Cycle), NEW ids,
           NEW reason \in {"NEW_ORDER", "MANUAL_CLOSE", "STOPPED"}
    PROVE  /\ EndCycles(s, ids, reason) \in Seq(Cycle)
           /\ Len(EndCycles(s, ids, reason)) = Len(s)
           /\ DOMAIN EndCycles(s, ids, reason) = DOMAIN s
           /\ \A i \in DOMAIN s : /\ EndCycles(s, ids, reason)[i] =
                                         IF i \in ids THEN Ending(reason) ELSE s[i]
                                  /\ EndCycles(s, ids, reason)[i] \in Cycle
<1>1. Ending(reason) \in Cycle
  BY CycleRows
<1>2. \A i \in DOMAIN s : s[i] \in Cycle
  OBVIOUS
<1>3. EndCycles(s, ids, reason) \in [DOMAIN s -> Cycle]
  BY <1>1, <1>2 DEF EndCycles, Ending
<1>4. \A i \in DOMAIN s : EndCycles(s, ids, reason)[i] =
                              IF i \in ids THEN Ending(reason) ELSE s[i]
  BY DEF EndCycles, Ending
<1> QED
  BY <1>3, <1>4, SameLength

(* The lead's pointer is the set of its active cycles.                     *)
LEMMA ActiveIsCurrent ==
    ASSUME NEW s \in Seq(Cycle), NEW c \in Nat, CyclesAgree(s, c)
    PROVE  ActiveCycles(s) = IF c = NoCycle THEN {} ELSE {c}
  BY DEF CyclesAgree, ActiveCycles, NoCycle

(* What may become of a lead's cycles in a step: none disappears, an ended *)
(* one stays as it is.                                                     *)
Keeps(s, e) == \A i \in DOMAIN s : i \in DOMAIN e /\ (s[i].status = "ENDED" => e[i] = s[i])

(* open_cycle: the active cycle is ended, the new one takes its place.     *)
LEMMA OpeningAgrees ==
    ASSUME NEW s \in Seq(Cycle), NEW c \in Nat, CyclesAgree(s, c),
           NEW e, e = Append(EndCycles(s, FirstOf(ActiveCycles(s)), "NEW_ORDER"), Opened)
    PROVE  /\ e \in Seq(Cycle) /\ Len(s) + 1 \in Nat
           /\ CyclesAgree(e, Len(s) + 1) /\ Keeps(s, e)
<1> DEFINE ids == FirstOf(ActiveCycles(s))
           d == EndCycles(s, ids, "NEW_ORDER")
           n == Len(s)
<1>1. ids = ActiveCycles(s)
  BY ActiveIsCurrent DEF FirstOf
<1>2. /\ d \in Seq(Cycle) /\ Len(d) = n
      /\ \A i \in DOMAIN s : d[i] = IF i \in ids THEN Ending("NEW_ORDER") ELSE s[i]
  BY EndingCycles
<1>3. /\ e \in Seq(Cycle) /\ n \in Nat /\ DOMAIN s = 1..n /\ DOMAIN e = 1..(n + 1)
      /\ e[n + 1] = Opened
      /\ \A i \in 1..n : e[i] = d[i] /\ i \in 1..(n + 1) /\ i # n + 1
      /\ \A i \in 1..(n + 1) : i = n + 1 \/ i \in 1..n
  <2>1. n \in Nat /\ DOMAIN s = 1..n
    OBVIOUS
  <2> HIDE DEF d, n
  <2> QED
    BY <1>2, <2>1, CycleRows, Appending DEF d
<1>4. \A i \in DOMAIN s : /\ i \in ids => s[i].status = "ACTIVE" /\ d[i].status = "ENDED"
                          /\ i \notin ids => s[i].status # "ACTIVE" /\ d[i] = s[i]
  BY <1>1, <1>2, CycleRows DEF ActiveCycles
<1> HIDE DEF ids, d, n
<1>5. n + 1 # NoCycle /\ n + 1 \in 1..(n + 1) /\ n + 1 \in Nat
  BY <1>3 DEF NoCycle
<1>6. \A i \in 1..n : e[i].status # "ACTIVE"
  BY <1>3, <1>4
<1>7. CyclesAgree(e, n + 1)
  BY <1>3, <1>5, <1>6, CycleRows DEF CyclesAgree
<1>8. Keeps(s, e)
  <2> SUFFICES ASSUME NEW i \in 1..n
               PROVE  i \in DOMAIN e /\ (s[i].status = "ENDED" => e[i] = s[i])
    BY <1>3 DEF Keeps
  <2> QED
    BY <1>3, <1>4
<1> QED
  BY <1>3, <1>5, <1>7, <1>8 DEF n

(* end_cycle: the active cycle is ended and the pointer cleared.           *)
LEMMA ClosingAgrees ==
    ASSUME NEW s \in Seq(Cycle), NEW c \in Nat, CyclesAgree(s, c),
           NEW i \in DOMAIN s, s[i].status = "ACTIVE",
           NEW e, e = EndCycles(s, {i}, "MANUAL_CLOSE")
    PROVE  /\ c = i /\ e \in Seq(Cycle)
           /\ CyclesAgree(e, NoCycle) /\ Keeps(s, e)
<1>1. /\ e \in Seq(Cycle) /\ DOMAIN e = DOMAIN s
      /\ \A j \in DOMAIN s : e[j] = IF j \in {i} THEN Ending("MANUAL_CLOSE") ELSE s[j]
  BY EndingCycles
<1>2. c = i /\ \A j \in DOMAIN s : s[j].status = "ACTIVE" <=> j = i
  BY DEF CyclesAgree
<1>3. \A j \in DOMAIN e : e[j].status # "ACTIVE"
  BY <1>1, <1>2, CycleRows
<1>4. \A j \in DOMAIN e : j # NoCycle
  BY <1>1 DEF NoCycle
<1>5. CyclesAgree(e, NoCycle)
  BY <1>3, <1>4 DEF CyclesAgree
<1>6. Keeps(s, e)
  BY <1>1, <1>2 DEF Keeps
<1> QED
  BY <1>1, <1>2, <1>5, <1>6

(* stop_lead: no cycle is left active.                                     *)
LEMMA StoppingAgrees ==
    ASSUME NEW s \in Seq(Cycle), NEW e, e = EndCycles(s, ActiveCycles(s), "STOPPED")
    PROVE  /\ e \in Seq(Cycle) /\ Len(e) = Len(s) /\ ActiveCycles(e) = {}
           /\ CyclesAgree(e, NoCycle) /\ Keeps(s, e)
<1>1. /\ e \in Seq(Cycle) /\ DOMAIN e = DOMAIN s /\ Len(e) = Len(s)
      /\ \A j \in DOMAIN s : e[j] = IF j \in ActiveCycles(s) THEN Ending("STOPPED") ELSE s[j]
  BY EndingCycles
<1>2. \A j \in DOMAIN e : e[j].status # "ACTIVE"
  BY <1>1, CycleRows DEF ActiveCycles
<1>3. \A j \in DOMAIN e : j # NoCycle
  BY <1>1 DEF NoCycle
<1>4. CyclesAgree(e, NoCycle) /\ ActiveCycles(e) = {}
  BY <1>2, <1>3 DEF CyclesAgree, ActiveCycles
<1>5. Keeps(s, e)
  BY <1>1, CycleRows DEF Keeps, ActiveCycles
<1> QED
  BY <1>1, <1>4, <1>5

-----------------------------------------------------------------------------
(* The inductive invariant.                                                *)

(* A call carries what its form may carry and names a row that is there.   *)
CallIsSound(t) ==
    /\ t.op = "idle" => t = Idle
    /\ t.op = "attempt" => t.choice \in Result
    /\ t.op = "stop" => t.choice \in StopReason
    /\ t.op = "set_status" => t.choice \in Status
    /\ t.op = "note" => t.choice \in Note
    /\ t.op = "appoint" => t.ref \in Day
    /\ t.op = "close_appointment" => /\ t.choice \in {"DONE", "MISSED", "CANCELLED"}
                                     /\ t.ref \in DOMAIN appointments[t.lead]
    /\ t.op = "close_cycle" => t.ref \in DOMAIN cycles[t.lead]

CallsAreSound == \A w \in Worker : CallIsSound(txn[w])

IInv ==
    /\ TypeOK /\ CallsAreSound
    /\ CurrentIsTheActiveCycle /\ StoppedIsParked
    /\ NextFollowIsSoonest /\ StreakIsExact
    /\ SeenIsCurrent /\ VersionIdentifiesStatus

(* One lead's share of it.                                                 *)
NextIsSoonest(s, n) ==
    IF Scheduled(s) = {} THEN n = NoTime
    ELSE /\ \E i \in Scheduled(s) : s[i].at = n
         /\ \A i \in Scheduled(s) : n <= s[i].at

StatusSound(l) == lifecycle[l] \in Status /\ stopReason[l] \in StopReason \cup {""}
CyclesSound(l) ==
    cycles[l] \in Seq(Cycle) /\ current[l] \in Nat /\ CyclesAgree(cycles[l], current[l])
AttemptsSound(l) ==
    attempts[l] \in Seq(Result) /\ streak[l] \in Nat /\ CountsTrailing(attempts[l], streak[l])
AppointmentsSound(l) ==
    /\ appointments[l] \in Seq(Appointment) /\ nextFollow[l] \in Day \cup {NoTime}
    /\ NextIsSoonest(appointments[l], nextFollow[l])
NotesSound(l) == notes[l] \in Seq(Note) /\ latestNote[l] \in Note \cup {NoNote}

Parked(l) ==
    /\ lifecycle[l] = "STOPPED" <=> stopReason[l] # ""
    /\ lifecycle[l] = "STOPPED" => current[l] = NoCycle /\ ActiveCycles(cycles[l]) = {}

LeadSound(l) ==
    /\ StatusSound(l) /\ CyclesSound(l) /\ Parked(l)
    /\ AttemptsSound(l) /\ AppointmentsSound(l) /\ NotesSound(l)

(* What the services have in common: they write one lead, no cycle and no  *)
(* appointment disappears or is rewritten once closed, and the status      *)
(* moves only with the version.                                            *)
WritesStatus(l) == /\ lifecycle' = [lifecycle EXCEPT ![l] = lifecycle'[l]]
                   /\ stopReason' = [stopReason EXCEPT ![l] = stopReason'[l]]
WritesCycles(l) == /\ cycles' = [cycles EXCEPT ![l] = cycles'[l]]
                   /\ current' = [current EXCEPT ![l] = current'[l]]
                   /\ Keeps(cycles[l], cycles'[l])
WritesAttempts(l) == /\ attempts' = [attempts EXCEPT ![l] = attempts'[l]]
                     /\ streak' = [streak EXCEPT ![l] = streak'[l]]
WritesAppointments(l) ==
    /\ appointments' = [appointments EXCEPT ![l] = appointments'[l]]
    /\ nextFollow' = [nextFollow EXCEPT ![l] = nextFollow'[l]]
    /\ \A i \in DOMAIN appointments[l] :
           /\ i \in DOMAIN appointments'[l]
           /\ appointments[l][i].status # "SCHEDULED" =>
                 appointments'[l][i] = appointments[l][i]
WritesNotes(l) == /\ notes' = [notes EXCEPT ![l] = notes'[l]]
                  /\ latestNote' = [latestNote EXCEPT ![l] = latestNote'[l]]
VersionMoves(l) ==
    \/ version' = version /\ lifecycle'[l] = lifecycle[l]
    \/ BumpVersion(l)

Serves(w, l) ==
    /\ Finish(w) /\ VersionMoves(l)
    /\ WritesStatus(l) /\ WritesCycles(l) /\ WritesAttempts(l)
    /\ WritesAppointments(l) /\ WritesNotes(l)

(* Versions are natural numbers, and a new lead has the first.             *)
LEMMA VersionsAreNat == Version \subseteq Nat /\ 1 \in Version
  BY MaxVersionIsNat DEF Version

(* The invariant holds of every lead.                                      *)
LEMMA EachLeadIsSound == IInv => \A l \in Lead : LeadSound(l)
  BY DEF IInv, TypeOK, CurrentIsTheActiveCycle, StoppedIsParked, NextFollowIsSoonest,
         StreakIsExact, LeadSound, StatusSound, CyclesSound, AttemptsSound,
         AppointmentsSound, NotesSound, Parked, NextIsSoonest

(* What a step leaves alone stays sound.                                   *)
LEMMA Untouched ==
    ASSUME IInv, NEW l \in Lead
    PROVE  /\ UNCHANGED statusVars => WritesStatus(l) /\ StatusSound(l)'
           /\ UNCHANGED cycleVars => WritesCycles(l) /\ CyclesSound(l)'
           /\ UNCHANGED <<statusVars, cycleVars>> => Parked(l)'
           /\ UNCHANGED attemptVars => WritesAttempts(l) /\ AttemptsSound(l)'
           /\ UNCHANGED appointmentVars => WritesAppointments(l) /\ AppointmentsSound(l)'
           /\ UNCHANGED noteVars => WritesNotes(l) /\ NotesSound(l)'
<1>1. /\ StatusSound(l) /\ CyclesSound(l) /\ Parked(l)
      /\ AttemptsSound(l) /\ AppointmentsSound(l) /\ NotesSound(l)
  BY EachLeadIsSound DEF LeadSound
<1>2. UNCHANGED statusVars => WritesStatus(l) /\ StatusSound(l)'
  BY <1>1 DEF IInv, TypeOK, statusVars, WritesStatus, StatusSound
<1>3. ASSUME UNCHANGED cycleVars PROVE WritesCycles(l) /\ CyclesSound(l)'
  BY <1>1, <1>3 DEF IInv, TypeOK, cycleVars, WritesCycles, CyclesSound, Keeps, CyclesAgree
<1>4. ASSUME UNCHANGED <<statusVars, cycleVars>> PROVE Parked(l)'
  BY <1>1, <1>4 DEF statusVars, cycleVars, Parked, ActiveCycles
<1>5. ASSUME UNCHANGED attemptVars PROVE WritesAttempts(l) /\ AttemptsSound(l)'
  BY <1>1, <1>5 DEF IInv, TypeOK, attemptVars, WritesAttempts, AttemptsSound, CountsTrailing
<1>6. ASSUME UNCHANGED appointmentVars PROVE WritesAppointments(l) /\ AppointmentsSound(l)'
  BY <1>1, <1>6 DEF IInv, TypeOK, appointmentVars, WritesAppointments, AppointmentsSound,
                    NextIsSoonest, Scheduled
<1>7. UNCHANGED noteVars => WritesNotes(l) /\ NotesSound(l)'
  BY <1>1 DEF IInv, TypeOK, noteVars, WritesNotes, NotesSound
<1> QED
  BY <1>2, <1>3, <1>4, <1>5, <1>6, <1>7

(* So does what it leaves alone of another lead.                           *)
LEMMA OtherLeads ==
    ASSUME IInv, NEW l \in Lead, NEW k \in Lead, k # l,
           WritesStatus(l), WritesCycles(l), WritesAttempts(l),
           WritesAppointments(l), WritesNotes(l)
    PROVE  /\ LeadSound(k)'
           /\ lifecycle'[k] = lifecycle[k] /\ streak'[k] = streak[k]
           /\ cycles'[k] = cycles[k] /\ appointments'[k] = appointments[k]
           /\ current'[k] = current[k] /\ attempts'[k] = attempts[k]
<1>1. /\ StatusSound(k) /\ CyclesSound(k) /\ Parked(k)
      /\ AttemptsSound(k) /\ AppointmentsSound(k) /\ NotesSound(k)
  BY EachLeadIsSound DEF LeadSound
<1>2. lifecycle'[k] = lifecycle[k] /\ stopReason'[k] = stopReason[k]
  BY DEF IInv, TypeOK, WritesStatus
<1>3. cycles'[k] = cycles[k] /\ current'[k] = current[k]
  BY DEF IInv, TypeOK, WritesCycles
<1>4. attempts'[k] = attempts[k] /\ streak'[k] = streak[k]
  BY DEF IInv, TypeOK, WritesAttempts
<1>5. appointments'[k] = appointments[k] /\ nextFollow'[k] = nextFollow[k]
  BY DEF IInv, TypeOK, WritesAppointments
<1>6. notes'[k] = notes[k] /\ latestNote'[k] = latestNote[k]
  BY DEF IInv, TypeOK, WritesNotes
<1>7. StatusSound(k)' /\ NotesSound(k)'
  BY <1>1, <1>2, <1>6 DEF StatusSound, NotesSound
<1>8. CyclesSound(k)'
  BY <1>1, <1>3 DEF CyclesSound, CyclesAgree
<1>9. Parked(k)'
  <2>1. ActiveCycles(cycles[k])' = ActiveCycles(cycles[k])
    BY <1>3 DEF ActiveCycles
  <2> QED
    BY <1>1, <1>2, <1>3, <2>1 DEF Parked
<1>10. AttemptsSound(k)'
  BY <1>1, <1>4 DEF AttemptsSound, CountsTrailing
<1>11. AppointmentsSound(k)'
  BY <1>1, <1>5 DEF AppointmentsSound, NextIsSoonest, Scheduled
<1> QED
  BY <1>2, <1>3, <1>4, <1>5, <1>7, <1>8, <1>9, <1>10, <1>11 DEF LeadSound

(* No call at all.                                                         *)
LEMMA IdleIsACall == Idle \in Txn /\ Idle.op = "idle" /\ CallIsSound(Idle)
<1> DEFINE l == CHOOSE l \in Lead : TRUE
<1>1. l \in Lead
  BY SomeLead
<1>2. Idle = [op |-> "idle", lead |-> l, form |-> 0, choice |-> "", ref |-> 0,
             seen |-> [lifecycle |-> "NEW", streak |-> 0]]
  BY DEF Idle, Call, NotSeen, NoVersion
<1> HIDE DEF l
<1>3. Idle \in Txn
  BY <1>1, <1>2 DEF Txn, Seen, Op, Choice, Status, NoVersion
<1>4. Idle.op = "idle"
  BY <1>2
<1> QED
  BY <1>3, <1>4 DEF CallIsSound

(* A service that leaves its lead sound preserves the invariant: what the  *)
(* other transactions saw is of other leads, for this one held the lock.   *)
LEMMA ServicePreserves ==
    ASSUME IInv, NEW w \in Worker, txn[w].op # "idle", NEW l \in Lead, l = txn[w].lead,
           Serves(w, l), LeadSound(l)'
    PROVE  IInv'
<1>1. lock[l] = w
  <2>1. txn[w] # Idle
    BY IdleIsACall
  <2> QED
    BY <2>1 DEF IInv, SeenIsCurrent
<1>2. Idle \in Txn
  BY IdleIsACall
<1>3. /\ txn' \in [Worker -> Txn] /\ pages' \subseteq Page
      /\ \A v \in Worker : txn'[v] = IF v = w THEN Idle ELSE txn[v]
  BY <1>2 DEF IInv, TypeOK, Serves, Finish
<1>4. version' \in [Lead -> Version] /\ \A k \in Lead : 
         /\ version[k] \in Nat
         /\ version'[k] = version[k] \/ (k = l /\ version'[k] = version[k] + 1)
  <2>1. \A k \in Lead : version[k] \in Version
    BY DEF IInv, TypeOK, RowTypeOK
  <2>2. \A v \in Version : v \in Nat /\ (v < MaxVersion => v + 1 \in Version)
    BY MaxVersionIsNat DEF Version
  <2>3. CASE version' = version
    BY <2>1, <2>2, <2>3 DEF IInv, TypeOK, RowTypeOK
  <2>4. CASE BumpVersion(l)
    <3>1. /\ version[l] < MaxVersion /\ version' = [version EXCEPT ![l] = version[l] + 1]
          /\ version \in [Lead -> Version]
      BY <2>4 DEF BumpVersion, IInv, TypeOK, RowTypeOK
    <3> QED
      BY <2>1, <2>2, <3>1
  <2> QED
    BY <2>3, <2>4 DEF Serves, VersionMoves
<1>5. /\ lock' \in [Lead -> Worker \cup {Free}]
      /\ \A k \in Lead : lock'[k] = IF lock[k] = w THEN Free ELSE lock[k]
  BY DEF IInv, TypeOK, RowTypeOK, Serves, Finish, ReleaseAll
<1>6. ASSUME NEW k \in Lead, k # l
      PROVE  /\ LeadSound(k)'
             /\ lifecycle'[k] = lifecycle[k] /\ streak'[k] = streak[k]
             /\ cycles'[k] = cycles[k] /\ appointments'[k] = appointments[k]
  BY <1>6, OtherLeads DEF Serves
<1>7. \A k \in Lead : LeadSound(k)'
  BY <1>6
<1>8. TypeOK'
  <2>1. /\ lifecycle' \in [Lead -> Status]
        /\ stopReason' \in [Lead -> StopReason \cup {""}]
        /\ notes' \in [Lead -> Seq(Note)] /\ latestNote' \in [Lead -> Note \cup {NoNote}]
    BY <1>7 DEF IInv, TypeOK, Serves, WritesStatus, WritesNotes, LeadSound, StatusSound, NotesSound
  <2>2. /\ cycles' \in [Lead -> Seq(Cycle)] /\ current' \in [Lead -> Nat]
    BY <1>7 DEF IInv, TypeOK, Serves, WritesCycles, LeadSound, CyclesSound
  <2>3. /\ attempts' \in [Lead -> Seq(Result)] /\ streak' \in [Lead -> Nat]
    BY <1>7 DEF IInv, TypeOK, Serves, WritesAttempts, LeadSound, AttemptsSound
  <2>4. /\ appointments' \in [Lead -> Seq(Appointment)]
        /\ nextFollow' \in [Lead -> Day \cup {NoTime}]
    BY <1>7 DEF IInv, TypeOK, Serves, WritesAppointments, LeadSound, AppointmentsSound
  <2> QED
    BY <1>3, <1>4, <1>5, <2>1, <2>2, <2>3, <2>4 DEF TypeOK, RowTypeOK
<1>9. CallsAreSound'
  <2> SUFFICES ASSUME NEW v \in Worker, NEW t, t = txn'[v] PROVE CallIsSound(t)'
    BY DEF CallsAreSound
  <2>1. CASE v = w
    <3>1. t = Idle
      BY <1>3, <2>1
    <3> QED
      BY <3>1, IdleIsACall DEF CallIsSound
  <2>2. CASE v # w
    <3>1. txn'[v] = txn[v] /\ CallIsSound(txn[v]) /\ txn[v].lead \in Lead
      BY <1>3, <2>2 DEF IInv, CallsAreSound, TypeOK, Txn
    <3>2. \A k \in Lead : /\ \A i \in DOMAIN cycles[k] : i \in DOMAIN cycles'[k]
                          /\ \A i \in DOMAIN appointments[k] : i \in DOMAIN appointments'[k]
      BY <1>6 DEF Serves, WritesCycles, WritesAppointments, Keeps
    <3> QED
      BY <3>1, <3>2 DEF CallIsSound
  <2> QED
    BY <2>1, <2>2
<1>10. SeenIsCurrent'
  <2> SUFFICES ASSUME NEW v \in Worker, txn'[v] # Idle
               PROVE  /\ lock'[txn'[v].lead] = v
                      /\ txn'[v].seen = [lifecycle |-> lifecycle'[txn'[v].lead],
                                         streak |-> streak'[txn'[v].lead]]
    BY DEF SeenIsCurrent
  <2>1. v # w /\ txn'[v] = txn[v] /\ txn[v].lead \in Lead
    BY <1>3 DEF IInv, TypeOK, Txn
  <2>2. /\ lock[txn[v].lead] = v
        /\ txn[v].seen = [lifecycle |-> lifecycle[txn[v].lead], streak |-> streak[txn[v].lead]]
    BY <2>1 DEF IInv, SeenIsCurrent
  <2>3. txn[v].lead # l
    BY <1>1, <2>1, <2>2
  <2> QED
    BY <1>5, <1>6, <2>1, <2>2, <2>3
<1>11. VersionIdentifiesStatus'
  <2> SUFFICES ASSUME NEW p \in pages
               PROVE  /\ p.version <= version'[p.lead]
                      /\ p.version = version'[p.lead] => p.lifecycle = lifecycle'[p.lead]
    BY DEF Serves, Finish, VersionIdentifiesStatus
  <2>1. /\ p.lead \in Lead /\ p.version \in Nat /\ p.version <= version[p.lead]
        /\ p.version = version[p.lead] => p.lifecycle = lifecycle[p.lead]
    <3>1. p \in Page
      BY DEF IInv, TypeOK
    <3>2. p.lead \in Lead /\ p.version \in Nat
      BY <3>1, MaxVersionIsNat DEF Page, Version
    <3> QED
      BY <3>2 DEF IInv, VersionIdentifiesStatus
  <2>2. version'[p.lead] = version[p.lead] => lifecycle'[p.lead] = lifecycle[p.lead]
    <3>1. CASE p.lead = l
      <4>1. BumpVersion(l) => version'[l] = version[l] + 1
        BY DEF BumpVersion, IInv, TypeOK, RowTypeOK
      <4> QED
        BY <1>4, <3>1, <4>1 DEF Serves, VersionMoves
    <3> QED
      BY <1>6, <2>1, <3>1
  <2> QED
    BY <1>4, <2>1, <2>2
<1> QED
  BY <1>7, <1>8, <1>9, <1>10, <1>11
  DEF IInv, LeadSound, CyclesSound, AttemptsSound, AppointmentsSound, Parked, NextIsSoonest,
      CurrentIsTheActiveCycle, StoppedIsParked, NextFollowIsSoonest, StreakIsExact

-----------------------------------------------------------------------------
(* Each service is one: it writes its lead only, and leaves it sound.      *)

(* Ownership moved: only the version shows.                                *)
LEMMA ReassignServes ==
    ASSUME IInv, NEW w \in Worker, Reassign(w), NEW l \in Lead, l = txn[w].lead
    PROVE  Serves(w, l) /\ LeadSound(l)'
<1>1. UNCHANGED <<statusVars, cycleVars, attemptVars, appointmentVars, noteVars>>
  BY DEF Reassign, workVars
<1> QED
  BY <1>1, Untouched DEF Reassign, Serves, VersionMoves, LeadSound

(* Fail: nothing is written.                                               *)
LEMMA FailServes ==
    ASSUME IInv, NEW w \in Worker, Fail(w), NEW l \in Lead, l = txn[w].lead
    PROVE  Serves(w, l) /\ LeadSound(l)'
<1>1. UNCHANGED <<statusVars, cycleVars, attemptVars, appointmentVars, noteVars>>
  BY DEF Fail, workVars
<1>2. VersionMoves(l)
  BY <1>1 DEF Fail, VersionMoves, statusVars
<1> QED
  BY <1>1, <1>2, Untouched DEF Fail, Serves, LeadSound

(* The transaction sees the lead as it is.                                 *)
LEMMA SeenIsTrue ==
    ASSUME IInv, NEW w \in Worker, txn[w].op # "idle", NEW l \in Lead, l = txn[w].lead
    PROVE  txn[w].seen.lifecycle = lifecycle[l] /\ txn[w].seen.streak = streak[l]
<1>1. txn[w] # Idle
  BY IdleIsACall
<1>2. txn[w].seen = [lifecycle |-> lifecycle[l], streak |-> streak[l]]
  BY <1>1 DEF IInv, SeenIsCurrent
<1> QED
  BY <1>2

(* open_cycle, or the ownership step alone when the lead is STOPPED.       *)
LEMMA OrderServes ==
    ASSUME IInv, NEW w \in Worker, Order(w), NEW l \in Lead, l = txn[w].lead
    PROVE  Serves(w, l) /\ LeadSound(l)'
<1>1. /\ Finish(w) /\ (BumpVersion(l) \/ UNCHANGED version)
      /\ UNCHANGED statusVars /\ UNCHANGED attemptVars
      /\ UNCHANGED appointmentVars /\ UNCHANGED noteVars
  BY DEF Order
<1>2. VersionMoves(l)
  BY <1>1 DEF VersionMoves, statusVars
<1>3. LeadSound(l) /\ txn[w].seen.lifecycle = lifecycle[l]
  BY EachLeadIsSound, SeenIsTrue DEF Order, Locked
<1>4. CASE txn[w].seen.lifecycle = "STOPPED"
  <2>1. UNCHANGED cycleVars /\ UNCHANGED <<statusVars, cycleVars>>
    BY <1>1, <1>4 DEF Order
  <2> QED
    BY <1>1, <1>2, <2>1, Untouched DEF Serves, LeadSound
<1>5. CASE txn[w].seen.lifecycle # "STOPPED"
  <2> DEFINE e == Append(EndCycles(cycles[l], FirstOf(ActiveCycles(cycles[l])), "NEW_ORDER"), Opened)
  <2>1. /\ cycles' = [cycles EXCEPT ![l] = e]
        /\ current' = [current EXCEPT ![l] = Len(cycles[l]) + 1]
    BY <1>5 DEF Order, Opened
  <2> HIDE DEF e
  <2>2. cycles'[l] = e /\ current'[l] = Len(cycles[l]) + 1
    BY <2>1 DEF IInv, TypeOK
  <2>3. /\ e \in Seq(Cycle) /\ Len(cycles[l]) + 1 \in Nat
        /\ CyclesAgree(e, Len(cycles[l]) + 1) /\ Keeps(cycles[l], e)
    BY <1>3, OpeningAgrees DEF LeadSound, CyclesSound, e
  <2>4. WritesCycles(l)
    BY <2>1, <2>2, <2>3 DEF WritesCycles
  <2>5. CyclesSound(l)'
    BY <2>2, <2>3 DEF CyclesSound, CyclesAgree
  <2>6. Parked(l)'
    BY <1>1, <1>3, <1>5 DEF LeadSound, Parked, statusVars
  <2> QED
    BY <1>1, <1>2, <2>4, <2>5, <2>6, Untouched DEF Serves, LeadSound
<1> QED
  BY <1>4, <1>5

(* end_cycle.                                                              *)
LEMMA CloseCycleServes ==
    ASSUME IInv, NEW w \in Worker, CloseCycle(w), NEW l \in Lead, l = txn[w].lead
    PROVE  Serves(w, l) /\ LeadSound(l)'
<1> DEFINE c == txn[w].ref
           e == EndCycles(cycles[l], {c}, "MANUAL_CLOSE")
<1>1. /\ Finish(w) /\ UNCHANGED version
      /\ UNCHANGED statusVars /\ UNCHANGED attemptVars
      /\ UNCHANGED appointmentVars /\ UNCHANGED noteVars
  BY DEF CloseCycle
<1>2. VersionMoves(l)
  BY <1>1 DEF VersionMoves, statusVars
<1>3. /\ cycles[l][c].status = "ACTIVE"
      /\ cycles' = [cycles EXCEPT ![l] = e]
      /\ current' = [current EXCEPT ![l] = IF current[l] = c THEN NoCycle ELSE current[l]]
  BY DEF CloseCycle
<1>4. c \in DOMAIN cycles[l]
  BY DEF CloseCycle, Locked, IInv, CallsAreSound, CallIsSound
<1> HIDE DEF c, e
<1>5. LeadSound(l)
  BY EachLeadIsSound
<1>6. /\ current[l] = c /\ e \in Seq(Cycle)
      /\ CyclesAgree(e, NoCycle) /\ Keeps(cycles[l], e)
  <2>1. /\ cycles[l] \in Seq(Cycle) /\ current[l] \in Nat
        /\ CyclesAgree(cycles[l], current[l])
    BY <1>5 DEF LeadSound, CyclesSound
  <2>2. e = EndCycles(cycles[l], {c}, "MANUAL_CLOSE")
    BY DEF e
  <2> QED
    BY <1>3, <1>4, <2>1, <2>2, ClosingAgrees
<1>7. cycles'[l] = e /\ current'[l] = NoCycle
  BY <1>3, <1>6 DEF IInv, TypeOK
<1>8. WritesCycles(l)
  BY <1>3, <1>6, <1>7 DEF WritesCycles
<1>9. CyclesSound(l)'
  BY <1>6, <1>7 DEF CyclesSound, CyclesAgree, NoCycle
<1>10. Parked(l)'
  <2>1. ActiveCycles(cycles'[l]) = {}
    BY <1>6, <1>7 DEF CyclesAgree, ActiveCycles, NoCycle
  <2> QED
    BY <1>1, <1>5, <1>7, <2>1 DEF LeadSound, Parked, statusVars, ActiveCycles
<1> QED
  BY <1>1, <1>2, <1>8, <1>9, <1>10, Untouched DEF Serves, LeadSound

(* stop_lead's writes.                                                     *)
LEMMA StopWritesServe ==
    ASSUME IInv, NEW l \in Lead, NEW r \in StopReason, StopWrites(l, r)
    PROVE  /\ BumpVersion(l) /\ WritesStatus(l) /\ WritesCycles(l)
           /\ StatusSound(l)' /\ CyclesSound(l)' /\ Parked(l)'
           /\ lifecycle'[l] = "STOPPED"
<1> DEFINE e == EndCycles(cycles[l], ActiveCycles(cycles[l]), "STOPPED")
<1>1. /\ cycles' = [cycles EXCEPT ![l] = e]
      /\ current' = [current EXCEPT ![l] = NoCycle]
      /\ lifecycle' = [lifecycle EXCEPT ![l] = "STOPPED"]
      /\ stopReason' = [stopReason EXCEPT ![l] = r]
      /\ BumpVersion(l)
  BY DEF StopWrites
<1>2. /\ e \in Seq(Cycle) /\ ActiveCycles(e) = {}
      /\ CyclesAgree(e, NoCycle) /\ Keeps(cycles[l], e)
  BY EachLeadIsSound, StoppingAgrees DEF LeadSound, CyclesSound
<1> HIDE DEF e
<1>3. cycles'[l] = e /\ current'[l] = NoCycle
  BY <1>1 DEF IInv, TypeOK
<1>4. lifecycle'[l] = "STOPPED" /\ stopReason'[l] = r /\ r # ""
  BY <1>1 DEF IInv, TypeOK, StopReason
<1>5. WritesStatus(l) /\ StatusSound(l)'
  BY <1>1, <1>4 DEF WritesStatus, StatusSound, Status
<1>6. WritesCycles(l)
  BY <1>1, <1>2, <1>3 DEF WritesCycles
<1>7. CyclesSound(l)'
  BY <1>2, <1>3 DEF CyclesSound, CyclesAgree, NoCycle
<1>8. ActiveCycles(cycles[l])' = {}
  BY <1>2, <1>3 DEF ActiveCycles
<1>9. Parked(l)'
  BY <1>3, <1>4, <1>8 DEF Parked
<1> QED
  BY <1>1, <1>4, <1>5, <1>6, <1>7, <1>9

(* stop_lead.                                                              *)
LEMMA StopServes ==
    ASSUME IInv, NEW w \in Worker, Stop(w), NEW l \in Lead, l = txn[w].lead
    PROVE  Serves(w, l) /\ LeadSound(l)'
<1>1. /\ Finish(w) /\ UNCHANGED attemptVars
      /\ UNCHANGED appointmentVars /\ UNCHANGED noteVars
  BY DEF Stop
<1>2. txn[w].choice \in StopReason /\ StopWrites(l, txn[w].choice)
  BY DEF Stop, Locked, IInv, CallsAreSound, CallIsSound
<1>3. /\ BumpVersion(l) /\ WritesStatus(l) /\ WritesCycles(l)
      /\ StatusSound(l)' /\ CyclesSound(l)' /\ Parked(l)'
  BY <1>2, StopWritesServe
<1> QED
  BY <1>1, <1>3, Untouched DEF Serves, LeadSound, VersionMoves

(* reactivate_lead.                                                        *)
LEMMA ReactivateServes ==
    ASSUME IInv, NEW w \in Worker, Reactivate(w), NEW l \in Lead, l = txn[w].lead
    PROVE  Serves(w, l) /\ LeadSound(l)'
<1>1. /\ Finish(w) /\ BumpVersion(l)
      /\ UNCHANGED cycleVars /\ UNCHANGED attemptVars
      /\ UNCHANGED appointmentVars /\ UNCHANGED noteVars
  BY DEF Reactivate
<1>2. /\ lifecycle' = [lifecycle EXCEPT ![l] = "FOLLOWING"]
      /\ stopReason' = [stopReason EXCEPT ![l] = ""]
  BY DEF Reactivate
<1>3. lifecycle'[l] = "FOLLOWING" /\ stopReason'[l] = ""
  BY <1>2 DEF IInv, TypeOK
<1>4. WritesStatus(l) /\ StatusSound(l)' /\ Parked(l)'
  BY <1>2, <1>3 DEF WritesStatus, StatusSound, Parked, Status
<1> QED
  BY <1>1, <1>4, Untouched DEF Serves, LeadSound, VersionMoves

(* set_lifecycle.                                                          *)
LEMMA SetStatusServes ==
    ASSUME IInv, NEW w \in Worker, SetStatus(w), NEW l \in Lead, l = txn[w].lead
    PROVE  Serves(w, l) /\ LeadSound(l)'
<1>1. /\ Finish(w) /\ UNCHANGED stopReason
      /\ UNCHANGED cycleVars /\ UNCHANGED attemptVars
      /\ UNCHANGED appointmentVars /\ UNCHANGED noteVars
  BY DEF SetStatus
<1>2. LeadSound(l) /\ txn[w].seen.lifecycle = lifecycle[l]
  BY EachLeadIsSound, SeenIsTrue DEF SetStatus, Locked
<1>3. lifecycle[l] # "STOPPED" /\ txn[w].choice # "STOPPED" /\ txn[w].choice \in Status
  BY <1>2 DEF SetStatus, Locked, IInv, CallsAreSound, CallIsSound
<1>4. CASE txn[w].choice = txn[w].seen.lifecycle
  <2>1. UNCHANGED version /\ UNCHANGED statusVars /\ UNCHANGED <<statusVars, cycleVars>>
    BY <1>1, <1>4 DEF SetStatus, statusVars
  <2>2. VersionMoves(l)
    BY <2>1 DEF VersionMoves, statusVars
  <2> QED
    BY <1>1, <2>1, <2>2, Untouched DEF Serves, LeadSound
<1>5. CASE txn[w].choice # txn[w].seen.lifecycle
  <2>1. lifecycle' = [lifecycle EXCEPT ![l] = txn[w].choice] /\ BumpVersion(l)
    BY <1>5 DEF SetStatus
  <2>2. lifecycle'[l] = txn[w].choice /\ stopReason'[l] = stopReason[l]
    BY <1>1, <2>1 DEF IInv, TypeOK
  <2>3. WritesStatus(l)
    BY <1>1, <2>1, <2>2 DEF WritesStatus, IInv, TypeOK
  <2>4. StatusSound(l)' /\ Parked(l)'
    BY <1>2, <1>3, <2>2 DEF LeadSound, StatusSound, Parked
  <2> QED
    BY <1>1, <2>1, <2>3, <2>4, Untouched DEF Serves, LeadSound, VersionMoves
<1> QED
  BY <1>4, <1>5

(* log_contact_attempt, with or without the stop that follows from it.     *)
LEMMA AttemptServes ==
    ASSUME IInv, NEW w \in Worker, Attempt(w), NEW l \in Lead, l = txn[w].lead
    PROVE  Serves(w, l) /\ LeadSound(l)'
<1> DEFINE n == NextStreak(txn[w].seen.streak, txn[w].choice)
           r == txn[w].choice
<1>1. /\ Finish(w) /\ UNCHANGED appointmentVars /\ UNCHANGED noteVars
      /\ attempts' = [attempts EXCEPT ![l] = Append(attempts[l], r)]
      /\ streak' = [streak EXCEPT ![l] = n]
  BY DEF Attempt
<1>2. LeadSound(l) /\ n = NextStreak(streak[l], r) /\ r \in Result
  BY EachLeadIsSound, SeenIsTrue DEF Attempt, Locked, IInv, CallsAreSound, CallIsSound
<1>3. /\ attempts[l] \in Seq(Result) /\ streak[l] \in Nat
      /\ CountsTrailing(attempts[l], streak[l])
  BY <1>2 DEF LeadSound, AttemptsSound
<1> HIDE DEF n, r
<1>4. CountsTrailing(Append(attempts[l], r), n) /\ n \in Nat
  BY <1>2, <1>3, CountGoesOn
<1>5. Append(attempts[l], r) \in Seq(Result)
  BY <1>2, <1>3, Appending
<1>6. attempts'[l] = Append(attempts[l], r) /\ streak'[l] = n
  BY <1>1 DEF IInv, TypeOK
<1>7. WritesAttempts(l)
  BY <1>1, <1>6 DEF WritesAttempts
<1>8. AttemptsSound(l)'
  BY <1>4, <1>5, <1>6 DEF AttemptsSound, CountsTrailing
<1>9. /\ VersionMoves(l) /\ WritesStatus(l) /\ WritesCycles(l)
      /\ StatusSound(l)' /\ CyclesSound(l)' /\ Parked(l)'
  <2>1. CASE LimitReached(n)
    <3>1. StopWrites(l, "CONTACT_LIMIT_REACHED") /\ "CONTACT_LIMIT_REACHED" \in StopReason
      BY <2>1 DEF Attempt, n, StopReason
    <3> QED
      BY <3>1, StopWritesServe DEF VersionMoves
  <2>2. CASE ~ LimitReached(n)
    <3>1. /\ UNCHANGED version /\ UNCHANGED statusVars /\ UNCHANGED cycleVars
          /\ UNCHANGED <<statusVars, cycleVars>>
      BY <2>2 DEF Attempt, n
    <3>2. VersionMoves(l)
      BY <3>1 DEF VersionMoves, statusVars
    <3> QED
      BY <3>1, <3>2, Untouched
  <2> QED
    BY <2>1, <2>2
<1> QED
  BY <1>1, <1>7, <1>8, <1>9, Untouched DEF Serves, LeadSound

(* What _refresh_next_follow_at stores is sound.                           *)
LEMMA RefreshServes ==
    ASSUME IInv, NEW l \in Lead, NEW s \in Seq(Appointment),
           appointments' = [appointments EXCEPT ![l] = s],
           nextFollow' = [nextFollow EXCEPT ![l] = Soonest(s)],
           \A i \in DOMAIN appointments[l] :
               /\ i \in DOMAIN s
               /\ appointments[l][i].status # "SCHEDULED" => s[i] = appointments[l][i]
    PROVE  WritesAppointments(l) /\ AppointmentsSound(l)'
<1>1. appointments'[l] = s /\ nextFollow'[l] = Soonest(s)
  BY DEF IInv, TypeOK
<1>2. WritesAppointments(l)
  BY <1>1 DEF WritesAppointments
<1>3. Soonest(s) \in Day \cup {NoTime} /\ NextIsSoonest(s, Soonest(s))
  BY SoonestIsSoonest DEF NextIsSoonest
<1>4. AppointmentsSound(l)'
  BY <1>1, <1>3 DEF AppointmentsSound, NextIsSoonest, Scheduled
<1> QED
  BY <1>2, <1>4

(* set_appointment.                                                        *)
LEMMA AppointServes ==
    ASSUME IInv, NEW w \in Worker, Appoint(w), NEW l \in Lead, l = txn[w].lead
    PROVE  Serves(w, l) /\ LeadSound(l)'
<1> DEFINE a == [at |-> txn[w].ref, status |-> "SCHEDULED"]
           s == Append(appointments[l], a)
<1>1. /\ Finish(w) /\ UNCHANGED version /\ UNCHANGED statusVars /\ UNCHANGED cycleVars
      /\ UNCHANGED attemptVars /\ UNCHANGED noteVars /\ UNCHANGED <<statusVars, cycleVars>>
  BY DEF Appoint
<1>2. /\ appointments' = [appointments EXCEPT ![l] = s]
      /\ nextFollow' = [nextFollow EXCEPT ![l] = Soonest(s)]
  BY DEF Appoint
<1>3. VersionMoves(l)
  BY <1>1 DEF VersionMoves, statusVars
<1>4. a \in Appointment
  <2>1. txn[w].ref \in Day
    BY DEF Appoint, Locked, IInv, CallsAreSound, CallIsSound
  <2> QED
    BY <2>1 DEF Appointment
<1>5. appointments[l] \in Seq(Appointment)
  BY DEF IInv, TypeOK
<1> HIDE DEF a
<1>6. s \in Seq(Appointment) /\ \A i \in DOMAIN appointments[l] :
                                    i \in DOMAIN s /\ s[i] = appointments[l][i]
  BY <1>4, <1>5, Appending
<1> HIDE DEF s
<1>7. WritesAppointments(l) /\ AppointmentsSound(l)'
  BY <1>2, <1>6, RefreshServes
<1> QED
  BY <1>1, <1>3, <1>7, Untouched DEF Serves, LeadSound

(* _close_appointment.                                                     *)
LEMMA CloseAppointmentServes ==
    ASSUME IInv, NEW w \in Worker, CloseAppointment(w), NEW l \in Lead, l = txn[w].lead
    PROVE  Serves(w, l) /\ LeadSound(l)'
<1> DEFINE i == txn[w].ref
           x == txn[w].choice
           a == appointments[l]
           s == [a EXCEPT ![i].status = x]
<1>1. /\ Finish(w) /\ UNCHANGED version /\ UNCHANGED statusVars /\ UNCHANGED cycleVars
      /\ UNCHANGED attemptVars /\ UNCHANGED noteVars /\ UNCHANGED <<statusVars, cycleVars>>
  BY DEF CloseAppointment
<1>2. /\ a[i].status = "SCHEDULED"
      /\ appointments' = [appointments EXCEPT ![l] = s]
      /\ nextFollow' = [nextFollow EXCEPT ![l] = Soonest(s)]
  BY DEF CloseAppointment
<1>3. VersionMoves(l)
  BY <1>1 DEF VersionMoves, statusVars
<1>4. i \in DOMAIN a /\ x \in {"DONE", "MISSED", "CANCELLED"}
  BY DEF CloseAppointment, Locked, IInv, CallsAreSound, CallIsSound
<1>5. a \in Seq(Appointment)
  BY DEF IInv, TypeOK
<1> HIDE DEF i, x, a
<1>6. \A j \in DOMAIN a : a[j] \in Appointment
  BY <1>5
<1>7. [a[i] EXCEPT !.status = x] \in Appointment
  BY <1>4, <1>6 DEF Appointment
<1>8. s \in [DOMAIN a -> Appointment] /\ \A j \in DOMAIN a : j # i => s[j] = a[j]
  BY <1>4, <1>5, <1>6, <1>7
<1> HIDE DEF s
<1>9. s \in Seq(Appointment) /\ DOMAIN s = DOMAIN a
  BY <1>5, <1>8, SameLength
<1>10. WritesAppointments(l) /\ AppointmentsSound(l)'
  BY <1>2, <1>8, <1>9, RefreshServes DEF a
<1> QED
  BY <1>1, <1>3, <1>10, Untouched DEF Serves, LeadSound

(* add_note.                                                               *)
LEMMA AddNoteServes ==
    ASSUME IInv, NEW w \in Worker, AddNote(w), NEW l \in Lead, l = txn[w].lead
    PROVE  Serves(w, l) /\ LeadSound(l)'
<1> DEFINE b == txn[w].choice
<1>1. /\ Finish(w) /\ UNCHANGED version /\ UNCHANGED statusVars /\ UNCHANGED cycleVars
      /\ UNCHANGED attemptVars /\ UNCHANGED appointmentVars
      /\ UNCHANGED <<statusVars, cycleVars>>
  BY DEF AddNote
<1>2. /\ notes' = [notes EXCEPT ![l] = Append(notes[l], b)]
      /\ latestNote' = [latestNote EXCEPT ![l] = b]
  BY DEF AddNote
<1>3. b \in Note /\ notes[l] \in Seq(Note)
  BY DEF AddNote, Locked, IInv, TypeOK, CallsAreSound, CallIsSound
<1> HIDE DEF b
<1>4. Append(notes[l], b) \in Seq(Note)
  BY <1>3, Appending
<1>5. notes'[l] = Append(notes[l], b) /\ latestNote'[l] = b
  BY <1>2 DEF IInv, TypeOK
<1>6. WritesNotes(l) /\ NotesSound(l)'
  BY <1>2, <1>3, <1>4, <1>5 DEF WritesNotes, NotesSound
<1>7. VersionMoves(l)
  BY <1>1 DEF VersionMoves, statusVars
<1> QED
  BY <1>1, <1>6, <1>7, Untouched DEF Serves, LeadSound

(* Every service.                                                          *)
LEMMA StepServes ==
    ASSUME IInv, NEW w \in Worker, Step(w), NEW l \in Lead, l = txn[w].lead
    PROVE  txn[w].op # "idle" /\ Serves(w, l) /\ LeadSound(l)'
<1>1. txn[w].op # "idle"
  BY DEF Step, Locked, Reassign, Order, CloseCycle, Stop, Reactivate, SetStatus, Attempt,
         Appoint, CloseAppointment, AddNote, Fail
<1>2. Serves(w, l) /\ LeadSound(l)'
  BY ReassignServes, OrderServes, CloseCycleServes, StopServes, ReactivateServes,
     SetStatusServes, AttemptServes, AppointServes, CloseAppointmentServes, AddNoteServes,
     FailServes DEF Step
<1> QED
  BY <1>1, <1>2

-----------------------------------------------------------------------------
(* Requests and pages.                                                     *)

(* The pages of a lead carry versions.                                     *)
LEMMA FormsAreVersions ==
    ASSUME IInv, NEW l \in Lead PROVE PageVersions(l) \subseteq Version \cup {NoVersion}
<1>1. \A p \in pages : p.version \in Version
  BY DEF IInv, TypeOK, Page
<1> QED
  BY <1>1 DEF PageVersions

(* Every request is a sound call.                                          *)
LEMMA RequestsAreSound ==
    ASSUME IInv, NEW w \in Worker, NEW l \in Lead, Request(w, l)
    PROVE  \E t \in Txn : t.op # "idle" /\ CallIsSound(t) /\ Begin(w, t)
<1>0. NotSeen \in Seen
  BY DEF NotSeen, Seen, Status
<1>1. /\ "" \in Choice /\ Result \subseteq Choice /\ Note \subseteq Choice
      /\ StopReason \subseteq Choice /\ Status \subseteq Choice
      /\ {"DONE", "MISSED", "CANCELLED"} \subseteq Choice
      /\ NoVersion \in Version \cup {NoVersion} /\ 0 \in Nat /\ Day \subseteq Nat
      /\ {"order", "close_cycle", "attempt", "appoint", "close_appointment", "note", "stop",
           "reactivate", "set_status", "reassign"} \subseteq Op
  BY DaysArePositive DEF Choice, Op
<1>2. CASE BeginOrder(w, l)
  <2>0. /\ "order" \in Op /\ NoVersion \in Version \cup {NoVersion}
        /\ "" \in Choice /\ 0 \in Nat
    BY <1>1
  <2> DEFINE t == Call("order", l, NoVersion, "", 0)
  <2>1. t \in Txn /\ t.op = "order"
    BY <1>0, <2>0 DEF Call, Txn
  <2>2. Begin(w, t)
    BY <1>2 DEF BeginOrder
  <2> HIDE DEF t
  <2> QED
    BY <2>1, <2>2 DEF CallIsSound
<1>3. CASE \E c \in 1..MaxRows : BeginCloseCycle(w, l, c)
  <2>1. PICK c \in 1..MaxRows : BeginCloseCycle(w, l, c)
    BY <1>3
  <2>0. /\ "close_cycle" \in Op /\ NoVersion \in Version \cup {NoVersion}
        /\ "" \in Choice /\ c \in Nat
    <3>1. \A k \in 1..MaxRows : k \in Nat
      BY WorkBoundsAreNat
    <3> QED
      BY <1>1, <3>1
  <2> DEFINE t == Call("close_cycle", l, NoVersion, "", c)
  <2>2. t \in Txn /\ t.op = "close_cycle" /\ t.lead = l /\ t.ref = c
    BY <1>0, <2>0 DEF Call, Txn
  <2>3. Begin(w, t) /\ c \in DOMAIN cycles[l]
    BY <2>1 DEF BeginCloseCycle
  <2> HIDE DEF t
  <2> QED
    BY <2>2, <2>3 DEF CallIsSound
<1>4. CASE \E r \in Result : BeginAttempt(w, l, r)
  <2>1. PICK r \in Result : BeginAttempt(w, l, r)
    BY <1>4
  <2>0. /\ "attempt" \in Op /\ NoVersion \in Version \cup {NoVersion}
        /\ r \in Choice /\ 0 \in Nat
    BY <1>1
  <2> DEFINE t == Call("attempt", l, NoVersion, r, 0)
  <2>2. t \in Txn /\ t.op = "attempt" /\ t.choice = r
    BY <1>0, <2>0 DEF Call, Txn
  <2>3. Begin(w, t)
    BY <2>1 DEF BeginAttempt
  <2> HIDE DEF t
  <2> QED
    BY <2>2, <2>3 DEF CallIsSound
<1>5. CASE \E at \in Day : BeginAppoint(w, l, at)
  <2>1. PICK at \in Day : BeginAppoint(w, l, at)
    BY <1>5
  <2>0. /\ "appoint" \in Op /\ NoVersion \in Version \cup {NoVersion}
        /\ "" \in Choice /\ at \in Nat
    BY <1>1
  <2> DEFINE t == Call("appoint", l, NoVersion, "", at)
  <2>2. t \in Txn /\ t.op = "appoint" /\ t.ref = at
    BY <1>0, <2>0 DEF Call, Txn
  <2>3. Begin(w, t)
    BY <2>1 DEF BeginAppoint
  <2> HIDE DEF t
  <2> QED
    BY <2>2, <2>3 DEF CallIsSound
<1>6. CASE \E i \in 1..MaxRows, s \in {"DONE", "MISSED", "CANCELLED"} :
               BeginCloseAppointment(w, l, i, s)
  <2>1. PICK i \in 1..MaxRows, s \in {"DONE", "MISSED", "CANCELLED"} :
            BeginCloseAppointment(w, l, i, s)
    BY <1>6
  <2>0. /\ "close_appointment" \in Op /\ NoVersion \in Version \cup {NoVersion}
        /\ s \in Choice /\ i \in Nat
    <3>1. \A k \in 1..MaxRows : k \in Nat
      BY WorkBoundsAreNat
    <3> QED
      BY <1>1, <3>1
  <2> DEFINE t == Call("close_appointment", l, NoVersion, s, i)
  <2>2. /\ t \in Txn /\ t.op = "close_appointment" /\ t.lead = l
        /\ t.choice = s /\ t.ref = i
    BY <1>0, <2>0 DEF Call, Txn
  <2>3. Begin(w, t) /\ i \in DOMAIN appointments[l]
    BY <2>1 DEF BeginCloseAppointment
  <2> HIDE DEF t
  <2> QED
    BY <2>2, <2>3 DEF CallIsSound
<1>7. CASE \E b \in Note : BeginNote(w, l, b)
  <2>1. PICK b \in Note : BeginNote(w, l, b)
    BY <1>7
  <2>0. /\ "note" \in Op /\ NoVersion \in Version \cup {NoVersion}
        /\ b \in Choice /\ 0 \in Nat
    BY <1>1
  <2> DEFINE t == Call("note", l, NoVersion, b, 0)
  <2>2. t \in Txn /\ t.op = "note" /\ t.choice = b
    BY <1>0, <2>0 DEF Call, Txn
  <2>3. Begin(w, t)
    BY <2>1 DEF BeginNote
  <2> HIDE DEF t
  <2> QED
    BY <2>2, <2>3 DEF CallIsSound
<1>8. CASE \E v \in PageVersions(l) : BeginReassign(w, l, v) \/ BeginReactivate(w, l, v)
  <2>1. PICK v \in PageVersions(l) : BeginReassign(w, l, v) \/ BeginReactivate(w, l, v)
    BY <1>8
  <2>2. PICK op \in {"reassign", "reactivate"} : Begin(w, Call(op, l, v, "", 0))
    BY <2>1 DEF BeginReassign, BeginReactivate
  <2>0. /\ op \in Op /\ v \in Version \cup {NoVersion}
        /\ "" \in Choice /\ 0 \in Nat
    BY <1>1, FormsAreVersions
  <2> DEFINE t == Call(op, l, v, "", 0)
  <2>3. t \in Txn /\ t.op = op
    BY <1>0, <2>0 DEF Call, Txn
  <2>4. Begin(w, t)
    BY <2>2
  <2> HIDE DEF t
  <2> QED
    BY <2>3, <2>4 DEF CallIsSound
<1>9. CASE \E v \in PageVersions(l), r \in StopReason : BeginStop(w, l, v, r)
  <2>1. PICK v \in PageVersions(l), r \in StopReason : BeginStop(w, l, v, r)
    BY <1>9
  <2>0. /\ "stop" \in Op /\ v \in Version \cup {NoVersion}
        /\ r \in Choice /\ 0 \in Nat
    BY <1>1, FormsAreVersions
  <2> DEFINE t == Call("stop", l, v, r, 0)
  <2>2. t \in Txn /\ t.op = "stop" /\ t.choice = r
    BY <1>0, <2>0 DEF Call, Txn
  <2>3. Begin(w, t)
    BY <2>1 DEF BeginStop
  <2> HIDE DEF t
  <2> QED
    BY <2>2, <2>3 DEF CallIsSound
<1>10. CASE \E v \in PageVersions(l), s \in Status : BeginSetStatus(w, l, v, s)
  <2>1. PICK v \in PageVersions(l), s \in Status : BeginSetStatus(w, l, v, s)
    BY <1>10
  <2>0. /\ "set_status" \in Op /\ v \in Version \cup {NoVersion}
        /\ s \in Choice /\ 0 \in Nat
    BY <1>1, FormsAreVersions
  <2> DEFINE t == Call("set_status", l, v, s, 0)
  <2>2. t \in Txn /\ t.op = "set_status" /\ t.choice = s
    BY <1>0, <2>0 DEF Call, Txn
  <2>3. Begin(w, t)
    BY <2>1 DEF BeginSetStatus
  <2> HIDE DEF t
  <2> QED
    BY <2>2, <2>3 DEF CallIsSound
<1> QED
  BY <1>2, <1>3, <1>4, <1>5, <1>6, <1>7, <1>8, <1>9, <1>10 DEF Request

(* A step that leaves the rows alone.                                      *)
LEMMA RowsUnchanged ==
    ASSUME IInv, UNCHANGED <<lifecycle, stopReason, cycles, current, attempts, streak,
                             appointments, nextFollow, notes, latestNote>>
    PROVE  /\ CurrentIsTheActiveCycle' /\ StoppedIsParked'
           /\ NextFollowIsSoonest' /\ StreakIsExact'
<1>1. CurrentIsTheActiveCycle'
  BY DEF IInv, CurrentIsTheActiveCycle, CyclesAgree
<1>2. StoppedIsParked'
  BY DEF IInv, StoppedIsParked, ActiveCycles
<1>3. NextFollowIsSoonest'
  BY DEF IInv, NextFollowIsSoonest, Scheduled
<1>4. StreakIsExact'
  BY DEF IInv, StreakIsExact, CountsTrailing
<1> QED
  BY <1>1, <1>2, <1>3, <1>4

(* A call that begins takes a free lock and sees the lead as it is.        *)
LEMMA BeginPreserves ==
    ASSUME IInv, NEW w \in Worker, NEW t \in Txn, t.op # "idle", CallIsSound(t), Begin(w, t)
    PROVE  IInv'
<1> DEFINE l == t.lead
           seen == [lifecycle |-> lifecycle[l], streak |-> streak[l]]
           u == [t EXCEPT !.seen = seen]
<1>1. /\ txn[w] = Idle /\ lock[l] = Free /\ lock' = [lock EXCEPT ![l] = w]
      /\ txn' = [txn EXCEPT ![w] = u]
      /\ UNCHANGED version /\ UNCHANGED workVars /\ UNCHANGED pages
  BY DEF Begin, Acquire, Unlocked
<1>2. l \in Lead /\ seen \in Seen
  BY DEF IInv, TypeOK, Txn, Seen
<1>3. /\ u \in Txn /\ u.op = t.op /\ u.lead = l /\ u.choice = t.choice /\ u.ref = t.ref
      /\ u.seen = seen
  <2> HIDE DEF seen
  <2> QED
    BY <1>2 DEF Txn
<1>4. UNCHANGED <<lifecycle, stopReason, cycles, current, attempts, streak,
                  appointments, nextFollow, notes, latestNote>>
  BY <1>1 DEF workVars, statusVars, cycleVars, attemptVars, appointmentVars, noteVars
<1> HIDE DEF u, seen
<1>5. TypeOK'
  <2>1. txn' \in [Worker -> Txn] /\ lock' \in [Lead -> Worker \cup {Free}]
    BY <1>1, <1>2, <1>3 DEF IInv, TypeOK, RowTypeOK
  <2> QED
    BY <1>1, <1>4, <2>1 DEF IInv, TypeOK, RowTypeOK
<1>6. \A v \in Worker : txn'[v] = IF v = w THEN u ELSE txn[v]
  BY <1>1 DEF IInv, TypeOK
<1>7. \A k \in Lead : lock'[k] = IF k = l THEN w ELSE lock[k]
  BY <1>1 DEF IInv, TypeOK, RowTypeOK
<1>8. CallsAreSound'
  <2> SUFFICES ASSUME NEW v \in Worker, NEW x, x = txn'[v] PROVE CallIsSound(x)'
    BY DEF CallsAreSound
  <2>1. CASE v = w
    <3>1. x = u
      BY <1>6, <2>1
    <3> QED
      BY <1>3, <1>4, <3>1 DEF CallIsSound
  <2>2. CASE v # w
    <3>1. CallIsSound(x)
      BY <1>6, <2>2 DEF IInv, CallsAreSound
    <3> QED
      BY <1>4, <3>1 DEF CallIsSound
  <2> QED
    BY <2>1, <2>2
<1>9. SeenIsCurrent'
  <2> SUFFICES ASSUME NEW v \in Worker, txn'[v] # Idle
               PROVE  /\ lock'[txn'[v].lead] = v
                      /\ txn'[v].seen = [lifecycle |-> lifecycle'[txn'[v].lead],
                                         streak |-> streak'[txn'[v].lead]]
    BY DEF SeenIsCurrent
  <2>1. CASE v = w
    <3>1. txn'[v] = u
      BY <1>6, <2>1
    <3> QED
      BY <1>2, <1>3, <1>4, <1>7, <2>1, <3>1 DEF seen
  <2>2. CASE v # w
    <3>1. txn'[v] = txn[v] /\ txn[v].lead \in Lead
      BY <1>6, <2>2 DEF IInv, TypeOK, Txn
    <3>2. /\ lock[txn[v].lead] = v
          /\ txn[v].seen = [lifecycle |-> lifecycle[txn[v].lead],
                            streak |-> streak[txn[v].lead]]
      BY <3>1 DEF IInv, SeenIsCurrent
    <3>3. txn[v].lead # l
      BY <1>1, <3>2, FreeIsNoWorker
    <3> QED
      BY <1>4, <1>7, <3>1, <3>2, <3>3
  <2> QED
    BY <2>1, <2>2
<1>10. VersionIdentifiesStatus'
  BY <1>1, <1>4 DEF IInv, VersionIdentifiesStatus
<1> QED
  BY <1>4, <1>5, <1>8, <1>9, <1>10, RowsUnchanged DEF IInv

(* A page that is opened shows the version and the status of the lead, one *)
(* that is closed is gone; nothing else changes.                           *)
LEMMA PagePreserves ==
    ASSUME IInv,
           (\E l \in Lead : RenderPage(l)) \/ (\E p \in pages : ClosePage(p))
    PROVE  IInv'
<1>1. /\ UNCHANGED <<lock, version, txn>>
      /\ UNCHANGED <<lifecycle, stopReason, cycles, current, attempts, streak,
                     appointments, nextFollow, notes, latestNote>>
  BY DEF RenderPage, ClosePage, rowVars, workVars, statusVars, cycleVars, attemptVars,
         appointmentVars, noteVars
<1>2. ASSUME NEW p \in pages'
      PROVE  p \in pages \/ \E l \in Lead : p = [lead |-> l, version |-> version[l],
                                                 lifecycle |-> lifecycle[l]]
  BY DEF RenderPage, ClosePage
<1>3. pages' \subseteq Page
  <2>1. \A l \in Lead : version[l] \in Version /\ lifecycle[l] \in Status
    BY DEF IInv, TypeOK, RowTypeOK
  <2>2. \A l \in Lead : [lead |-> l, version |-> version[l], lifecycle |-> lifecycle[l]] \in Page
    BY <2>1 DEF Page
  <2>3. pages \subseteq Page
    BY DEF IInv, TypeOK
  <2> QED
    BY <1>2, <2>2, <2>3
<1>4. \A l \in Lead : version[l] \in Nat
  <2>1. \A l \in Lead : version[l] \in Version
    BY DEF IInv, TypeOK, RowTypeOK
  <2> QED
    BY <2>1, VersionsAreNat
<1>5. VersionIdentifiesStatus'
  BY <1>1, <1>2, <1>4 DEF IInv, VersionIdentifiesStatus
<1>6. TypeOK'
  BY <1>1, <1>3 DEF IInv, TypeOK, RowTypeOK
<1>7. CallsAreSound'
  BY <1>1 DEF IInv, CallsAreSound, CallIsSound
<1>8. SeenIsCurrent'
  BY <1>1 DEF IInv, SeenIsCurrent
<1> QED
  BY <1>1, <1>5, <1>6, <1>7, <1>8, RowsUnchanged DEF IInv

(* Initially nothing runs and no lead has a row below it.                  *)
LEMMA InitIsSound == Init => IInv
<1> SUFFICES ASSUME Init PROVE IInv
  OBVIOUS
<1>1. TypeOK
  <2>1. RowTypeOK
    BY VersionsAreNat DEF Init, RowInit, RowTypeOK
  <2>2. \A S : <<>> \in Seq(S)
    OBVIOUS
  <2> QED
    BY <2>1, <2>2, IdleIsACall DEF Init, TypeOK, Status, NoCycle, NoTime
<1>2. CallsAreSound
  BY IdleIsACall DEF Init, CallsAreSound
<1>3. \A l \in Lead : /\ DOMAIN cycles[l] = {} /\ DOMAIN appointments[l] = {}
                      /\ Len(attempts[l]) = 0 /\ streak[l] = 0
                      /\ lifecycle[l] = "NEW" /\ stopReason[l] = "" /\ current[l] = 0
                      /\ nextFollow[l] = NoTime
  <2>1. DOMAIN <<>> = {} /\ Len(<<>>) = 0
    OBVIOUS
  <2> QED
    BY <2>1 DEF Init, NoCycle
<1>4. CurrentIsTheActiveCycle
  BY <1>3 DEF CurrentIsTheActiveCycle, CyclesAgree, NoCycle
<1>5. StoppedIsParked
  BY <1>3 DEF StoppedIsParked
<1>6. NextFollowIsSoonest
  BY <1>3 DEF NextFollowIsSoonest, Scheduled
<1>7. StreakIsExact
  <2>1. (0 - 0 + 1)..0 = {} /\ 0 <= 0 /\ ~ (0 < 0)
    OBVIOUS
  <2> QED
    BY <1>3, <2>1 DEF StreakIsExact, CountsTrailing
<1>8. SeenIsCurrent /\ VersionIdentifiesStatus
  BY DEF Init, SeenIsCurrent, VersionIdentifiesStatus
<1> QED
  BY <1>1, <1>2, <1>4, <1>5, <1>6, <1>7, <1>8 DEF IInv

(* So does every step.                                                     *)
LEMMA NextPreserves == IInv /\ [Next]_vars => IInv'
<1> SUFFICES ASSUME IInv, [Next]_vars PROVE IInv'
  OBVIOUS
<1>1. CASE UNCHANGED vars
  <2>1. UNCHANGED <<lock, version, txn, pages>>
    BY <1>1 DEF vars, rowVars
  <2>2. UNCHANGED <<lifecycle, stopReason, cycles, current, attempts, streak,
                    appointments, nextFollow, notes, latestNote>>
    BY <1>1 DEF vars, workVars, statusVars, cycleVars, attemptVars, appointmentVars, noteVars
  <2>3. TypeOK'
    BY <2>1, <2>2 DEF IInv, TypeOK, RowTypeOK
  <2>4. CallsAreSound'
    BY <2>1, <2>2 DEF IInv, CallsAreSound, CallIsSound
  <2>5. SeenIsCurrent' /\ VersionIdentifiesStatus'
    BY <2>1, <2>2 DEF IInv, SeenIsCurrent, VersionIdentifiesStatus
  <2> QED
    BY <2>2, <2>3, <2>4, <2>5, RowsUnchanged DEF IInv
<1>2. ASSUME NEW l \in Lead, RenderPage(l) PROVE IInv'
  BY <1>2, PagePreserves
<1>3. ASSUME NEW p \in pages, ClosePage(p) PROVE IInv'
  BY <1>3, PagePreserves
<1>4. ASSUME NEW w \in Worker, Step(w) PROVE IInv'
  <2> DEFINE l == txn[w].lead
  <2>1. l \in Lead
    BY DEF IInv, TypeOK, Txn
  <2>2. PICK k \in Lead : k = l
    BY <2>1
  <2> QED
    BY <1>4, <2>2, StepServes, ServicePreserves
<1>5. ASSUME NEW w \in Worker, NEW l \in Lead, Request(w, l) PROVE IInv'
  BY <1>5, RequestsAreSound, BeginPreserves
<1> QED
  BY <1>1, <1>2, <1>3, <1>4, <1>5 DEF Next

(* The rows of a lead and what the requests hold of them agree, whatever   *)
(* the services interleave.                                                *)
THEOREM LeadsAreConsistent == Spec => []LeadIsConsistent
<1>1. IInv => LeadIsConsistent
  BY DEF IInv, LeadIsConsistent
<1> QED
  BY <1>1, InitIsSound, NextPreserves, PTL DEF Spec

(* The version of an open page identifies the status it showed, so that a  *)
(* decision taken on an old page is refused.                               *)
THEOREM VersionsIdentifyStatuses == Spec => []VersionIdentifiesStatus
<1>1. IInv => VersionIdentifiesStatus
  BY DEF IInv
<1> QED
  BY <1>1, InitIsSound, NextPreserves, PTL DEF Spec

-----------------------------------------------------------------------------
(* What a step may do.                                                     *)

(* A step is one of a service, or leaves the rows alone.                   *)
LEMMA StepsServeOneLead ==
    ASSUME IInv, [Next]_vars
    PROVE  \/ UNCHANGED <<lifecycle, cycles, current, attempts, appointments>>
           \/ \E w \in Worker, l \in Lead :
                  l = txn[w].lead /\ Step(w) /\ Serves(w, l) /\ LeadSound(l)'
<1>1. CASE UNCHANGED vars
  BY <1>1 DEF vars, workVars, statusVars, cycleVars, attemptVars, appointmentVars
<1>2. CASE (\E l \in Lead : RenderPage(l)) \/ (\E p \in pages : ClosePage(p))
  BY <1>2 DEF RenderPage, ClosePage, workVars, statusVars, cycleVars, attemptVars,
              appointmentVars
<1>3. ASSUME NEW w \in Worker, Step(w)
      PROVE  \E l \in Lead : l = txn[w].lead /\ Serves(w, l) /\ LeadSound(l)'
  <2>1. PICK l \in Lead : l = txn[w].lead
    BY DEF IInv, TypeOK, Txn
  <2> QED
    BY <1>3, <2>1, StepServes
<1>4. ASSUME NEW w \in Worker, NEW l \in Lead, Request(w, l)
      PROVE  UNCHANGED <<lifecycle, cycles, current, attempts, appointments>>
  BY <1>4, RequestsAreSound DEF Begin, workVars, statusVars, cycleVars, attemptVars,
                                appointmentVars
<1> QED
  BY <1>1, <1>2, <1>3, <1>4 DEF Next

(* Ended cycles and closed appointments are never rewritten, and no row    *)
(* disappears.                                                             *)
THEOREM HistoryStays == Spec => HistoryIsFinal
<1> DEFINE Final(l) ==
              /\ \A i \in DOMAIN cycles[l] :
                     /\ i \in DOMAIN cycles'[l]
                     /\ cycles[l][i].status = "ENDED" => cycles'[l][i] = cycles[l][i]
              /\ \A i \in DOMAIN appointments[l] :
                     /\ i \in DOMAIN appointments'[l]
                     /\ appointments[l][i].status # "SCHEDULED" =>
                           appointments'[l][i] = appointments[l][i]
<1>1. ASSUME IInv, [Next]_vars, NEW l \in Lead PROVE Final(l)
  <2>1. CASE UNCHANGED <<lifecycle, cycles, current, attempts, appointments>>
    BY <2>1
  <2>2. ASSUME NEW w \in Worker, NEW k \in Lead, Serves(w, k) PROVE Final(l)
    <3>1. CASE k = l
      BY <2>2, <3>1 DEF Serves, WritesCycles, WritesAppointments, Keeps
    <3>2. CASE k # l
      <4>1. cycles'[l] = cycles[l] /\ appointments'[l] = appointments[l]
        BY <1>1, <2>2, <3>2, OtherLeads DEF Serves
      <4> QED
        BY <4>1
    <3> QED
      BY <3>1, <3>2
  <2> QED
    BY <1>1, <2>1, <2>2, StepsServeOneLead
<1>2. IInv /\ [Next]_vars => \A l \in Lead : Final(l)
  BY <1>1
<1> QED
  BY <1>2, InitIsSound, NextPreserves, PTL DEF Spec, HistoryIsFinal

(* A service that finds its lead STOPPED may only touch what stays open.   *)
LEMMA StoppedServed ==
    ASSUME IInv, NEW w \in Worker, Step(w), NEW l \in Lead, l = txn[w].lead,
           lifecycle[l] = "STOPPED"
    PROVE  /\ attempts'[l] = attempts[l] /\ current'[l] = current[l]
           /\ Len(appointments'[l]) = Len(appointments[l])
           /\ Len(cycles'[l]) = Len(cycles[l])
           /\ lifecycle'[l] # "STOPPED" => Reactivate(w)
<1>1. txn[w].op # "idle"
  BY StepServes
<1>2. txn[w].seen.lifecycle = "STOPPED"
  BY <1>1, SeenIsTrue
<1>3. current[l] = NoCycle /\ ActiveCycles(cycles[l]) = {} /\ cycles[l] \in Seq(Cycle)
  BY EachLeadIsSound DEF LeadSound, Parked, CyclesSound
<1>4. CASE Reassign(w) \/ Fail(w) \/ AddNote(w)
  BY <1>4 DEF Reassign, Fail, AddNote, workVars, statusVars, cycleVars, attemptVars,
              appointmentVars
<1>5. CASE Order(w)
  BY <1>2, <1>5 DEF Order, statusVars, cycleVars, attemptVars, appointmentVars
<1>6. CASE CloseCycle(w)
  <2>1. txn[w].ref \in DOMAIN cycles[l]
    BY <1>6 DEF CloseCycle, Locked, IInv, CallsAreSound, CallIsSound
  <2>2. txn[w].ref \in ActiveCycles(cycles[l])
    BY <1>6, <2>1 DEF CloseCycle, ActiveCycles
  <2> QED
    BY <1>3, <2>2
<1>7. CASE Stop(w)
  <2>1. UNCHANGED attempts /\ UNCHANGED appointments /\ StopWrites(l, txn[w].choice)
    BY <1>7 DEF Stop, attemptVars, appointmentVars
  <2>2. /\ cycles'[l] = EndCycles(cycles[l], ActiveCycles(cycles[l]), "STOPPED")
        /\ current'[l] = NoCycle /\ lifecycle'[l] = "STOPPED"
    BY <2>1 DEF StopWrites, IInv, TypeOK
  <2>3. Len(cycles'[l]) = Len(cycles[l])
    BY <1>3, <2>2, EndingCycles
  <2> QED
    BY <1>3, <2>1, <2>2, <2>3
<1>8. CASE Reactivate(w)
  BY <1>8 DEF Reactivate, cycleVars, attemptVars, appointmentVars
<1>9. CASE SetStatus(w) \/ Attempt(w) \/ Appoint(w)
  BY <1>2, <1>9 DEF SetStatus, Attempt, Appoint
<1>10. CASE CloseAppointment(w)
  <2> DEFINE s == [appointments[l] EXCEPT ![txn[w].ref].status = txn[w].choice]
  <2>1. /\ UNCHANGED attempts /\ UNCHANGED lifecycle /\ UNCHANGED cycles /\ UNCHANGED current
        /\ appointments' = [appointments EXCEPT ![l] = s]
    BY <1>10 DEF CloseAppointment, statusVars, cycleVars, attemptVars
  <2>2. appointments[l] \in Seq(Appointment) /\ appointments'[l] = s
    BY <2>1 DEF IInv, TypeOK
  <2> DEFINE a == appointments[l]
  <2>3. s = [i \in DOMAIN a |-> s[i]]
    OBVIOUS
  <2> HIDE DEF a
  <2>4. a \in Seq(Appointment) /\ s \in [DOMAIN a -> {s[i] : i \in DOMAIN a}]
    BY <2>2, <2>3 DEF a
  <2>5. Len(s) = Len(a)
    BY <2>4, SameLength
  <2> QED
    BY <2>1, <2>2, <2>5 DEF a
<1> QED
  BY <1>4, <1>5, <1>6, <1>7, <1>8, <1>9, <1>10 DEF Step

(* A STOPPED lead gets no attempt, no appointment and no cycle, and only   *)
(* reactivate_lead takes it out of STOPPED.                                *)
THEOREM StoppedStays == Spec => StoppedIsLeftAlone
<1> DEFINE Alone(l) ==
              lifecycle[l] = "STOPPED" =>
                  /\ UNCHANGED <<attempts[l], current[l]>>
                  /\ Len(appointments'[l]) = Len(appointments[l])
                  /\ Len(cycles'[l]) = Len(cycles[l])
                  /\ lifecycle'[l] # "STOPPED" => \E w \in Worker : Reactivate(w)
<1>1. ASSUME IInv, [Next]_vars, NEW l \in Lead PROVE Alone(l)
  <2>1. CASE UNCHANGED <<lifecycle, cycles, current, attempts, appointments>>
    BY <2>1
  <2>2. ASSUME NEW w \in Worker, NEW k \in Lead, k = txn[w].lead, Step(w), Serves(w, k)
        PROVE  Alone(l)
    <3>1. CASE k = l
      BY <1>1, <2>2, <3>1, StoppedServed
    <3>2. CASE k # l
      <4>1. /\ lifecycle'[l] = lifecycle[l] /\ attempts'[l] = attempts[l]
            /\ current'[l] = current[l] /\ cycles'[l] = cycles[l]
            /\ appointments'[l] = appointments[l]
        BY <1>1, <2>2, <3>2, OtherLeads DEF Serves
      <4> QED
        BY <4>1
    <3> QED
      BY <3>1, <3>2
  <2> QED
    BY <1>1, <2>1, <2>2, StepsServeOneLead
<1>2. IInv /\ [Next]_vars => \A l \in Lead : Alone(l)
  BY <1>1
<1> QED
  BY <1>2, InitIsSound, NextPreserves, PTL DEF Spec, StoppedIsLeftAlone

(* A count that ends a run of NO_ANSWERs covers the run.                   *)
LEMMA CountCoversRun ==
    ASSUME NEW s \in Seq(Result), NEW n \in Nat, CountsTrailing(s, n), NEW t \in Nat,
           Len(s) >= t, \A i \in (Len(s) - t + 1)..Len(s) : s[i] = "NO_ANSWER"
    PROVE  n >= t
<1> SUFFICES ASSUME n < t PROVE FALSE
  OBVIOUS
<1> DEFINE k == Len(s)
<1>1. k \in Nat /\ n < k
  OBVIOUS
<1>2. s[k - n] # "NO_ANSWER"
  BY <1>1 DEF CountsTrailing
<1> HIDE DEF k
<1>3. k - n \in (k - t + 1)..k
  BY <1>1
<1> QED
  BY <1>2, <1>3 DEF k

(* The attempt that completes a run of Threshold NO_ANSWERs stops the lead *)
(* of a team that opted in, whoever logged the others.                     *)
THEOREM AutoStopIsSure == Spec => AutoStopFires
<1> DEFINE Fires(l) ==
              (AutoStop /\ Len(attempts'[l]) > Len(attempts[l]) /\ Len(attempts'[l]) >= Threshold
                /\ \A i \in (Len(attempts'[l]) - Threshold + 1)..Len(attempts'[l]) :
                       attempts'[l][i] = "NO_ANSWER")
              => lifecycle'[l] = "STOPPED"
<1>1. ASSUME IInv, [Next]_vars, NEW l \in Lead PROVE Fires(l)
  <2> SUFFICES ASSUME AutoStop, Len(attempts'[l]) > Len(attempts[l]),
                      Len(attempts'[l]) >= Threshold,
                      \A i \in (Len(attempts'[l]) - Threshold + 1)..Len(attempts'[l]) :
                          attempts'[l][i] = "NO_ANSWER"
               PROVE  lifecycle'[l] = "STOPPED"
    OBVIOUS
  <2>1. attempts[l] \in Seq(Result) /\ attempts'[l] # attempts[l]
    <3>1. attempts[l] \in Seq(Result)
      BY <1>1 DEF IInv, TypeOK
    <3>2. Len(attempts[l]) \in Nat
      BY <3>1
    <3> QED
      BY <3>1, <3>2
  <2>2. PICK w \in Worker, k \in Lead :
            k = txn[w].lead /\ Step(w) /\ Serves(w, k) /\ LeadSound(k)'
    BY <1>1, <2>1, StepsServeOneLead
  <2>3. k = l
    BY <1>1, <2>1, <2>2, OtherLeads DEF Serves
  <2>4. Attempt(w)
    BY <2>1, <2>2 DEF Step, Reassign, Order, CloseCycle, Stop, Reactivate, SetStatus, Appoint,
                      CloseAppointment, AddNote, Fail, workVars, attemptVars
  <2>5. /\ attempts'[l] \in Seq(Result) /\ streak'[l] \in Nat
        /\ CountsTrailing(attempts'[l], streak'[l])
    BY <2>2, <2>3 DEF LeadSound, AttemptsSound, CountsTrailing
  <2>6. streak'[l] >= Threshold
    BY <2>5, ThresholdIsNat, CountCoversRun
  <2> DEFINE n == NextStreak(txn[w].seen.streak, txn[w].choice)
  <2>7. streak'[l] = n
    BY <1>1, <2>2, <2>3, <2>4 DEF Attempt, IInv, TypeOK
  <2>8. LimitReached(n)
    BY <2>6, <2>7 DEF LimitReached
  <2>9. lifecycle' = [lifecycle EXCEPT ![l] = "STOPPED"]
    BY <2>2, <2>3, <2>4, <2>8 DEF Attempt, StopWrites
  <2> QED
    BY <1>1, <2>9 DEF IInv, TypeOK
<1>2. IInv /\ [Next]_vars => \A l \in Lead : Fires(l)
  BY <1>1
<1> QED
  BY <1>2, InitIsSound, NextPreserves, PTL DEF Spec, AutoStopFires
=============================================================================
