---------------------------- MODULE MCLeadQueues ----------------------------
(* TLC instance of LeadQueues: one viewer of each kind, rows on both sides *)
(* of the cutoffs, and a query of each queue.                              *)
EXTENDS LeadQueues

Today == 100

User(id, role, code, scope, teams) ==
    [id |-> id, role |-> role, code |-> code, active |-> TRUE, scope |-> scope, teams |-> teams]

SomeViewers ==
    { User(1, "EDITOR", Blank, {}, {}), User(2, "TEAM_LEAD", Blank, {"A"}, {}),
      User(3, "TELESELL", "S1", {}, {"A"}),
      User(4, "ADMIN", "S1", {}, {}) }

At(team, caretaker, owner, status, last, follow, cycle) ==
    [team |-> team, caretaker |-> caretaker, owner |-> owner, status |-> status,
     last |-> last, follow |-> follow, cycle |-> cycle, locked |-> cycle]

SomeRows ==
    { At("A", 3, "S1", "NEW", 2 * (Today - 44) + 1, Blank, FALSE),
      At("A", 3, "S1", "FOLLOWING", 2 * (Today - 45) + 1, Blank, TRUE),
      At("A", 3, "S1", "WAITING_FOLLOWUP", 2 * (Today - 7), 2 * Today + 1, FALSE),
      At("B", 3, Blank, "WAITING_CUSTOMER", 2 * (Today - 7), 2 * (Today + 1), FALSE),
      At("A", Blank, "S1", "NEW", Blank, Blank, FALSE),
      At("A", Blank, "S1", "STOPPED", 2 * (Today - 90) + 1, Blank, FALSE) }

Ask(kind, sort, preset, review) ==
    [kind |-> kind, sort |-> sort, preset |-> preset, review |-> review, caretaker |-> Blank,
     appointment |-> "ANY", followup |-> "ANY", lock |-> "ANY"]

SomeRequests ==
    { Ask("MY_WORK", "WORK_PRIORITY", "ANY", FALSE), Ask("MY_WORK", "OLDEST_LAST_ORDER", "ANY", FALSE),
      Ask("MY_WORK", "NEWEST_LAST_ORDER", "ANY", FALSE), Ask("MY_WORK", "OLDEST_LAST_ORDER", "0_7", FALSE),
      Ask("MY_WORK", "WORK_PRIORITY", "ANY", TRUE),
      [Ask("MY_WORK", "NEWEST_LAST_ORDER", "ANY", FALSE) EXCEPT !.appointment = "NONE", !.lock = "NONE"],
      [Ask("MY_WORK", "OLDEST_LAST_ORDER", "ANY", FALSE) EXCEPT !.caretaker = 3],
      Ask("TEAM", "WORK_PRIORITY", "ANY", FALSE), Ask("STOPPED", "WORK_PRIORITY", "ANY", FALSE) }
=============================================================================
