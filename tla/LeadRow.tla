------------------------------ MODULE LeadRow ------------------------------
(***************************************************************************)
(* The row lock and the optimistic version of a Lead: the protocol every   *)
(* ownership and follow-up service follows (crm/leads/services.py,         *)
(* lock_lead).  A service takes the row lock, reloads the row, and compares *)
(* the version the user's form was rendered against.  PostgreSQL releases  *)
(* the lock when the transaction commits or rolls back.                    *)
(***************************************************************************)
EXTENDS Naturals

CONSTANTS
    Lead,       \* the leads of one customer, one per team
    Worker,     \* the requests and commands that may run at the same time
    Free,       \* value of a row lock nobody holds
    MaxVersion  \* bound: versions the instance explores

ASSUME FreeIsNoWorker == Free \notin Worker
ASSUME MaxVersionIsNat == MaxVersion \in Nat \ {0}

VARIABLES
    lock,       \* lock[l]: the worker whose transaction holds the row lock
    version     \* version[l]: Lead.version

rowVars == <<lock, version>>

Version == 1..MaxVersion
NoVersion == 0      \* a request that sent no form version

RowTypeOK ==
    /\ lock \in [Lead -> Worker \cup {Free}]
    /\ version \in [Lead -> Version]

RowInit ==
    /\ lock = [l \in Lead |-> Free]
    /\ version = [l \in Lead |-> 1]

Unlocked(l) == lock[l] = Free

\* Mutant: the row is read without select_for_update.
AcquireUnguarded(w, l) == lock' = [lock EXCEPT ![l] = w]

\* A transaction that touches several leads keeps every lock it took.
Acquire(w, l) ==
    /\ Unlocked(l)
    /\ lock' = [lock EXCEPT ![l] = w]

ReleaseAll(w) ==
    lock' = [l \in Lead |-> IF lock[l] = w THEN Free ELSE lock[l]]

\* The expected_version comparison, made on the reloaded row.
FormIsCurrent(l, v) == v \in {NoVersion, version[l]}
============================================================================
