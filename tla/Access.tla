------------------------------- MODULE Access -------------------------------
(***************************************************************************)
(* Who may see and do what: the role predicates of crm/core/permissions.py *)
(* and the row scoping of crm/core/scoping.py, over one lead.              *)
(*                                                                         *)
(* A user is [id, role, code, active, scope, teams]: teams are those of    *)
(* the open team assignments.  A lead is a record with its team, its       *)
(* caretaker and the customer's owner code.  Aliases of a role are one     *)
(* role here.                                                              *)
(***************************************************************************)
CONSTANT Blank      \* no caretaker, no staff code

IsTelesell(u) == u.role = "TELESELL"
CanManageAll(u) == u.role \in {"ADMIN", "EDITOR"}

(* A deactivated user has no authority on leads.                           *)
IsTeamLead(u) == u.active /\ u.role = "TEAM_LEAD"
TeamScope(u) == IF u.active THEN u.scope ELSE {}
CurrentTeamCodes(u) == IF u.active THEN u.teams ELSE {}
IsLeadCaretaker(u, lead) == lead.caretaker # Blank /\ lead.caretaker = u.id

CanEditCustomerLead(u, owner) ==
    \/ u.role = "EDITOR"
    \/ IsTelesell(u) /\ u.code # Blank /\ owner = u.code

CanViewLead(u, lead) ==
    /\ u.active
    /\ \/ u.role = "EDITOR"
       \/ IsTeamLead(u) /\ lead.team \in TeamScope(u)
       \/ /\ IsTelesell(u)
          /\ \/ IsLeadCaretaker(u, lead)
             \/ CanEditCustomerLead(u, lead.owner) /\ lead.team \in CurrentTeamCodes(u)

CanViewTeamSales(u) == u.role = "EDITOR"
CanResolveIntake(u) == u.active /\ u.role = "EDITOR"

CanReviewAnyLead(u) ==
    /\ u.active
    /\ u.role = "EDITOR" \/ (IsTeamLead(u) /\ TeamScope(u) # {})

CanUseLeadWorkspace(u) ==
    u.active /\ (u.role \in {"EDITOR", "TEAM_LEAD"} \/ IsTelesell(u))

(* The import rules speak another vocabulary of roles.                     *)
ImportActorRole(u) ==
    IF ~u.active \/ u.role \in {"ADMIN", "STAFF"} THEN Blank
    ELSE IF u.role = "EDITOR" THEN "ADMIN"
    ELSE IF u.role = "TEAM_LEAD" THEN "TEAM_LEAD" ELSE "TELESALE"

CanImportV2(u) == ImportActorRole(u) = "ADMIN"

CanResolveImportConflicts(u) ==
    \/ ImportActorRole(u) = "ADMIN"
    \/ ImportActorRole(u) = "TEAM_LEAD" /\ TeamScope(u) # {}

(* Lead.objects.for_user(u).                                               *)
ForUser(u, lead) ==
    \/ CanManageAll(u)
    \/ IsTeamLead(u) /\ lead.team \in TeamScope(u)
    \/ /\ IsTelesell(u)
       /\ \/ lead.caretaker = u.id
          \/ u.code # Blank /\ lead.owner = u.code /\ lead.team \in CurrentTeamCodes(u)
    \/ /\ ~CanManageAll(u) /\ ~IsTeamLead(u) /\ ~IsTelesell(u)
       /\ u.code # Blank /\ lead.owner = u.code
=============================================================================
