-------------------------- MODULE MCLeadOwnership --------------------------
(* Instances of LeadOwnership for TLC.                                     *)
EXTENDS LeadOwnership, TLC

(* Everybody may hold every lead. *)
MCMembers == [l \in Lead |-> User]
MCExclusive == [l \in Lead |-> "EXCLUSIVE"]
MCLatest == [l \in Lead |-> "LATEST_ORDER"]

(* Workers are interchangeable, and so are users and leads: all users may  *)
(* hold all leads, and all teams have the same policy.                     *)
FullSymmetry == Permutations(Worker) \cup Permutations(User)
LeadSymmetry == FullSymmetry \cup Permutations(Lead)
============================================================================
