--------------------------- MODULE GovernedMission ---------------------------
(***************************************************************************)
(* What the chain pipeline promises of one mission, with no store, no      *)
(* command and no crash in sight.  A mission is bound to the scope that    *)
(* started it; a phase is passed in order, one at a time, and only under   *)
(* an authorization of its action family; a mission with a proposal passes *)
(* approval only by being approved; and each wait has one way out.         *)
(***************************************************************************)
EXTENDS AuthorityGates

CONSTANT Scopes  \* the scope hashes an authorization may be bound to

VARIABLES
  intent,   \* the chain's intent, "none" before the mission exists
  status,   \* engine status, "NONE" before the mission exists
  phase,    \* the next phase to pass; NoPhase before the plan and after the end
  proposal, \* whether a proposal is attached
  families, \* the action families authorized so far
  scopes    \* the scopes authorized so far

governed == <<intent, status, phase, proposal, families, scopes>>

Init ==
  /\ intent = "none" /\ status = "NONE" /\ phase = NoPhase
  /\ proposal = FALSE /\ families = {} /\ scopes = {}

Create ==
  /\ status = "NONE"
  /\ intent' \in EdaIntent
  /\ status' = "DRAFT"
  /\ UNCHANGED <<phase, proposal, families, scopes>>

Plan ==
  /\ status = "DRAFT" /\ phase = NoPhase
  /\ phase' = INTAKE
  /\ UNCHANGED <<intent, status, proposal, families, scopes>>

(* A family is authorized once, and every family for the same scope. *)
Authorize(family, scope) ==
  /\ phase # NoPhase
  /\ family \notin families
  /\ scopes \subseteq {scope}
  /\ families' = families \cup {family}
  /\ scopes' = {scope}
  /\ UNCHANGED <<intent, status, phase, proposal>>

Authorized == familyForPhase(phase) \in families

Accept ==
  /\ status = "DRAFT" /\ phase = INTAKE /\ Authorized
  /\ status' = "QUEUED" /\ phase' = BIND_SCOPE
  /\ UNCHANGED <<intent, proposal, families, scopes>>

Bind ==
  /\ status = "QUEUED" /\ phase = BIND_SCOPE /\ Authorized
  /\ status' = "RUNNING" /\ phase' = INGEST
  /\ UNCHANGED <<intent, proposal, families, scopes>>

(* Approval is no phase to pass: it is given, or it is not called for. *)
Pass ==
  /\ \/ status = "RUNNING" /\ phase \in INGEST .. VERIFY
     \/ status \in {"RUNNING", "APPROVED"} /\ phase \in EXECUTE .. CLOSE
  /\ Authorized
  /\ phase' = phase + 1
  /\ proposal' = (proposal \/ phase = PROPOSE)
  /\ UNCHANGED <<intent, status, families, scopes>>

Skip ==
  /\ status = "RUNNING" \/ (status = "APPROVED" /\ phase > APPROVE)
  /\ phase \in Conditional(intent)
  /\ ~proposal
  /\ phase' = phase + 1
  /\ UNCHANGED <<intent, status, proposal, families, scopes>>

AskEvidence ==
  /\ status = "RUNNING" /\ phase \in {INGEST, RECONCILE} /\ Authorized
  /\ status' = "WAITING_FOR_EVIDENCE"
  /\ UNCHANGED <<intent, phase, proposal, families, scopes>>

Gate ==
  /\ status = "RUNNING" /\ phase = APPROVE /\ Authorized
  /\ status' = "BLOCKED_BY_GATE"
  /\ UNCHANGED <<intent, phase, proposal, families, scopes>>

(* Evidence was added, or an approver has turned up at the gate. *)
Release ==
  /\ \/ status = "WAITING_FOR_EVIDENCE"
     \/ status = "BLOCKED_BY_GATE" /\ Authorized
  /\ status' = "RUNNING"
  /\ UNCHANGED <<intent, phase, proposal, families, scopes>>

AskApproval ==
  /\ status = "RUNNING" /\ phase = APPROVE /\ Authorized
  /\ status' = "AWAITING_APPROVAL"
  /\ UNCHANGED <<intent, phase, proposal, families, scopes>>

Approve ==
  /\ status = "AWAITING_APPROVAL" /\ phase = APPROVE /\ proposal
  /\ status' = "APPROVED"
  /\ UNCHANGED <<intent, phase, proposal, families, scopes>>

RecordApproval ==
  /\ status = "APPROVED" /\ phase = APPROVE
  /\ phase' = EXECUTE
  /\ UNCHANGED <<intent, status, proposal, families, scopes>>

Finish ==
  /\ status = IF proposal THEN "APPROVED" ELSE "RUNNING"
  /\ phase = ARCHIVE /\ Authorized
  /\ status' = "COMPLETED" /\ phase' = NoPhase
  /\ UNCHANGED <<intent, proposal, families, scopes>>

Next ==
  \/ Create \/ Plan \/ Accept \/ Bind \/ Pass \/ Skip
  \/ \E f \in ACTION_FAMILY, s \in Scopes : Authorize(f, s)
  \/ AskEvidence \/ Gate \/ Release
  \/ AskApproval \/ Approve \/ RecordApproval \/ Finish

Spec == Init /\ [][Next]_governed
=============================================================================
