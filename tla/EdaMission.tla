----------------------------- MODULE EdaMission -----------------------------
(***************************************************************************)
(* What the coordinator promises of one mission, with no store, no command *)
(* and no crash in sight: the phases are passed in order and one at a time,*)
(* a phase may be left behind only while the mission runs, approval can be *)
(* passed without asking only where the intent makes it conditional, and a *)
(* mission that waits, has finished, or whose outcome is unknown stays     *)
(* where it is.                                                            *)
(***************************************************************************)
EXTENDS MissionProtocol

VARIABLES
  intent,  \* what the mission is for
  status,  \* engine status, "NONE" before the mission exists
  phase    \* the next phase to pass; NoPhase before the plan and after the end

lifecycle == <<intent, status, phase>>

NoIntent == "none"

Init ==
  /\ intent = NoIntent
  /\ status = "NONE"
  /\ phase = NoPhase

Create ==
  /\ status = "NONE"
  /\ intent' \in EDA_INTENTS
  /\ status' = "DRAFT"
  /\ phase' = NoPhase

Plan ==
  /\ status = "DRAFT" /\ phase = NoPhase
  /\ phase' = INTAKE
  /\ UNCHANGED <<intent, status>>

Accept ==
  /\ status = "DRAFT" /\ phase = INTAKE
  /\ status' = "QUEUED" /\ phase' = BIND_SCOPE
  /\ UNCHANGED intent

Bind ==
  /\ status = "QUEUED" /\ phase = BIND_SCOPE
  /\ status' = "RUNNING" /\ phase' = INGEST
  /\ UNCHANGED intent

Pass ==
  /\ status = "RUNNING"
  /\ phase \in INGEST .. CLOSE
  /\ phase = APPROVE => APPROVE \in Conditional(intent)
  /\ phase' = phase + 1
  /\ UNCHANGED <<intent, status>>

AskEvidence ==
  /\ status = "RUNNING" /\ phase = INGEST
  /\ status' = "WAITING_FOR_EVIDENCE"
  /\ UNCHANGED <<intent, phase>>

AskApproval ==
  /\ status = "RUNNING" /\ phase = APPROVE
  /\ status' = "AWAITING_APPROVAL"
  /\ UNCHANGED <<intent, phase>>

Finish ==
  /\ status = "RUNNING" /\ phase = ARCHIVE
  /\ status' = "COMPLETED" /\ phase' = NoPhase
  /\ UNCHANGED intent

LoseTrack ==
  /\ status = "RUNNING"
  /\ status' = "UNKNOWN"
  /\ UNCHANGED <<intent, phase>>

Next ==
  \/ Create \/ Plan \/ Accept \/ Bind \/ Pass
  \/ AskEvidence \/ AskApproval \/ Finish \/ LoseTrack

Spec == Init /\ [][Next]_lifecycle
=============================================================================
