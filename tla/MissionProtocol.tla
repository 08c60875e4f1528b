--------------------------- MODULE MissionProtocol ---------------------------
(***************************************************************************)
(* The vocabulary every mission of the harness is written in: the fifteen  *)
(* engine statuses with their transition table, the thirteen EDA phases    *)
(* with the policy that makes some of them conditional for an intent, the  *)
(* mission snapshot, and the pure functions that decide what a mission     *)
(* does next.  No state lives here.                                        *)
(*                                                                         *)
(* The statuses, the transition table and the wait reasons belong to the   *)
(* pinned drenyra-ai engine, which is outside the repository's source: they *)
(* are modelled from the way the harness calls them.                       *)
(***************************************************************************)
EXTENDS Integers

(***************************************************************************)
(* Engine statuses (external).                                             *)
(***************************************************************************)
VALID_TRANSITIONS ==
  [ DRAFT                |-> {"QUEUED"},
    QUEUED               |-> {"RUNNING", "FAILED"},
    RUNNING              |-> {"BLOCKED", "AWAITING_APPROVAL", "COMPLETED",
                              "FAILED", "UNKNOWN", "WAITING_FOR_EVIDENCE",
                              "BLOCKED_BY_GATE", "RETRYING"},
    BLOCKED              |-> {"RUNNING", "FAILED"},
    WAITING_FOR_EVIDENCE |-> {"RUNNING", "FAILED"},
    BLOCKED_BY_GATE      |-> {"RUNNING", "AWAITING_APPROVAL", "FAILED"},
    RETRYING             |-> {"RUNNING", "FAILED"},
    RECOVERING           |-> {"RUNNING", "FAILED"},
    AWAITING_APPROVAL    |-> {"APPROVED", "REJECTED", "RUNNING"},
    APPROVED             |-> {"COMPLETED", "FAILED"},
    REJECTED             |-> {"REVISION_REQUESTED"},
    REVISION_REQUESTED   |-> {"QUEUED"},
    UNKNOWN              |-> {"RUNNING", "FAILED", "COMPLETED"},
    COMPLETED            |-> {},
    FAILED               |-> {} ]

Status == {"DRAFT", "QUEUED", "RUNNING", "BLOCKED", "WAITING_FOR_EVIDENCE",
           "BLOCKED_BY_GATE", "RETRYING", "RECOVERING", "AWAITING_APPROVAL",
           "APPROVED", "REJECTED", "REVISION_REQUESTED", "UNKNOWN",
           "COMPLETED", "FAILED"}

isTerminal(status) == status \in {"COMPLETED", "FAILED"}

(* waitReasonFor(status) # null: the statuses the engine reports a wait for. *)
Waiting == {"WAITING_FOR_EVIDENCE", "AWAITING_APPROVAL", "BLOCKED_BY_GATE",
            "BLOCKED", "RETRYING", "UNKNOWN"}

(***************************************************************************)
(* EDA phases: a phase is its position in EDA_PHASE_ORDER.                 *)
(***************************************************************************)
INTAKE == 1
BIND_SCOPE == 2
INGEST == 3
NORMALIZE == 4
CLASSIFY == 5
RECONCILE == 6
INVESTIGATE == 7
PROPOSE == 8
VERIFY == 9
APPROVE == 10
EXECUTE == 11
CLOSE == 12
ARCHIVE == 13

Phases  == INTAKE .. ARCHIVE
NoPhase == 0

EDA_INTENTS == {"monthly-close", "correction", "reconciliation",
                "invoice-review", "compliance-check"}
HARNESS_INTENTS == {"verify", "evidence"}
EdaIntent == EDA_INTENTS \cup HARNESS_INTENTS

(* The phases PHASE_APPLICABILITY marks "conditional" for an intent. *)
Conditional(intent) ==
  CASE intent = "monthly-close" -> {}
    [] intent = "correction" -> {RECONCILE}
    [] intent = "reconciliation" -> {PROPOSE, APPROVE, EXECUTE}
    [] intent \in {"invoice-review", "compliance-check"} ->
         {RECONCILE, PROPOSE, APPROVE, EXECUTE}
    [] intent \in HARNESS_INTENTS -> {PROPOSE, APPROVE, EXECUTE, CLOSE}

(***************************************************************************)
(* Authority modes, in the order assertMonotonicAuthority compares them,   *)
(* and the mode the action family of a phase requires.                     *)
(***************************************************************************)
ASK == 0
ANALYZE == 1
PREPARE == 2
EXECUTE_MODE == 3
AuthorityMode == ASK .. EXECUTE_MODE

requiredModeFor(phase) ==
  CASE phase \in {INTAKE, BIND_SCOPE} -> ASK
    [] phase \in INGEST .. INVESTIGATE \cup {VERIFY} -> ANALYZE
    [] phase \in {PROPOSE, APPROVE} -> PREPARE
    [] phase \in EXECUTE .. ARCHIVE -> EXECUTE_MODE

(***************************************************************************)
(* Mission snapshots.  A step that is not in the list is "ABSENT": the     *)
(* engine creates a mission with an empty list and the coordinator injects *)
(* the thirteen steps afterwards.  "alarmed" says that an unresolved ERROR *)
(* or CRITICAL blocker is recorded; "proposal" that one is attached;       *)
(* "receipt" numbers the completion receipt the mission cites, 0 for none. *)
(***************************************************************************)
StepStatus == {"ABSENT", "PENDING", "IN_PROGRESS", "COMPLETED", "SKIPPED"}
Passed == {"COMPLETED", "SKIPPED"}

Snapshot == [ intent   : EdaIntent,
              status   : Status,
              version  : Nat,
              current  : Phases \cup {NoPhase},
              steps    : [Phases -> StepStatus],
              alarmed  : BOOLEAN,
              proposal : BOOLEAN,
              receipt  : Nat ]

(* The snapshot MissionRuntime.start creates (external). *)
Started(intent) ==
  [ intent   |-> intent,
    status   |-> "DRAFT",
    version  |-> 1,
    current  |-> NoPhase,
    steps    |-> [p \in Phases |-> "ABSENT"],
    alarmed  |-> FALSE,
    proposal |-> FALSE,
    receipt  |-> 0 ]

(* Variant: progress updates keep the version they started from. *)
BumpOnTransition(m) ==
  IF m.status = "RUNNING" THEN m ELSE [m EXCEPT !.version = m.version + 1]

(* Every writer moves the version (and lastEventSequence with it) by one. *)
Bump(m) == [m EXCEPT !.version = m.version + 1]

(* createEdaSteps, and the current step the coordinator sets beside it. *)
WithPlan(m) ==
  [m EXCEPT !.steps = [p \in Phases |-> "PENDING"], !.current = INTAKE]

completeStep(m, phase, mark) ==
  [m EXCEPT !.steps = [m.steps EXCEPT ![phase] = mark], !.current = phase]

(* Variant: the engine status written where the step status belongs. *)
markRunning(m, phase) == completeStep(m, phase, "RUNNING")

markInProgress(m, phase) == completeStep(m, phase, "IN_PROGRESS")

(***************************************************************************)
(* The continuation decision: from the current step onwards, the first one *)
(* still open.  Every step before the current one is behind the mission.   *)
(***************************************************************************)
OpenPhases(m) ==
  {p \in Phases : p >= m.current /\ m.steps[p] \in {"PENDING", "IN_PROGRESS"}}

(* Variant: off by one, the search starts after the current step. *)
nextPhaseAfter(m) ==
  LET later == OpenPhases(m) \ {m.current}
  IN  IF later = {} THEN NoPhase
                    ELSE CHOOSE p \in later : \A q \in later : p <= q

nextPendingPhase(m) ==
  IF OpenPhases(m) = {}
    THEN NoPhase
    ELSE CHOOSE p \in OpenPhases(m) : \A q \in OpenPhases(m) : p <= q

hasTriggeringCondition(m) == m.proposal \/ m.alarmed

Nothing == [phase |-> NoPhase, disposition |-> "NONE"]

derivePreparedStep(m) ==
  LET phase == nextPendingPhase(m)
  IN  IF isTerminal(m.status) \/ m.status = "UNKNOWN" \/ phase = NoPhase
        THEN Nothing
        ELSE [ phase |-> phase,
               disposition |->
                 IF m.status \in Waiting
                   THEN "WAIT"
                   ELSE IF phase \in Conditional(m.intent)
                             /\ ~hasTriggeringCondition(m)
                          THEN "SKIP"
                          ELSE "RUN" ]

(***************************************************************************)
(* The engine's execute command over the generic EDA handler: the handler  *)
(* answers for the lifecycle phases, and where it answers null the engine  *)
(* itself aims at RUNNING.  Either way the target must be legal.           *)
(***************************************************************************)
LifecyclePhases == {INTAKE, BIND_SCOPE, INGEST, APPROVE, ARCHIVE}

genericIntentHandler(m, phase) ==
  CASE phase = INTAKE     -> [completeStep(m, INTAKE, "COMPLETED")
                                EXCEPT !.status = "QUEUED"]
    [] phase = BIND_SCOPE -> [completeStep(m, BIND_SCOPE, "COMPLETED")
                                EXCEPT !.status = "RUNNING"]
    [] phase = INGEST     -> [markInProgress(m, INGEST)
                                EXCEPT !.status = "WAITING_FOR_EVIDENCE",
                                       !.alarmed = TRUE]
    [] phase = APPROVE    -> [markInProgress(m, APPROVE)
                                EXCEPT !.status = "AWAITING_APPROVAL"]
    [] phase = ARCHIVE    -> [completeStep(m, ARCHIVE, "COMPLETED")
                                EXCEPT !.status = "COMPLETED"]

ExecuteTarget(m) ==
  LET prepared == derivePreparedStep(m)
  IN  IF prepared.disposition = "RUN" /\ prepared.phase \in LifecyclePhases
        THEN genericIntentHandler(m, prepared.phase)
        ELSE [m EXCEPT !.status = "RUNNING"]

(* guardTerminal and the transition check of one engine command. *)
LegalTarget(m, target) ==
  /\ ~isTerminal(m.status)
  /\ target.status \in VALID_TRANSITIONS[m.status]

(***************************************************************************)
(* Partial functions stand for directories of documents: one more document *)
(* under its name, or the one that was there replaced.                     *)
(***************************************************************************)
Put(docs, name, doc) ==
  [n \in DOMAIN docs \cup {name} |-> IF n = name THEN doc ELSE docs[n]]
=============================================================================
