------------------------ MODULE MissionProtocolProofs ------------------------
(***************************************************************************)
(* Facts about the operators of MissionProtocol, for every snapshot: what  *)
(* the writers of a snapshot return, and what the continuation decision    *)
(* may prepare.                                                            *)
(***************************************************************************)
EXTENDS MissionProtocol, TLAPS

(* The phases are the numbers from 1 to 13. *)
LEMMA PhaseNumbers ==
  /\ Phases = 1 .. 13
  /\ NoPhase \notin Phases
  /\ INTAKE = 1 /\ BIND_SCOPE = 2 /\ INGEST = 3 /\ RECONCILE = 6
  /\ INVESTIGATE = 7 /\ PROPOSE = 8 /\ VERIFY = 9 /\ APPROVE = 10
  /\ EXECUTE = 11 /\ CLOSE = 12 /\ ARCHIVE = 13
  BY DEF Phases, NoPhase, INTAKE, BIND_SCOPE, INGEST, RECONCILE, INVESTIGATE,
         PROPOSE, VERIFY, APPROVE, EXECUTE, CLOSE, ARCHIVE

(* A mission starts as a snapshot. *)
LEMMA StartedType ==
  ASSUME NEW intent \in EdaIntent
  PROVE  Started(intent) \in Snapshot
  BY PhaseNumbers DEF Started, Snapshot, Status, StepStatus

(* Moving the version keeps a snapshot a snapshot. *)
LEMMA BumpType ==
  ASSUME NEW m \in Snapshot
  PROVE  Bump(m) \in Snapshot
  BY DEF Bump, Snapshot

(* Changing the status keeps a snapshot a snapshot. *)
LEMMA StatusType ==
  ASSUME NEW m \in Snapshot, NEW status \in Status
  PROVE  [m EXCEPT !.status = status] \in Snapshot
  BY DEF Snapshot

(* So does changing the status while raising the alarm. *)
LEMMA AlarmType ==
  ASSUME NEW m \in Snapshot, NEW status \in Status
  PROVE  [m EXCEPT !.status = status, !.alarmed = TRUE] \in Snapshot
  BY DEF Snapshot

(* Replacing the steps and the current step keeps a snapshot a snapshot. *)
LEMMA StepsType ==
  ASSUME NEW m \in Snapshot, NEW steps \in [Phases -> StepStatus],
         NEW current \in Phases \cup {NoPhase}
  PROVE  [m EXCEPT !.steps = steps, !.current = current] \in Snapshot
  BY DEF Snapshot

(* Injecting the plan keeps a snapshot a snapshot. *)
LEMMA WithPlanType ==
  ASSUME NEW m \in Snapshot
  PROVE  WithPlan(m) \in Snapshot
<1>1. [p \in Phases |-> "PENDING"] \in [Phases -> StepStatus]
  BY DEF StepStatus
<1>2. INTAKE \in Phases \cup {NoPhase}
  BY PhaseNumbers
<1>3. QED
  BY <1>1, <1>2, StepsType DEF WithPlan

(* Marking a step keeps a snapshot a snapshot. *)
LEMMA CompleteStepType ==
  ASSUME NEW m \in Snapshot, NEW p \in Phases, NEW mark \in StepStatus
  PROVE  completeStep(m, p, mark) \in Snapshot
  BY DEF completeStep, Snapshot

(* The next pending phase is the first open one from the current step on. *)
LEMMA NextPending ==
  ASSUME NEW m \in Snapshot
  PROVE  /\ nextPendingPhase(m) \in Phases \cup {NoPhase}
         /\ nextPendingPhase(m) # NoPhase =>
              /\ nextPendingPhase(m) \in OpenPhases(m)
              /\ \A q \in OpenPhases(m) : nextPendingPhase(m) <= q
         /\ nextPendingPhase(m) = NoPhase => OpenPhases(m) = {}
<1> DEFINE open == OpenPhases(m)
           First(p) == p \in open /\ \A q \in open : p <= q
<1>1. open \subseteq 1 .. 13
  BY PhaseNumbers DEF OpenPhases
<1>2. CASE open = {}
  BY <1>2, PhaseNumbers DEF nextPendingPhase
<1>3. CASE open # {}
  <2>1. \E p \in open : First(p)
    <3>1. PICK p \in open : TRUE
      BY <1>3
    <3>2. \/ 1 \in open \/ 2 \in open \/ 3 \in open \/ 4 \in open
          \/ 5 \in open \/ 6 \in open \/ 7 \in open \/ 8 \in open
          \/ 9 \in open \/ 10 \in open \/ 11 \in open \/ 12 \in open
          \/ 13 \in open
      BY <1>1, <3>1
    <3>3. QED
      BY <1>1, <3>2
  <2>2. First(CHOOSE p \in open : First(p))
    BY <2>1
  <2>3. nextPendingPhase(m) = (CHOOSE p \in open : \A q \in open : p <= q)
    BY <1>3 DEF nextPendingPhase
  <2>4. (CHOOSE p \in open : First(p)) = (CHOOSE p \in open : \A q \in open : p <= q)
    OBVIOUS
  <2>5. QED
    BY <2>2, <2>3, <2>4, <1>1, PhaseNumbers
<1>4. QED
  BY <1>2, <1>3

(* Where the next phase is, of a plan that is open from there on.          *)
LEMMA NextIs ==
  ASSUME NEW m \in Snapshot, NEW p \in Phases, m.current <= p,
         m.steps[p] \in {"PENDING", "IN_PROGRESS"},
         \A q \in Phases : m.current <= q /\ q < p => m.steps[q] \in Passed
  PROVE  nextPendingPhase(m) = p
<1>1. p \in OpenPhases(m)
  BY DEF OpenPhases
<1>2. \A q \in OpenPhases(m) : q \in Int /\ p <= q
  BY PhaseNumbers DEF OpenPhases, Passed
<1>3. p \in Int /\ p # NoPhase
  BY PhaseNumbers
<1>4. nextPendingPhase(m) \in OpenPhases(m) /\ nextPendingPhase(m) <= p
  BY <1>1, NextPending
<1>5. QED
  BY <1>2, <1>3, <1>4

LEMMA NextNone ==
  ASSUME NEW m \in Snapshot,
         \A q \in Phases : m.current <= q => m.steps[q] \notin {"PENDING", "IN_PROGRESS"}
  PROVE  nextPendingPhase(m) = NoPhase
<1>1. OpenPhases(m) = {}
  BY PhaseNumbers DEF OpenPhases
<1>2. QED
  BY <1>1 DEF nextPendingPhase

(* Only the current step and the steps decide what comes next.             *)
LEMMA NextOf ==
  ASSUME NEW m, NEW n, n.current = m.current, n.steps = m.steps
  PROVE  nextPendingPhase(n) = nextPendingPhase(m)
<1>1. OpenPhases(n) = OpenPhases(m)
  BY DEF OpenPhases
<1>2. QED
  BY <1>1 DEF nextPendingPhase

(* What a prepared step is made of. *)
LEMMA PreparedStep ==
  ASSUME NEW m \in Snapshot
  PROVE  LET prepared == derivePreparedStep(m) IN
         /\ prepared.phase \in Phases \cup {NoPhase}
         /\ prepared.disposition \in {"NONE", "WAIT", "SKIP", "RUN"}
         /\ prepared.disposition # "NONE" =>
              prepared.phase \in Phases /\ prepared.phase = nextPendingPhase(m)
         /\ prepared.disposition \in {"SKIP", "RUN"} =>
              m.status \notin Waiting \cup {"COMPLETED", "FAILED"}
         /\ prepared.disposition = "SKIP" =>
              prepared.phase \in Conditional(m.intent) /\ ~hasTriggeringCondition(m)
         /\ prepared.disposition = "RUN" =>
              \/ prepared.phase \notin Conditional(m.intent)
              \/ hasTriggeringCondition(m)
  BY NextPending DEF derivePreparedStep, Nothing, isTerminal

(* The engine's execute command aims at a snapshot. *)
LEMMA ExecuteTargetType ==
  ASSUME NEW m \in Snapshot
  PROVE  ExecuteTarget(m) \in Snapshot
<1> DEFINE p == derivePreparedStep(m).phase
<1>1. CASE ExecuteTarget(m) = [m EXCEPT !.status = "RUNNING"]
  BY <1>1, StatusType DEF Status
<1>2. CASE p \in LifecyclePhases /\ ExecuteTarget(m) = genericIntentHandler(m, p)
  <2>1. \A q \in {INTAKE, BIND_SCOPE, INGEST, APPROVE, ARCHIVE} :
          /\ completeStep(m, q, "COMPLETED") \in Snapshot
          /\ completeStep(m, q, "IN_PROGRESS") \in Snapshot
    BY CompleteStepType, PhaseNumbers DEF StepStatus
  <2>2. CASE p = INTAKE
    BY <1>2, <2>1, <2>2, PhaseNumbers DEF genericIntentHandler, Snapshot, Status
  <2>3. CASE p = BIND_SCOPE
    BY <1>2, <2>1, <2>3, PhaseNumbers DEF genericIntentHandler, Snapshot, Status
  <2>4. CASE p = INGEST
    <3>1. ExecuteTarget(m) = [completeStep(m, INGEST, "IN_PROGRESS")
                                EXCEPT !.status = "WAITING_FOR_EVIDENCE",
                                       !.alarmed = TRUE]
      BY <1>2, <2>4, PhaseNumbers DEF genericIntentHandler, markInProgress
    <3>2. QED
      BY <3>1, <2>1, AlarmType DEF Status
  <2>5. CASE p = APPROVE
    BY <1>2, <2>1, <2>5, PhaseNumbers
       DEF genericIntentHandler, markInProgress, Snapshot, Status
  <2>6. CASE p = ARCHIVE
    BY <1>2, <2>1, <2>6, PhaseNumbers DEF genericIntentHandler, Snapshot, Status
  <2>7. QED
    BY <1>2, <2>2, <2>3, <2>4, <2>5, <2>6 DEF LifecyclePhases
<1>3. QED
  BY <1>1, <1>2 DEF ExecuteTarget

(* A directory holds one document more, or the same ones. *)
LEMMA PutDomain ==
  ASSUME NEW f, NEW n, NEW d
  PROVE  /\ DOMAIN Put(f, n, d) = DOMAIN f \cup {n}
         /\ Put(f, n, d)[n] = d
         /\ \A k \in DOMAIN f \ {n} : Put(f, n, d)[k] = f[k]
         /\ Put(f, n, d) = [k \in DOMAIN Put(f, n, d) |-> Put(f, n, d)[k]]
  BY DEF Put
=============================================================================
