---------------------------- MODULE ChainPipeline ----------------------------
(***************************************************************************)
(* runChainStep: one bounded step of a chain (reconcile, verify, evidence) *)
(* over the mission stores, the authority store and the receipt store.     *)
(*                                                                         *)
(* A run finds or starts the mission of its intent, derives the prepared   *)
(* step, finds or writes the authorization of its action family, passes    *)
(* the authority gates, lets the chain compute, executes exactly one step, *)
(* and stores the completion receipt.  As in MissionCoordinator every      *)
(* awaited store call is a step of its own, so runs of several sessions    *)
(* interleave, and a crash or an I/O error may fall between any two.       *)
(***************************************************************************)
EXTENDS AuthorityGates, FiniteSets

CONSTANTS
  Missions,   \* mission ids the engine may draw (random: never reused)
  Sessions,   \* sessions that run chains on the workspace
  Intents,    \* intents of the chains that are run; an intent names its chain
  Scopes,     \* scope hashes bound for the company and period of the missions
  ModeOf,     \* the authority level of each scope
  Runs,       \* the inputs a run may be given (see Run)
  Outputs,    \* target hashes a chain's output may have
  MaxFaults,  \* bound: crashes and I/O errors in one behaviour
  MaxDetours, \* bound: evidence waits and gate blocks in one behaviour
  NoMission,  \* the mission of a session that is at work on none
  NoScope,    \* the scope of a key that does not carry one
  NoOutput    \* the output of a step the chain has not computed

CHAIN_INTENTS == {"reconciliation", "verify", "evidence"}

(* The inputs of a run the pipeline branches on: the scope it is bound to; *)
(* the tier derived from its materiality, if any is given; whether it      *)
(* names an approver, brings a trusted approval receipt, asks to resume.   *)
Run == [ scope : Scopes, tier : Tier,
         approver : BOOLEAN, trusted : BOOLEAN, resume : BOOLEAN ]

ASSUME ChainIntentsAssumption == Intents \subseteq CHAIN_INTENTS
ASSUME ScopesAssumption ==
  NoScope \notin Scopes /\ ModeOf \in [Scopes -> AuthorityMode]
ASSUME RunsAssumption        == Runs \subseteq Run
ASSUME OutputsAssumption     == NoOutput \notin Outputs
ASSUME ChainBoundsAssumption ==
  MaxFaults \in Nat /\ MaxDetours \in Nat /\ NoMission \notin Missions

VARIABLES
  snapshots,      \* .local/missions/snapshots: mission id -> Snapshot
  torn,           \* missions whose event log ends in a truncated line
  logged,         \* missions whose event log has an event
  idempotency,    \* .local/missions/idempotency: key -> its record
  authorizations, \* .local/authority: the records of each mission
  spoilt,         \* missions whose authority log ends in a truncated line
  receipts,       \* .local/receipts: the numbers of the stored receipts
  minted,         \* receipts signed so far, stored or not
  sess,           \* the run each session is executing
  faults,         \* crashes and I/O errors so far
  detours         \* evidence waits and gate blocks so far

missionStores == <<snapshots, torn, logged, idempotency>>
grants        == <<authorizations, spoilt>>
bounds        == <<faults, detours>>
vars == <<missionStores, grants, receipts, minted, sess, bounds>>

Authorization == [scope : Scopes, family : ACTION_FAMILY]

(* ChainDefinition: the flag of a chain, and the phases it may answer by    *)
(* throwing, by asking for evidence, or by an ERROR blocker.               *)
readOnly(intent) == intent = "verify"

MayThrow(intent, phase) ==
  \/ intent = "evidence"
  \/ intent = "verify" /\ phase \in {INGEST, NORMALIZE, RECONCILE, INVESTIGATE,
                                     VERIFY}
  \/ intent = "reconciliation" /\ phase \in {INGEST, NORMALIZE, RECONCILE,
                                             INVESTIGATE, PROPOSE}
MayWait(intent, phase)  == intent = "reconciliation" /\ phase \in {INGEST, RECONCILE}
MayAlarm(intent, phase) == intent = "reconciliation" /\ phase = RECONCILE
Warrants(intent, phase) == intent = "reconciliation" /\ phase = CLOSE

(***************************************************************************)
(* Sessions.  "base" is the snapshot the current operation was decided on, *)
(* "next" the one read last or about to be written; "output", "alarm" and  *)
(* "receipt" come from the chain's outcome.                                *)
(***************************************************************************)
Blank == Started("monthly-close")
NoRun == [scope |-> NoScope, tier |-> "none",
          approver |-> FALSE, trusted |-> FALSE, resume |-> FALSE]

Idle == [ pc |-> "idle", op |-> "none", mission |-> NoMission,
          phase |-> NoPhase, run |-> NoRun, startedNow |-> FALSE,
          base |-> Blank, next |-> Blank,
          output |-> NoOutput, alarm |-> FALSE, receipt |-> 0 ]

Become(s, w) == sess' = [sess EXCEPT ![s] = w]
Finish(s)    == Become(s, Idle)
Goto(s, pc)  == Become(s, [sess[s] EXCEPT !.pc = pc])

Working(s) == sess[s].pc # "idle"

(* Each kind of command hashes a target of its own into its key; the key   *)
(* of the approve command carries neither scope nor target.                *)
KeyOf(w) ==
  [ mission |-> w.mission, op |-> w.op, phase |-> w.phase,
    version |-> w.base.version,
    scope   |-> IF w.op = "approve" THEN NoScope ELSE w.run.scope,
    output  |-> IF w.op = "approve" THEN NoOutput ELSE w.output ]

Init ==
  /\ snapshots = <<>>
  /\ torn = {}
  /\ logged = {}
  /\ idempotency = <<>>
  /\ authorizations = [m \in Missions |-> {}]
  /\ spoilt = {}
  /\ receipts = {}
  /\ minted = 0
  /\ sess = [s \in Sessions |-> Idle]
  /\ faults = 0
  /\ detours = 0

(***************************************************************************)
(* Stages 2 to 4: the chain's mode, load or start the mission, derive the  *)
(* prepared step.                                                          *)
(***************************************************************************)
Active(intent) ==
  {m \in DOMAIN snapshots :
     /\ snapshots[m].intent = intent
     /\ snapshots[m].status \notin {"COMPLETED", "FAILED", "REJECTED"}}

(* Variant: the gate block is not one of the waits an approver resolves. *)
ResolvesAwaited(run, m) ==
  nextPendingPhase(m) = APPROVE /\ run.approver /\ m.status = "AWAITING_APPROVAL"

(* An explicit approver may resolve the approval from these two waits. *)
Resolves(run, m) ==
  /\ nextPendingPhase(m) = APPROVE
  /\ run.approver
  /\ m.status \in {"BLOCKED_BY_GATE", "AWAITING_APPROVAL"}

(* Variant: a mission that waits for evidence is resumed by any run. *)
ResumesUnasked(run, m) == m.status = "WAITING_FOR_EVIDENCE"

Resumes(run, m) == run.resume /\ m.status = "WAITING_FOR_EVIDENCE"

(* Where a run stands once it knows its mission: at the store call it does *)
(* next, or back at the prompt.                                            *)
Prepared(run, m, snapshot, startedNow) ==
  LET prepared == derivePreparedStep(snapshot)
      waits    == prepared.disposition = "WAIT"
      at       == [Idle EXCEPT !.mission = m, !.phase = prepared.phase,
                               !.run = run, !.base = snapshot]
  IN  CASE prepared.disposition = "SKIP" ->
             [at EXCEPT !.pc = "refresh", !.op = "skip"]
        [] waits /\ Resumes(run, snapshot) ->
             [at EXCEPT !.pc = "get", !.op = "resume"]
        [] waits /\ Resolves(run, snapshot) ->
             [at EXCEPT !.pc = "authorize", !.op = "resolve"]
        [] prepared.disposition = "RUN" ->
             [at EXCEPT !.pc = "authorize", !.op = "run", !.startedNow = startedNow]
        [] OTHER -> Idle

(* Below the chain's required mode nothing is touched. *)
BelowMode(s, run) ==
  /\ ~Working(s)
  /\ ModeOf[run.scope] < ANALYZE
  /\ UNCHANGED vars

MayBegin(s, run) ==
  /\ ~Working(s)
  /\ ModeOf[run.scope] >= ANALYZE
  /\ detours < MaxDetours \/ ~LacksApproval(run)

(* The most recently updated active mission; which one that is, is left open. *)
FindMission(s, intent, run) ==
  /\ MayBegin(s, run)
  /\ \E m \in Active(intent) : Become(s, Prepared(run, m, snapshots[m], FALSE))
  /\ UNCHANGED <<missionStores, grants, receipts, minted, bounds>>

FindNone(s, intent, run) ==
  /\ MayBegin(s, run)
  /\ Active(intent) = {}
  /\ Missions \ DOMAIN snapshots # {}
  /\ Become(s, [Idle EXCEPT !.pc = "start", !.op = "start", !.run = run,
                            !.next = Started(intent)])
  /\ UNCHANGED <<missionStores, grants, receipts, minted, bounds>>

(* MissionRuntime.start saves a planless DRAFT; its event comes next. *)
StartMission(s, m) ==
  LET w == sess[s] IN
  /\ w.pc = "start"
  /\ m \notin DOMAIN snapshots
  /\ snapshots' = Put(snapshots, m, w.next)
  /\ Become(s, [w EXCEPT !.pc = "append", !.mission = m])
  /\ UNCHANGED <<torn, logged, idempotency, grants, receipts, minted, bounds>>

(***************************************************************************)
(* Stage 5: find or persist the authorization bound to this very scope.    *)
(* A mission that was not started by this run is never authorized for a    *)
(* scope it has no authorization of yet.                                   *)
(***************************************************************************)
Family(w)  == familyForPhase(w.phase)
Bound(w)   == [scope |-> w.run.scope, family |-> Family(w)]

(* An unreadable authority log throws. *)
CannotRead(s) ==
  /\ sess[s].mission \in spoilt
  /\ Finish(s)

(* Variant: any authorization of the scope will do, whatever its family. *)
FindScopeAuthorization(s) ==
  LET w == sess[s] IN
  /\ w.pc = "authorize"
  /\ Goto(s, IF \E a \in authorizations[w.mission] : a.scope = w.run.scope
                THEN "gates"
                ELSE IF w.startedNow THEN "grant" ELSE "bound")
  /\ UNCHANGED <<missionStores, grants, receipts, minted, bounds>>

FindAuthorization(s) ==
  LET w == sess[s] IN
  /\ w.pc = "authorize"
  /\ \/ CannotRead(s)
     \/ /\ w.mission \notin spoilt
        /\ Goto(s, IF Bound(w) \in authorizations[w.mission] THEN "gates"
                   ELSE IF w.startedNow THEN "grant" ELSE "bound")
  /\ UNCHANGED <<missionStores, grants, receipts, minted, bounds>>

(* Variant: the scope a mission is bound to is not asked for. *)
ScopeUnbound(s) ==
  /\ sess[s].pc = "bound"
  /\ Goto(s, "grant")
  /\ UNCHANGED <<missionStores, grants, receipts, minted, bounds>>

ScopeBound(s) ==
  LET w == sess[s] IN
  /\ w.pc = "bound"
  /\ \/ CannotRead(s)
     \/ /\ w.mission \notin spoilt
        /\ \/ /\ \E a \in authorizations[w.mission] : a.scope = w.run.scope
              /\ Goto(s, "grant")
           \/ /\ \A a \in authorizations[w.mission] : a.scope # w.run.scope
              /\ Finish(s)
  /\ UNCHANGED <<missionStores, grants, receipts, minted, bounds>>

(* appendAuthorization: the id names mission and family, and a record that *)
(* has it already was issued at another time, so its bytes conflict.       *)
CheckConflict(s) ==
  LET w == sess[s] IN
  /\ w.pc = "grant"
  /\ \/ CannotRead(s)
     \/ /\ w.mission \notin spoilt
        /\ \/ /\ \E a \in authorizations[w.mission] : a.family = Family(w)
              /\ Finish(s)
           \/ /\ \A a \in authorizations[w.mission] : a.family # Family(w)
              /\ Goto(s, "enter")
  /\ UNCHANGED <<missionStores, grants, receipts, minted, bounds>>

AppendAuthorization(s) ==
  LET w == sess[s] IN
  /\ w.pc = "enter"
  /\ authorizations' = [authorizations EXCEPT ![w.mission] = @ \cup {Bound(w)}]
  /\ Goto(s, "gates")
  /\ UNCHANGED <<missionStores, spoilt, receipts, minted, bounds>>

(***************************************************************************)
(* Stage 6: the gates, on the snapshot the run began with.                 *)
(***************************************************************************)
RequestOf(w) ==
  [ mode     |-> ModeOf[w.run.scope],
    family   |-> Family(w),
    status   |-> w.base.status,
    tier     |-> w.run.tier,
    approver |-> w.run.approver,
    trusted  |-> w.run.trusted,
    readOnly |-> w.op = "run" /\ readOnly(w.base.intent) ]

Allowed(s) ==
  LET w == sess[s] IN
  /\ w.pc = "gates"
  /\ FirstBlocked(RequestOf(w)) = "none"
  /\ Become(s, IF w.op = "run" THEN [w EXCEPT !.pc = "compute"]
               ELSE IF w.base.status = "AWAITING_APPROVAL"
                 THEN [w EXCEPT !.pc = "get", !.op = "approve"]
                 ELSE [w EXCEPT !.pc = "get"])
  /\ UNCHANGED <<missionStores, grants, receipts, minted, bounds>>

(* A missing approval is recorded on the mission, any other block is not. *)
RecordsBlock(w) ==
  w.op = "run" /\ w.phase = APPROVE /\ FirstBlocked(RequestOf(w)) = "approval"

GateBlock(s) ==
  LET w == sess[s] IN
  /\ w.pc = "gates"
  /\ RecordsBlock(w)
  /\ Become(s, [w EXCEPT !.pc = "get", !.op = "gate"])
  /\ detours' = detours + 1
  /\ UNCHANGED <<missionStores, grants, receipts, minted, faults>>

Blocked(s) ==
  LET w == sess[s] IN
  /\ w.pc = "gates"
  /\ FirstBlocked(RequestOf(w)) # "none"
  /\ ~RecordsBlock(w)
  /\ Finish(s)
  /\ UNCHANGED <<missionStores, grants, receipts, minted, bounds>>

(***************************************************************************)
(* The chain's bounded computation, and the step it leads to: lifecycle    *)
(* phases and evidence waits through the engine, the rest phase-only.      *)
(***************************************************************************)
ComputeThrows(s) ==
  LET w == sess[s] IN
  /\ w.pc = "compute"
  /\ MayThrow(w.base.intent, w.phase)
  /\ Finish(s)
  /\ UNCHANGED <<missionStores, grants, receipts, minted, bounds>>

ComputeWaits(s) ==
  LET w == sess[s] IN
  /\ w.pc = "compute"
  /\ MayWait(w.base.intent, w.phase)
  /\ detours < MaxDetours
  /\ detours' = detours + 1
  /\ \E o \in Outputs : Become(s, [w EXCEPT !.pc = "get", !.op = "wait",
                                            !.output = o])
  /\ UNCHANGED <<missionStores, grants, receipts, minted, faults>>

(* A warranted receipt is signed before the mission is written, so that    *)
(* the snapshot can cite it, and stored after.                             *)
ComputeDone(s) ==
  LET w == sess[s]
      warranted == Warrants(w.base.intent, w.phase)
  IN
  /\ w.pc = "compute"
  /\ minted' = IF warranted THEN minted + 1 ELSE minted
  /\ \E o \in Outputs, alarm \in {FALSE, MayAlarm(w.base.intent, w.phase)} :
       LET done == [w EXCEPT !.output = o, !.alarm = alarm,
                             !.receipt = IF warranted THEN minted' ELSE 0]
       IN  Become(s, CASE w.phase \in {INTAKE, BIND_SCOPE, ARCHIVE} ->
                            [done EXCEPT !.pc = "get", !.op = "apply"]
                       [] w.phase = APPROVE ->
                            [done EXCEPT !.pc = "get", !.op = "ask"]
                       [] OTHER -> [done EXCEPT !.pc = "refresh"])
  /\ UNCHANGED <<missionStores, grants, receipts, bounds>>

(***************************************************************************)
(* phaseOnlyUpdate: read again, insist on the version, mutate, save, log.  *)
(***************************************************************************)
Completed(w, m) ==
  [completeStep(m, w.phase, "COMPLETED")
     EXCEPT !.alarmed  = m.alarmed \/ w.alarm,
            !.proposal = m.proposal \/ w.phase = PROPOSE,
            !.receipt  = IF w.receipt = 0 THEN m.receipt ELSE w.receipt]

Mutated(w, m) ==
  CASE w.op = "plan"     -> WithPlan(m)
    [] w.op = "skip"     -> completeStep(m, w.phase, "SKIPPED")
    [] w.op = "run"      -> Completed(w, m)
    [] w.op = "note"     -> m     \* a WARNING blocker
    [] w.op = "approved" -> completeStep(m, APPROVE, "COMPLETED")

Refresh(s) ==
  LET w   == sess[s]
      now == snapshots[w.mission]
  IN
  /\ w.pc = "refresh"
  /\ \/ /\ now.version # w.base.version
        /\ Finish(s)
     \/ /\ now.version = w.base.version
        /\ Become(s, [w EXCEPT !.pc = "save", !.next = Bump(Mutated(w, now))])
  /\ UNCHANGED <<missionStores, grants, receipts, minted, bounds>>

SaveSnapshot(s) ==
  LET w == sess[s] IN
  /\ w.pc = "save"
  /\ snapshots' = Put(snapshots, w.mission, w.next)
  /\ Goto(s, "append")
  /\ UNCHANGED <<torn, logged, idempotency, grants, receipts, minted, bounds>>

Commands == {"apply", "wait", "ask", "resolve", "gate", "resume", "approve"}

(* Variant: the receipt that was signed is not stored. *)
LogEventOnly(s) ==
  LET w == sess[s] IN
  /\ w.pc = "append"
  /\ logged' = logged \cup {w.mission}
  /\ Become(s, CASE w.op = "start" ->
                      [w EXCEPT !.pc = "refresh", !.op = "plan", !.base = w.next]
                 [] w.op = "plan" -> Prepared(w.run, w.mission, w.next, TRUE)
                 [] w.op \in Commands -> [w EXCEPT !.pc = "seal"]
                 [] OTHER -> Idle)
  /\ UNCHANGED <<snapshots, torn, idempotency, grants, receipts, minted, bounds>>

(* What is left of the run once its event is on disk. *)
LogEvent(s) ==
  LET w == sess[s] IN
  /\ w.pc = "append"
  /\ logged' = logged \cup {w.mission}
  /\ Become(s, CASE w.op = "start" ->
                      [w EXCEPT !.pc = "refresh", !.op = "plan", !.base = w.next]
                 [] w.op = "plan" -> Prepared(w.run, w.mission, w.next, TRUE)
                 [] w.op \in Commands -> [w EXCEPT !.pc = "seal"]
                 [] w.op = "run" /\ w.receipt # 0 -> [w EXCEPT !.pc = "receipt"]
                 [] OTHER -> Idle)
  /\ UNCHANGED <<snapshots, torn, idempotency, grants, receipts, minted, bounds>>

(* ReceiptStore.save, after everything else. *)
StoreReceipt(s) ==
  LET w == sess[s] IN
  /\ w.pc = "receipt"
  /\ receipts' = receipts \cup {w.receipt}
  /\ Finish(s)
  /\ UNCHANGED <<missionStores, grants, minted, bounds>>

(***************************************************************************)
(* MissionRuntime.apply with the registry of the pipeline.                 *)
(***************************************************************************)
Asked(m, phase) ==
  [markInProgress(m, phase) EXCEPT !.status = "WAITING_FOR_EVIDENCE",
                                   !.alarmed = TRUE]

(* The handler answers where a phase may RUN, for the lifecycle phases and *)
(* when the run asked for a wait; else the engine aims at RUNNING.         *)
CommandTarget(op, m) ==
  LET prepared == derivePreparedStep(m)
      runs     == prepared.disposition = "RUN"
      phase    == prepared.phase
  IN  CASE op = "approve" -> [m EXCEPT !.status = "APPROVED"]
        [] op # "approve" /\ runs /\ phase \in {INTAKE, BIND_SCOPE, ARCHIVE} ->
             genericIntentHandler(m, phase)
        [] op = "wait" /\ runs /\ phase \in {INGEST, RECONCILE} ->
             Asked(m, phase)
        [] op = "gate" /\ runs /\ phase = APPROVE ->
             [m EXCEPT !.status = "BLOCKED_BY_GATE", !.alarmed = TRUE]
        [] op \notin {"approve", "gate"} /\ runs /\ phase = APPROVE ->
             genericIntentHandler(m, APPROVE)
        [] OTHER -> [m EXCEPT !.status = "RUNNING"]

(* Variant: a command that asks for approval is taken for the approval. *)
AppliedEarly(w, snapshot) ==
  LET at == [w EXCEPT !.base = snapshot] IN
  CASE w.op = "wait" /\ w.phase = RECONCILE ->
         [at EXCEPT !.pc = "refresh", !.op = "note"]
    [] w.op \in {"ask", "resolve", "approve"} ->
         [at EXCEPT !.pc = "refresh", !.op = "approved"]
    [] OTHER -> Idle

(* What the run does with the snapshot a command returns. *)
Applied(w, snapshot) ==
  LET at == [w EXCEPT !.base = snapshot] IN
  CASE w.op = "wait" /\ w.phase = RECONCILE ->
         [at EXCEPT !.pc = "refresh", !.op = "note"]
    [] w.op \in {"ask", "resolve"} /\ snapshot.proposal ->
         [at EXCEPT !.pc = "get", !.op = "approve"]
    [] w.op = "approve" -> [at EXCEPT !.pc = "refresh", !.op = "approved"]
    [] OTHER -> Idle

Executing == [state |-> "EXECUTING", result |-> Blank]
Failed    == [state |-> "FAILED", result |-> Blank]
Sealed(m) == [state |-> "COMPLETED", result |-> m]

(* A record under the key is replayed: an error is thrown again, a cached  *)
(* snapshot returned, and for a record still EXECUTING the mission is      *)
(* reflected as it stands, if its log can be listed and is not empty.      *)
ReplayKey(s) ==
  LET w == sess[s]
      m == w.mission
  IN
  /\ w.pc = "get"
  /\ KeyOf(w) \in DOMAIN idempotency
  /\ LET record == idempotency[KeyOf(w)]
     IN  \/ /\ record.state = "COMPLETED"
            /\ Become(s, Applied(w, record.result))
         \/ /\ record.state = "EXECUTING" /\ m \notin torn /\ m \in logged
            /\ Become(s, Applied(w, snapshots[m]))
         \/ /\ \/ record.state = "FAILED"
               \/ record.state = "EXECUTING" /\ (m \in torn \/ m \notin logged)
            /\ Finish(s)
  /\ UNCHANGED <<missionStores, grants, receipts, minted, bounds>>

NewKey(s) ==
  /\ sess[s].pc = "get"
  /\ KeyOf(sess[s]) \notin DOMAIN idempotency
  /\ Goto(s, "load")
  /\ UNCHANGED <<missionStores, grants, receipts, minted, bounds>>

LoadMission(s) ==
  LET w == sess[s] IN
  /\ w.pc = "load"
  /\ Become(s, [w EXCEPT !.pc = "execute", !.next = snapshots[w.mission]])
  /\ UNCHANGED <<missionStores, grants, receipts, minted, bounds>>

(* EXECUTING first, then the version check, the handler, the legality check. *)
ExecuteCommand(s) ==
  LET w      == sess[s]
      target == CommandTarget(w.op, w.next)
      legal  == w.next.version = w.base.version /\ LegalTarget(w.next, target)
  IN
  /\ w.pc = "execute"
  /\ idempotency' = Put(idempotency, KeyOf(w), Executing)
  /\ \/ legal /\ Become(s, [w EXCEPT !.pc = "save", !.next = Bump(target)])
     \/ ~legal /\ Goto(s, "fail")
  /\ UNCHANGED <<snapshots, torn, logged, grants, receipts, minted, bounds>>

SealKey(s) ==
  LET w == sess[s] IN
  /\ w.pc = "seal"
  /\ idempotency' = Put(idempotency, KeyOf(w), Sealed(w.next))
  /\ Become(s, Applied(w, w.next))
  /\ UNCHANGED <<snapshots, torn, logged, grants, receipts, minted, bounds>>

FailKey(s) ==
  LET w == sess[s] IN
  /\ w.pc = "fail"
  /\ idempotency' = Put(idempotency, KeyOf(w), Failed)
  /\ Finish(s)
  /\ UNCHANGED <<snapshots, torn, logged, grants, receipts, minted, bounds>>

(***************************************************************************)
(* The environment: crashes, store calls that throw, expiring records.     *)
(***************************************************************************)
Cut(s, pc, damaged) ==
  IF sess[s].pc = pc THEN {damaged, damaged \cup {sess[s].mission}} ELSE {damaged}

Fault(s) ==
  /\ Working(s)
  /\ faults < MaxFaults
  /\ faults' = faults + 1
  /\ torn' \in Cut(s, "append", torn)
  /\ spoilt' \in Cut(s, "enter", spoilt)
  /\ UNCHANGED <<snapshots, logged, idempotency, authorizations, receipts,
                 minted, detours>>

Crash(s) == Fault(s) /\ Finish(s)

(* Inside the engine's execution an error is recorded under the key. *)
StoreError(s) ==
  /\ sess[s].op \in Commands
  /\ sess[s].pc \in {"save", "append", "seal"}
  /\ Fault(s)
  /\ Goto(s, "fail")

Expire(k) ==
  /\ k \in DOMAIN idempotency
  /\ \A s \in Sessions : KeyOf(sess[s]) = k => sess[s].pc \in {"idle", "get"}
  /\ idempotency' = [i \in DOMAIN idempotency \ {k} |-> idempotency[i]]
  /\ UNCHANGED <<snapshots, torn, logged, grants, receipts, minted, sess, bounds>>

(***************************************************************************)
(* The specification.                                                      *)
(***************************************************************************)
Begin(s, intent, run) ==
  FindMission(s, intent, run) \/ FindNone(s, intent, run)

Step(s) ==
  \/ \E m \in Missions : StartMission(s, m)
  \/ FindAuthorization(s) \/ ScopeBound(s) \/ CheckConflict(s)
  \/ AppendAuthorization(s)
  \/ Allowed(s) \/ GateBlock(s) \/ Blocked(s)
  \/ ComputeThrows(s) \/ ComputeWaits(s) \/ ComputeDone(s)
  \/ Refresh(s) \/ SaveSnapshot(s) \/ LogEvent(s) \/ StoreReceipt(s)
  \/ ReplayKey(s) \/ NewKey(s) \/ LoadMission(s) \/ ExecuteCommand(s)
  \/ SealKey(s) \/ FailKey(s)

Next ==
  \/ \E s \in Sessions :
       \/ \E i \in Intents, r \in Runs : Begin(s, i, r)
       \/ \E r \in Runs : BelowMode(s, r)
       \/ Step(s)
       \/ Crash(s)
       \/ StoreError(s)
  \/ \E k \in DOMAIN idempotency : Expire(k)

Spec == Init /\ [][Next]_vars

(***************************************************************************)
(* Types.                                                                  *)
(***************************************************************************)
Op == {"none", "start", "plan", "skip", "run", "note", "approved"} \cup Commands
PC == {"idle", "start", "authorize", "bound", "grant", "enter", "gates",
       "compute", "refresh", "save", "append", "receipt",
       "get", "load", "execute", "seal", "fail"}

Key == [ mission : Missions, op : Commands, phase : Phases, version : Nat,
         scope : Scopes \cup {NoScope}, output : Outputs \cup {NoOutput} ]

Record == [state : {"EXECUTING", "COMPLETED", "FAILED"}, result : Snapshot]

Session ==
  [ pc : PC, op : Op, mission : Missions \cup {NoMission},
    phase : Phases \cup {NoPhase}, run : Runs \cup {NoRun},
    startedNow : BOOLEAN, base : Snapshot, next : Snapshot,
    output : Outputs \cup {NoOutput}, alarm : BOOLEAN, receipt : Nat ]

Documents(f, names, docs) ==
  /\ f = [n \in DOMAIN f |-> f[n]]
  /\ DOMAIN f \subseteq names
  /\ \A n \in DOMAIN f : f[n] \in docs

(* Every store holds documents of its kind under names it may be asked for, *)
(* and every session is at a point of a run.                               *)
TypeOK ==
  /\ Documents(snapshots, Missions, Snapshot)
  /\ torn \subseteq Missions /\ logged \subseteq Missions
  /\ Documents(idempotency, Key, Record)
  /\ authorizations \in [Missions -> SUBSET Authorization]
  /\ spoilt \subseteq Missions
  /\ receipts \subseteq Nat /\ minted \in Nat
  /\ sess \in [Sessions -> Session]
  /\ faults \in Nat /\ detours \in Nat

(***************************************************************************)
(* Safety, whatever the number of sessions.                                *)
(***************************************************************************)

(* A mission is never silently re-authorized: all its authorizations are   *)
(* bound to one scope, that of the run that started it (REQ-SCOPE-006).    *)
OneScopePerMission ==
  \A m \in Missions : \A a, b \in authorizations[m] : a.scope = b.scope

(* A phase is completed only under a granted authorization of its action   *)
(* family, at an authority mode that family requires (REQ-AUTH-001).       *)
AuthorizedSteps ==
  \A m \in DOMAIN snapshots : \A p \in Phases :
    snapshots[m].steps[p] = "COMPLETED" =>
      \E a \in authorizations[m] :
        /\ a.family = familyForPhase(p)
        /\ ModeOf[a.scope] >= ACTION_REQUIRED_MODE[a.family]

(* The snapshot cites a receipt before the store has it; each fault costs  *)
(* at most one receipt, and an undisturbed run costs none.                 *)
Cited == {m \in DOMAIN snapshots : snapshots[m].receipt \notin receipts \cup {0}}

LostReceiptsBounded ==
  Cardinality(Cited) <=
    faults + Cardinality({s \in Sessions : sess[s].pc \in {"append", "receipt"}})

(***************************************************************************)
(* Safety of one session.                                                  *)
(***************************************************************************)
Cleared(r)   == r.tier # "none" /\ ~LacksApproval(r)
Governed(r)  == Cleared(r) /\ r.trusted
Resuming(r)  == r.resume
Approving(r) == r.approver

(* The run behind a write to mission m. *)
WrittenBy(m, ok(_)) == \E s \in Sessions : sess[s].mission = m /\ ok(sess[s].run)

Leaves(m, status) ==
  snapshots[m].status = status /\ snapshots'[m].status # status

Completes(m, p) ==
  snapshots'[m].steps[p] = "COMPLETED" /\ snapshots[m].steps[p] # "COMPLETED"

(* No ceremony, no effect: a mission turns APPROVED only by a run whose    *)
(* approvals satisfy its materiality, and a phase that executes completes  *)
(* only by a run that besides brings a trusted receipt, unless the chain   *)
(* is read-only (REQ-AUTH-008, REQ-AUTH-009).  The gates are passed on the *)
(* snapshot a run began with; of several sessions one may save what it     *)
(* made of an older one.                                                   *)
CeremonyEarned ==
  [][\A m \in DOMAIN snapshots :
       /\ snapshots'[m].status = "APPROVED" /\ snapshots[m].status # "APPROVED"
            => WrittenBy(m, Cleared)
       /\ (\E p \in EXECUTE .. ARCHIVE : Completes(m, p))
            => readOnly(snapshots[m].intent) \/ WrittenBy(m, Governed)]_snapshots

Open(m) == m.current # NoPhase

(* The plan is absent, or passed up to the current step and open after it. *)
InOrder(m) ==
  \/ m.current = NoPhase /\ \A p \in Phases : m.steps[p] = "ABSENT"
  \/ /\ m.current \in Phases
     /\ m.steps[m.current] # "ABSENT"
     /\ \A p \in Phases : p < m.current => m.steps[p] \in Passed
     /\ \A p \in Phases : p > m.current => m.steps[p] = "PENDING"

At(m, phases, marks) == m.current \in phases /\ m.steps[m.current] \in marks

(* The status says how far the plan is. *)
StatusAgrees(m) ==
  CASE m.status = "DRAFT" -> ~Open(m) \/ At(m, {INTAKE}, {"PENDING"})
    [] m.status = "QUEUED" -> At(m, {INTAKE}, Passed)
    [] m.status = "RUNNING" ->
         \/ At(m, BIND_SCOPE .. CLOSE, Passed)
         \/ At(m, {INGEST, RECONCILE}, {"IN_PROGRESS"})
    [] m.status = "WAITING_FOR_EVIDENCE" ->
         At(m, {INGEST, RECONCILE}, {"IN_PROGRESS"})
    [] m.status = "BLOCKED_BY_GATE" -> At(m, {VERIFY}, Passed)
    [] m.status = "AWAITING_APPROVAL" -> At(m, {APPROVE}, {"IN_PROGRESS"})
    [] m.status = "APPROVED" ->
         \/ At(m, {APPROVE}, {"IN_PROGRESS"})
         \/ At(m, APPROVE .. CLOSE, Passed)
    [] m.status = "COMPLETED" -> At(m, {ARCHIVE}, Passed)
    [] OTHER -> FALSE

(* A proposal goes with the ceremony, its absence with none of it.         *)
CeremonyKept(m) ==
  /\ \A p \in Phases : m.steps[p] = "SKIPPED" => p \in Conditional(m.intent)
  /\ m.proposal <=> m.steps[PROPOSE] = "COMPLETED"
  /\ m.proposal /\ m.steps[EXECUTE] \in Passed => m.steps[APPROVE] = "COMPLETED"
  /\ m.steps[APPROVE] = "COMPLETED" =>
       m.proposal /\ m.status \in {"APPROVED", "COMPLETED"}
  /\ m.receipt # 0 <=> m.steps[CLOSE] = "COMPLETED" /\ m.intent = "reconciliation"

SoundSnapshot(m) == InOrder(m) /\ StatusAgrees(m) /\ CeremonyKept(m)

(* Every stored snapshot, and every one an idempotency record would replay, *)
(* has its phases in order, a status that says how far they are, and its   *)
(* ceremony kept: the evidence waits, gate blocks, approvals, retries and  *)
(* crashes of a session leave nothing half done behind.                    *)
SnapshotsSound ==
  /\ \A m \in DOMAIN snapshots : SoundSnapshot(snapshots[m])
  /\ \A k \in DOMAIN idempotency :
       idempotency[k].state = "COMPLETED" => SoundSnapshot(idempotency[k].result)

(* A wait is left only by a run that asks for it: evidence by resuming, a  *)
(* gate by an approver, approval by a run whose materiality is satisfied   *)
(* (REQ-MISS-009).  Two sessions can break it: one asks for evidence while *)
(* the other, on the same version, completes the phase.                    *)
WaitsReleasedOnRequest ==
  [][\A m \in DOMAIN snapshots :
       /\ Leaves(m, "WAITING_FOR_EVIDENCE") => WrittenBy(m, Resuming)
       /\ Leaves(m, "BLOCKED_BY_GATE") => WrittenBy(m, Approving)
       /\ Leaves(m, "AWAITING_APPROVAL") => WrittenBy(m, Cleared)]_snapshots

(***************************************************************************)
(* The promise: each mission, seen through its stored snapshot and its     *)
(* authorizations, is a GovernedMission.                                   *)
(***************************************************************************)
Stored(m) == m \in DOMAIN snapshots

Promise(m) == INSTANCE GovernedMission WITH
  intent   <- IF Stored(m) THEN snapshots[m].intent ELSE "none",
  status   <- IF Stored(m) THEN snapshots[m].status ELSE "NONE",
  phase    <- IF Stored(m) THEN nextPendingPhase(snapshots[m]) ELSE NoPhase,
  proposal <- Stored(m) /\ snapshots[m].proposal,
  families <- {a.family : a \in authorizations[m]},
  scopes   <- {a.scope : a \in authorizations[m]}

(* With one session, the pipeline over its durable stores implements       *)
(* GovernedMission for every mission, through crashes, errors and retries. *)
KeepsPromise ==
  /\ \A m \in Missions : Promise(m)!Init
  /\ [][\A m \in Missions : [Promise(m)!Next]_(Promise(m)!governed)]_vars

(***************************************************************************)
(* Liveness.  A run once begun goes on (Node drains its queue); chains are *)
(* run again and again with everything they may ask for, and a computation *)
(* that is repeated eventually succeeds.                                   *)
(***************************************************************************)
Equipped(r) ==
  /\ ModeOf[r.scope] = EXECUTE_MODE /\ r.tier # "none" /\ ~LacksApproval(r)
  /\ r.approver /\ r.trusted /\ r.resume

FairSpec ==
  /\ Spec
  /\ \A s \in Sessions :
       WF_vars(Step(s)) /\ SF_vars(ComputeDone(s))
  /\ \A s \in Sessions, i \in Intents, r \in Runs :
       Equipped(r) => SF_vars(Begin(s, i, r))
  /\ WF_vars(\E k \in DOMAIN idempotency : Expire(k))

StatusOf(m) == IF Stored(m) THEN snapshots[m].status ELSE "NONE"

(* Without faults every mission a chain starts is completed, whatever      *)
(* evidence waits, gate blocks and failed computations lie on its way.     *)
ChainCompletes == \A m \in Missions : Stored(m) ~> StatusOf(m) = "COMPLETED"

(***************************************************************************)
(* What the repository says and the code does not do.                      *)
(***************************************************************************)

(* "then the approve command": an approve step is completed only on a      *)
(* mission that the command turned APPROVED.  What an EXECUTING record     *)
(* replays is the mission as it stands, approved or not.                   *)
ApprovedStepsApproved ==
  \A m \in DOMAIN snapshots :
    snapshots[m].steps[APPROVE] = "COMPLETED" =>
      snapshots[m].status \in {"APPROVED", "COMPLETED"}

=============================================================================
