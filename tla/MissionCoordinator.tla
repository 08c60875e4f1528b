------------------------- MODULE MissionCoordinator -------------------------
(***************************************************************************)
(* EdaMissionCoordinator over the file-backed mission stores: starting a   *)
(* mission, continuing it one phase at a time, and the restart recovery    *)
(* pass, with the engine's command pipeline underneath.                    *)
(*                                                                         *)
(* Each command is a chain of awaited store calls, and every one of them   *)
(* is a step of its own here, so that two sessions (two terminals on one   *)
(* workspace, or two overlapping commands) interleave between them, and a  *)
(* crash or an I/O error may fall between any two.                         *)
(***************************************************************************)
EXTENDS MissionProtocol, Sequences, FiniteSets

CONSTANTS
  Missions,   \* mission ids the engine may draw (random UUIDs: never reused)
  Sessions,   \* coordinators at work on the workspace
  Intents,    \* intents a session starts missions for
  Modes,      \* authority levels a scope may be bound at
  MaxFaults,  \* bound: crashes and I/O errors in one behaviour
  MaxLog,     \* bound: no command starts on a mission with this many events
  NoMission   \* the mission of a session that is at work on none

ASSUME IntentsAssumption == Intents \subseteq EDA_INTENTS
ASSUME ModesAssumption   == Modes \subseteq AuthorityMode
ASSUME BoundsAssumption  == MaxFaults \in Nat /\ MaxLog \in Nat
ASSUME NoMissionAssumption == NoMission \notin Missions

VARIABLES
  snapshots,   \* .local/missions/snapshots: mission id -> Snapshot
  events,      \* .local/missions/events: the snapshot each logged event carries
  torn,        \* missions whose log ends in a truncated line
  idempotency, \* .local/missions/idempotency: key -> state of its record
  recovery,    \* .local/missions/recovery: mission id -> unresolved reason
  sourceRefs,  \* sourceRefsByMission of each session (process memory)
  sess,        \* the command each session is executing
  faults       \* crashes and I/O errors so far

disk == <<snapshots, events, torn, idempotency, recovery>>
vars == <<disk, sourceRefs, sess, faults>>

(***************************************************************************)
(* Sessions.  "base" is the snapshot the command was decided on, "next"    *)
(* the one it has read last or is about to write; "todo" and "preserved"   *)
(* belong to recovery; "report" is the phase the last command said it      *)
(* completed.                                                              *)
(***************************************************************************)
Blank == Started("monthly-close")

Idle == [ pc |-> "idle", op |-> "none", mission |-> NoMission,
          phase |-> NoPhase, base |-> Blank, next |-> Blank,
          todo |-> {}, preserved |-> {}, report |-> NoPhase ]

Finish(s, phase) == sess' = [sess EXCEPT ![s] = [Idle EXCEPT !.report = phase]]

Working(s) == sess[s].pc # "idle"

KeyOf(w) == [mission |-> w.mission, phase |-> w.phase, version |-> w.base.version]

MayCommand(m) == Len(events[m]) < MaxLog

Init ==
  /\ snapshots = <<>>
  /\ events = [m \in Missions |-> <<>>]
  /\ torn = {}
  /\ idempotency = <<>>
  /\ recovery = <<>>
  /\ sourceRefs = [s \in Sessions |-> {}]
  /\ sess = [s \in Sessions |-> Idle]
  /\ faults = 0

(***************************************************************************)
(* start: MissionRuntime.start saves a planless DRAFT and logs it; the     *)
(* plan is then injected as a phase-only update.                           *)
(***************************************************************************)
StartMission(s, m, intent) ==
  /\ ~Working(s)
  /\ m \notin DOMAIN snapshots
  /\ snapshots' = Put(snapshots, m, Started(intent))
  /\ sess' = [sess EXCEPT ![s] =
                [Idle EXCEPT !.pc = "append", !.op = "start", !.mission = m,
                             !.next = Started(intent)]]
  /\ UNCHANGED <<events, torn, idempotency, recovery, sourceRefs, faults>>

(***************************************************************************)
(* advance: the decision, taken on a snapshot that is read once.           *)
(***************************************************************************)
Decide(s, m, pc, op) ==
  sess' = [sess EXCEPT ![s] =
             [Idle EXCEPT !.pc = pc, !.op = op, !.mission = m,
                          !.phase = derivePreparedStep(snapshots[m]).phase,
                          !.base = snapshots[m]]]

Advancing(s, m) == ~Working(s) /\ m \in DOMAIN snapshots /\ MayCommand(m)

(* Nothing prepared, a wait, or a bound mode below the phase's family. *)
ReportOnly(s, m, mode) ==
  /\ Advancing(s, m)
  /\ LET prepared == derivePreparedStep(snapshots[m])
     IN  \/ prepared.disposition \in {"NONE", "WAIT"}
         \/ /\ prepared.disposition \in {"RUN", "SKIP"}
            /\ mode < requiredModeFor(prepared.phase)
  /\ Finish(s, NoPhase)
  /\ UNCHANGED <<disk, sourceRefs, faults>>

Authorized(m, mode) ==
  LET prepared == derivePreparedStep(snapshots[m])
  IN  /\ prepared.disposition \in {"RUN", "SKIP"}
      /\ mode >= requiredModeFor(prepared.phase)

(* Variant: intake handled phase-only, like the steady-state phases. *)
ViaEngineButIntake(s, m, phase) ==
  \/ phase \in LifecyclePhases \ {INTAKE, INGEST}
  \/ phase = INGEST /\ m \notin sourceRefs[s]

(* The phases that go through the engine; ingest does so only without refs. *)
ViaEngine(s, m, phase) ==
  \/ phase \in LifecyclePhases \ {INGEST}
  \/ phase = INGEST /\ m \notin sourceRefs[s]

AdvanceSkip(s, m, mode) ==
  /\ Advancing(s, m)
  /\ Authorized(m, mode)
  /\ derivePreparedStep(snapshots[m]).disposition = "SKIP"
  /\ Decide(s, m, "refresh", "skip")
  /\ UNCHANGED <<disk, sourceRefs, faults>>

AdvancePhaseOnly(s, m, mode) ==
  /\ Advancing(s, m)
  /\ Authorized(m, mode)
  /\ LET prepared == derivePreparedStep(snapshots[m])
     IN  prepared.disposition = "RUN" /\ ~ViaEngine(s, m, prepared.phase)
  /\ Decide(s, m, "refresh", "run")
  /\ UNCHANGED <<disk, sourceRefs, faults>>

AdvanceCommand(s, m, mode) ==
  /\ Advancing(s, m)
  /\ Authorized(m, mode)
  /\ LET prepared == derivePreparedStep(snapshots[m])
     IN  prepared.disposition = "RUN" /\ ViaEngine(s, m, prepared.phase)
  /\ Decide(s, m, "get", "apply")
  /\ UNCHANGED <<disk, sourceRefs, faults>>

(***************************************************************************)
(* phaseOnlyUpdate: read again, insist on the version, mutate, save, log.  *)
(***************************************************************************)
Mutated(op, phase, m) ==
  CASE op = "plan" -> WithPlan(m)
    [] op = "skip" -> completeStep(m, phase, "SKIPPED")
    [] op = "run"  -> [completeStep(m, phase, "COMPLETED")
                         EXCEPT !.proposal = m.proposal \/ phase = PROPOSE]

Refresh(s) ==
  LET w == sess[s] IN
  /\ w.pc = "refresh"
  /\ \/ /\ snapshots[w.mission].version # w.base.version
        /\ Finish(s, NoPhase)
     \/ /\ snapshots[w.mission].version = w.base.version
        /\ sess' = [sess EXCEPT ![s].pc = "save",
                                ![s].next = Bump(Mutated(w.op, w.phase,
                                                         snapshots[w.mission]))]
  /\ UNCHANGED <<disk, sourceRefs, faults>>

(* FileMissionStore.save: the whole document, renamed into place. *)
SaveSnapshot(s) ==
  LET w == sess[s] IN
  /\ w.pc = "save"
  /\ snapshots' = Put(snapshots, w.mission, w.next)
  /\ sess' = [sess EXCEPT ![s].pc = "append"]
  /\ UNCHANGED <<events, torn, idempotency, recovery, sourceRefs, faults>>

(* Variant: only status changes are logged. *)
LoggedTransitions(m, snapshot) ==
  IF \/ m \in torn
     \/ events[m] # <<>> /\ events[m][Len(events[m])].status = snapshot.status
    THEN events
    ELSE [events EXCEPT ![m] = Append(events[m], snapshot)]

(* FileMissionEventStore.append; on a torn last line the new one is lost in it. *)
Logged(m, snapshot) ==
  IF m \in torn THEN events
                ELSE [events EXCEPT ![m] = Append(events[m], snapshot)]

(* What is left of the command once its event is on disk. *)
LogEvent(s) ==
  LET w == sess[s] IN
  /\ w.pc = "append"
  /\ events' = Logged(w.mission, w.next)
  /\ \/ /\ w.op = "start"
        /\ sess' = [sess EXCEPT ![s].pc = "refresh", ![s].op = "plan",
                                ![s].base = w.next]
        /\ \E given \in {{}, {w.mission}} :
             sourceRefs' = [sourceRefs EXCEPT ![s] = sourceRefs[s] \cup given]
     \/ /\ w.op \in {"plan", "skip", "run"}
        /\ Finish(s, w.phase)
        /\ UNCHANGED sourceRefs
     \/ /\ w.op = "apply"
        /\ sess' = [sess EXCEPT ![s].pc = "seal"]
        /\ UNCHANGED sourceRefs
     \/ /\ w.op = "recover"
        /\ sess' = [sess EXCEPT ![s] =
                      IF w.todo = {}
                        THEN [Idle EXCEPT !.preserved = w.preserved]
                        ELSE [w EXCEPT !.pc = "recover"]]
        /\ UNCHANGED sourceRefs
  /\ UNCHANGED <<snapshots, torn, idempotency, recovery, faults>>

(***************************************************************************)
(* MissionRuntime.apply.                                                   *)
(***************************************************************************)

(* The phase advance reports once apply returns: ingest went to a wait. *)
Claimed(phase) == IF phase = INGEST THEN NoPhase ELSE phase

LogReadable(m) == m \notin torn

(* A record under the key is replayed and never executed again: a cached   *)
(* error is thrown, a cached result returned, and for a record still       *)
(* EXECUTING the mission is reflected as it stands.                        *)
ReplayKey(s) ==
  LET w == sess[s] IN
  /\ w.pc = "get"
  /\ KeyOf(w) \in DOMAIN idempotency
  /\ \/ /\ idempotency[KeyOf(w)] = "FAILED"
        /\ Finish(s, NoPhase)
     \/ /\ idempotency[KeyOf(w)] = "COMPLETED"
        /\ Finish(s, Claimed(w.phase))
     \/ /\ idempotency[KeyOf(w)] = "EXECUTING"
        /\ Finish(s, IF LogReadable(w.mission) /\ events[w.mission] # <<>>
                       THEN Claimed(w.phase) ELSE NoPhase)
  /\ UNCHANGED <<disk, sourceRefs, faults>>

NewKey(s) ==
  LET w == sess[s] IN
  /\ w.pc = "get"
  /\ KeyOf(w) \notin DOMAIN idempotency
  /\ sess' = [sess EXCEPT ![s].pc = "load"]
  /\ UNCHANGED <<disk, sourceRefs, faults>>

LoadMission(s) ==
  LET w == sess[s] IN
  /\ w.pc = "load"
  /\ sess' = [sess EXCEPT ![s].pc = "execute", ![s].next = snapshots[w.mission]]
  /\ UNCHANGED <<disk, sourceRefs, faults>>

(* EXECUTING first, then the version check, the handler, the legality check. *)
ExecuteCommand(s) ==
  LET w      == sess[s]
      target == ExecuteTarget(w.next)
  IN
  /\ w.pc = "execute"
  /\ idempotency' = Put(idempotency, KeyOf(w), "EXECUTING")
  /\ \/ /\ w.next.version = w.base.version
        /\ LegalTarget(w.next, target)
        /\ sess' = [sess EXCEPT ![s].pc = "save", ![s].next = Bump(target)]
     \/ /\ \/ w.next.version # w.base.version
           \/ ~LegalTarget(w.next, target)
        /\ sess' = [sess EXCEPT ![s].pc = "fail"]
  /\ UNCHANGED <<snapshots, events, torn, recovery, sourceRefs, faults>>

SealKey(s) ==
  LET w == sess[s] IN
  /\ w.pc = "seal"
  /\ idempotency' = Put(idempotency, KeyOf(w), "COMPLETED")
  /\ Finish(s, Claimed(w.phase))
  /\ UNCHANGED <<snapshots, events, torn, recovery, sourceRefs, faults>>

FailKey(s) ==
  LET w == sess[s] IN
  /\ w.pc = "fail"
  /\ idempotency' = Put(idempotency, KeyOf(w), "FAILED")
  /\ Finish(s, NoPhase)
  /\ UNCHANGED <<snapshots, events, torn, recovery, sourceRefs, faults>>

(***************************************************************************)
(* recoverDurableMissions.  Any log that is missing or malformed aborts    *)
(* the pass; otherwise the missions whose last event is at the version of  *)
(* the snapshot are consistent, unresolved ones get a recovery record, and *)
(* the engine moves every RUNNING mission to UNKNOWN.  Listing, comparing  *)
(* and recording are one step here: they only read the mission's stores.   *)
(***************************************************************************)
LastEvent(m) ==
  LET top == CHOOSE i \in DOMAIN events[m] :
               /\ \A j \in DOMAIN events[m] :
                    events[m][j].version <= events[m][i].version
               /\ \A j \in DOMAIN events[m] :
                    events[m][j].version = events[m][i].version => j <= i
  IN  events[m][top]

Corrupt == {m \in DOMAIN snapshots : ~LogReadable(m) \/ events[m] = <<>>}

Consistent ==
  {m \in DOMAIN snapshots : LastEvent(m).version = snapshots[m].version}

isExecutionState(status) ==
  status \in {"DRAFT", "QUEUED", "RUNNING", "RECOVERING", "APPROVED",
              "REJECTED", "REVISION_REQUESTED"}

SomeExecuting == \E k \in DOMAIN idempotency : idempotency[k] = "EXECUTING"

Interrupted ==
  {m \in Consistent : SomeExecuting /\ isExecutionState(snapshots[m].status)}

Diverged == DOMAIN snapshots \ Consistent

Diagnosed ==
  [m \in DOMAIN recovery \cup Diverged \cup Interrupted |->
     IF m \in Diverged THEN "snapshot-ahead-of-events"
     ELSE IF m \in Interrupted THEN "executing-without-result"
     ELSE recovery[m]]

RecoverScan(s) ==
  /\ ~Working(s)
  /\ \A m \in DOMAIN snapshots : MayCommand(m)
  /\ \/ /\ Corrupt # {}
        /\ Finish(s, NoPhase)
        /\ UNCHANGED recovery
     \/ /\ Corrupt = {}
        /\ recovery' = Diagnosed
        /\ sess' = [sess EXCEPT ![s] = [Idle EXCEPT !.pc = "find", !.op = "recover",
                                                    !.preserved = Consistent]]
  /\ UNCHANGED <<snapshots, events, torn, idempotency, sourceRefs, faults>>

(* The missions of a set, each with its snapshot as it is now. *)
Read(found) == {[mission |-> m, snapshot |-> snapshots[m]] : m \in found}

(* Variant: recovery also takes the missions that wait for a human. *)
RecoverFindWaiting(s) ==
  LET found == {m \in DOMAIN snapshots :
                  snapshots[m].status \in {"RUNNING", "AWAITING_APPROVAL"}}
  IN
  /\ sess[s].pc = "find"
  /\ sess' = [sess EXCEPT ![s] =
                IF found = {}
                  THEN [Idle EXCEPT !.preserved = sess[s].preserved]
                  ELSE [sess[s] EXCEPT !.pc = "recover",
                                       !.preserved = sess[s].preserved \ found,
                                       !.todo = Read(found)]]
  /\ UNCHANGED <<disk, sourceRefs, faults>>

(* recoverIncomplete finds the missions whose status may become UNKNOWN. *)
RecoverFind(s) ==
  LET running == {m \in DOMAIN snapshots : snapshots[m].status = "RUNNING"}
      left    == sess[s].preserved \ running
  IN
  /\ sess[s].pc = "find"
  /\ sess' = [sess EXCEPT ![s] =
                IF running = {}
                  THEN [Idle EXCEPT !.preserved = left]
                  ELSE [sess[s] EXCEPT !.pc = "recover", !.preserved = left,
                                       !.todo = Read(running)]]
  /\ UNCHANGED <<disk, sourceRefs, faults>>

Forgotten(m) == Bump([m EXCEPT !.status = "UNKNOWN"])

RecoverSave(s) ==
  LET w == sess[s] IN
  /\ w.pc = "recover"
  /\ \E found \in w.todo :
       /\ snapshots' = Put(snapshots, found.mission, Forgotten(found.snapshot))
       /\ sess' = [sess EXCEPT ![s] =
                     [w EXCEPT !.pc = "append", !.mission = found.mission,
                               !.next = Forgotten(found.snapshot),
                               !.todo = w.todo \ {found}]]
  /\ UNCHANGED <<events, torn, idempotency, recovery, sourceRefs, faults>>

(***************************************************************************)
(* The environment.  A process may die at any await, and loses its memory; *)
(* if it was appending, part of the line may be on disk.  A store call may *)
(* throw: inside apply the command is then recorded as FAILED, elsewhere   *)
(* the command just ends.  A record is retained for 24 hours: no command   *)
(* stays half done that long, so it does not expire under one.             *)
(***************************************************************************)
Tear(s) ==
  IF sess[s].pc = "append" THEN {torn, torn \cup {sess[s].mission}} ELSE {torn}

Crash(s) ==
  /\ faults < MaxFaults
  /\ faults' = faults + 1
  /\ torn' \in Tear(s)
  /\ sess' = [sess EXCEPT ![s] = Idle]
  /\ sourceRefs' = [sourceRefs EXCEPT ![s] = {}]
  /\ UNCHANGED <<snapshots, events, idempotency, recovery>>

(* Variant: an error of the append is swallowed. *)
StoreErrorSwallowed(s) ==
  LET w == sess[s] IN
  /\ Working(s)
  /\ faults < MaxFaults
  /\ faults' = faults + 1
  /\ torn' \in Tear(s)
  /\ sess' = [sess EXCEPT ![s] =
                IF w.op = "apply" /\ w.pc = "append"
                  THEN [w EXCEPT !.pc = "seal"]
                  ELSE Idle]
  /\ UNCHANGED <<snapshots, events, idempotency, recovery, sourceRefs>>

StoreError(s) ==
  LET w == sess[s] IN
  /\ Working(s)
  /\ faults < MaxFaults
  /\ faults' = faults + 1
  /\ torn' \in Tear(s)
  /\ sess' = [sess EXCEPT ![s] =
                IF w.op = "apply" /\ w.pc \in {"save", "append", "seal"}
                  THEN [w EXCEPT !.pc = "fail"]
                  ELSE Idle]
  /\ UNCHANGED <<snapshots, events, idempotency, recovery, sourceRefs>>

(* Variant: a record that has expired is still served. *)
ExpireServed(k) ==
  /\ k \in DOMAIN idempotency
  /\ UNCHANGED vars

Expire(k) ==
  /\ k \in DOMAIN idempotency
  /\ \A s \in Sessions : KeyOf(sess[s]) = k => sess[s].pc \in {"idle", "get"}
  /\ idempotency' = [i \in DOMAIN idempotency \ {k} |-> idempotency[i]]
  /\ UNCHANGED <<snapshots, events, torn, recovery, sourceRefs, sess, faults>>

(***************************************************************************)
(* The specification.                                                      *)
(***************************************************************************)
Step(s) ==
  \/ Refresh(s) \/ SaveSnapshot(s) \/ LogEvent(s)
  \/ ReplayKey(s) \/ NewKey(s) \/ LoadMission(s)
  \/ ExecuteCommand(s) \/ SealKey(s) \/ FailKey(s)
  \/ RecoverFind(s) \/ RecoverSave(s)

Advance(s, m, mode) ==
  \/ ReportOnly(s, m, mode)
  \/ AdvanceSkip(s, m, mode)
  \/ AdvancePhaseOnly(s, m, mode)
  \/ AdvanceCommand(s, m, mode)

Next ==
  \/ \E s \in Sessions :
       \/ \E m \in Missions, i \in Intents : StartMission(s, m, i)
       \/ \E m \in Missions, mode \in Modes : Advance(s, m, mode)
       \/ Step(s)
       \/ RecoverScan(s)
       \/ Crash(s)
       \/ StoreError(s)
  \/ \E k \in DOMAIN idempotency : Expire(k)

Spec == Init /\ [][Next]_vars

(***************************************************************************)
(* Types.                                                                  *)
(***************************************************************************)
Key == [mission : Missions, phase : Phases \cup {NoPhase}, version : Nat]

Documents(f, names, docs) ==
  /\ f = [n \in DOMAIN f |-> f[n]]
  /\ DOMAIN f \subseteq names
  /\ \A n \in DOMAIN f : f[n] \in docs

PC == {"idle", "refresh", "save", "append", "get", "load", "execute", "seal",
       "fail", "find", "recover"}
Op == {"none", "start", "plan", "skip", "run", "apply", "recover"}

Session ==
  [ pc        : PC,
    op        : Op,
    mission   : Missions \cup {NoMission},
    phase     : Phases \cup {NoPhase},
    base      : Snapshot,
    next      : Snapshot,
    todo      : SUBSET [mission : Missions, snapshot : Snapshot],
    preserved : SUBSET Missions,
    report    : Phases \cup {NoPhase} ]

(* Every store holds documents of its kind under names it may be asked for, *)
(* and every session is at a point of a command.                           *)
TypeOK ==
  /\ Documents(snapshots, Missions, Snapshot)
  /\ events \in [Missions -> Seq(Snapshot)]
  /\ torn \subseteq Missions
  /\ Documents(idempotency, Key, {"EXECUTING", "COMPLETED", "FAILED"})
  /\ Documents(recovery, Missions,
               {"snapshot-ahead-of-events", "executing-without-result"})
  /\ sourceRefs \in [Sessions -> SUBSET Missions]
  /\ sess \in [Sessions -> Session]
  /\ faults \in Nat

(***************************************************************************)
(* Safety.                                                                 *)
(***************************************************************************)

(* The plan of a snapshot: absent, or passed up to the current step, open  *)
(* after it.                                                               *)
InOrder(m) ==
  \/ /\ m.current = NoPhase
     /\ \A p \in Phases : m.steps[p] = "ABSENT"
  \/ /\ m.current \in Phases
     /\ m.steps[m.current] # "ABSENT"
     /\ \A p \in Phases : p < m.current => m.steps[p] \in Passed
     /\ \A p \in Phases : p > m.current => m.steps[p] = "PENDING"

(* The status says how far the plan is. *)
StatusAgrees(m) ==
  CASE m.status = "DRAFT" ->
         m.current = NoPhase \/ (m.current = INTAKE /\ m.steps[INTAKE] = "PENDING")
    [] m.status = "QUEUED" ->
         m.current = INTAKE /\ m.steps[INTAKE] \in Passed
    [] m.status \in {"RUNNING", "UNKNOWN"} ->
         m.current \in BIND_SCOPE .. CLOSE /\ m.steps[m.current] \in Passed
    [] m.status = "WAITING_FOR_EVIDENCE" ->
         m.current = INGEST /\ m.steps[INGEST] = "IN_PROGRESS"
    [] m.status = "AWAITING_APPROVAL" ->
         m.current = APPROVE /\ m.steps[APPROVE] = "IN_PROGRESS"
    [] m.status = "COMPLETED" ->
         m.current = ARCHIVE /\ m.steps[ARCHIVE] \in Passed
    [] OTHER -> FALSE

(* Only conditional phases are skipped, and a mission that carries a       *)
(* proposal never gets past approval without asking for it.                *)
CeremonyKept(m) ==
  /\ \A p \in Phases : m.steps[p] = "SKIPPED" => p \in Conditional(m.intent)
  /\ m.proposal <=> m.steps[PROPOSE] = "COMPLETED"
  /\ m.steps[APPROVE] \in Passed =>
       ~m.proposal /\ m.steps[APPROVE] = "SKIPPED"

SoundSnapshot(m) == InOrder(m) /\ StatusAgrees(m) /\ CeremonyKept(m)

(* Every snapshot on disk, and every one an event carries, has its phases  *)
(* in order, a status that says how far they are, and its ceremony kept,   *)
(* whatever a session's crashes, retries and recovery passes leave behind. *)
(* Two sessions can break it: both may save the same version, and a third  *)
(* write then passes a version check that compares numbers only.           *)
SnapshotsSound ==
  /\ \A m \in DOMAIN snapshots : SoundSnapshot(snapshots[m])
  /\ \A m \in Missions : \A i \in DOMAIN events[m] : SoundSnapshot(events[m][i])

(* Two commands never write the same version of a mission: its event log   *)
(* rises strictly.  Holds for one session; the version check, the key and  *)
(* the save are separate awaits, so two sessions can break it.             *)
OneEventPerVersion ==
  \A m \in Missions : \A i, j \in DOMAIN events[m] :
    i < j => events[m][i].version < events[m][j].version

(* What recovery takes for granted when it compares version numbers only:  *)
(* a last event at the version of the snapshot carries that snapshot.      *)
EqualVersionsAgree ==
  \A m \in DOMAIN snapshots \ torn :
    events[m] # <<>> /\ LastEvent(m).version = snapshots[m].version
      => LastEvent(m) = snapshots[m]

AboutToLog(m) ==
  {s \in Sessions : sess[s].pc = "append" /\ sess[s].mission = m}

(* Save comes before append, so a fault may cost an event; but each fault  *)
(* costs at most one, and an undisturbed command costs none.               *)
LostEventsBounded ==
  \A m \in DOMAIN snapshots \ torn :
    snapshots[m].version - Len(events[m]) <= faults + Cardinality(AboutToLog(m))

(* A key is COMPLETED only once the transition it stands for is logged:    *)
(* a replayed success never covers for a write that did not happen.        *)
CompletedKeysLogged ==
  \A k \in DOMAIN idempotency :
    idempotency[k] = "COMPLETED" /\ k.mission \notin torn =>
      \E i \in DOMAIN events[k.mission] :
        events[k.mission][i].version = k.version + 1

(* A mission that waits for a human, is of unknown outcome or is terminal  *)
(* is not written by any command, retry or recovery pass (REQ-MISS-009).   *)
WaitsHeld ==
  [][\A m \in DOMAIN snapshots :
       snapshots[m].status \in Waiting \cup {"COMPLETED"} =>
         snapshots'[m] = snapshots[m]]_snapshots

(***************************************************************************)
(* The promise: each mission, seen through its stored snapshot alone, is   *)
(* an EdaMission.                                                          *)
(***************************************************************************)
StoredIntent(m) == IF m \in DOMAIN snapshots THEN snapshots[m].intent ELSE "none"
StoredStatus(m) == IF m \in DOMAIN snapshots THEN snapshots[m].status ELSE "NONE"
StoredPhase(m) ==
  IF m \in DOMAIN snapshots THEN nextPendingPhase(snapshots[m]) ELSE NoPhase

Promise(m) == INSTANCE EdaMission WITH intent <- StoredIntent(m),
                                       status <- StoredStatus(m),
                                       phase  <- StoredPhase(m)

(* With one session, the durable coordinator implements EdaMission for     *)
(* every mission, through crashes, I/O errors, retries and recovery.       *)
KeepsPromise ==
  /\ \A m \in Missions : Promise(m)!Init
  /\ [][\A m \in Missions : [Promise(m)!Next]_(Promise(m)!lifecycle)]_vars

(***************************************************************************)
(* Liveness.  A started command runs to its end (Node drains its queue);   *)
(* the operator keeps asking to continue and is not shut out for ever by   *)
(* other commands; idempotency records expire.                             *)
(***************************************************************************)
Continue(s, m) ==
  \/ AdvanceSkip(s, m, EXECUTE_MODE)
  \/ AdvancePhaseOnly(s, m, EXECUTE_MODE)
  \/ AdvanceCommand(s, m, EXECUTE_MODE)

ExpireSome == \E k \in DOMAIN idempotency : Expire(k)

FairSpec ==
  /\ Spec
  /\ \A s \in Sessions : WF_vars(Step(s))
  /\ \A s \in Sessions, m \in Missions : SF_vars(Continue(s, m))
  /\ WF_vars(ExpireSome)

Planned(m) == m \in DOMAIN snapshots /\ snapshots[m].current # NoPhase
Settled(m) ==
  m \in DOMAIN snapshots /\ snapshots[m].status \in Waiting \cup {"COMPLETED"}

(* A mission that has its plan, and is continued for as long as it lets    *)
(* itself be, ends or comes to a wait, whatever keys a crash left behind.  *)
PlannedMissionsSettle == \A m \in Missions : Planned(m) ~> Settled(m)

=============================================================================
