---------------------- MODULE MissionCoordinatorProofs ----------------------
(***************************************************************************)
(* What MissionCoordinator keeps for every set of missions, sessions,      *)
(* intents and modes, any number of faults and any length of the logs.     *)
(***************************************************************************)
EXTENDS MissionCoordinator, MissionProtocolProofs, FiniteSetTheorems

(***************************************************************************)
(* Type correctness.  It is not inductive alone: a session reads and       *)
(* writes the mission it is at work on without asking whether it exists.   *)
(***************************************************************************)
AtMission == {"refresh", "save", "append", "get", "load", "execute", "seal", "fail"}

Placed(w, names) ==
  /\ w.pc \in AtMission => w.mission \in names
  /\ w.pc = "refresh" => w.op \in {"plan", "skip", "run"}
  /\ w.op \in {"skip", "run"} => w.phase \in Phases

AllPlaced == \A s \in Sessions : Placed(sess[s], DOMAIN snapshots)

SessionsOK == sess \in [Sessions -> Session]

StoresOK ==
  /\ Documents(snapshots, Missions, Snapshot)
  /\ events \in [Missions -> Seq(Snapshot)]
  /\ torn \subseteq Missions
  /\ Documents(idempotency, Key, {"EXECUTING", "COMPLETED", "FAILED"})
  /\ Documents(recovery, Missions,
               {"snapshot-ahead-of-events", "executing-without-result"})
  /\ sourceRefs \in [Sessions -> SUBSET Missions]
  /\ faults \in Nat

TypeInv == StoresOK /\ SessionsOK /\ AllPlaced

(* A session at rest is one whatever it reports. *)
LEMMA IdleOK ==
  ASSUME NEW phase \in Phases \cup {NoPhase}, NEW kept \in SUBSET Missions
  PROVE  /\ [Idle EXCEPT !.report = phase] \in Session
         /\ [Idle EXCEPT !.preserved = kept] \in Session
         /\ Idle \in Session
<1>1. Blank \in Snapshot
  BY StartedType DEF Blank, EdaIntent, EDA_INTENTS
<1>2. Idle \in Session
  BY <1>1 DEF Session, Idle, PC, Op
<1>3. [Idle EXCEPT !.report = phase] \in Session
  BY <1>2 DEF Session
<1>4. [Idle EXCEPT !.preserved = kept] \in Session
  BY <1>2 DEF Session
<1>5. QED
  BY <1>2, <1>3, <1>4

(* A session that moves, while no mission disappears, leaves the others be. *)
LEMMA SessionMoves ==
  ASSUME TypeInv, NEW s \in Sessions, NEW w,
         sess' = [sess EXCEPT ![s] = w],
         w \in Session, Placed(w, DOMAIN snapshots'),
         DOMAIN snapshots \subseteq DOMAIN snapshots'
  PROVE  SessionsOK' /\ AllPlaced'
<1>1. /\ DOMAIN sess' = Sessions
      /\ sess' = [t \in Sessions |-> sess'[t]]
      /\ sess'[s] = w
      /\ \A t \in Sessions \ {s} : sess'[t] = sess[t]
  BY DEF TypeInv, StoresOK, SessionsOK
<1>2. \A t \in Sessions : sess'[t] \in Session
  BY <1>1 DEF TypeInv, StoresOK, SessionsOK
<1>3. \A t \in Sessions : Placed(sess'[t], DOMAIN snapshots')
  BY <1>1 DEF TypeInv, AllPlaced, Placed
<1>4. QED
  BY <1>1, <1>2, <1>3 DEF SessionsOK, AllPlaced

(* Ending a command is such a move. *)
LEMMA FinishMoves ==
  ASSUME TypeInv, NEW s \in Sessions, NEW phase \in Phases \cup {NoPhase},
         Finish(s, phase), DOMAIN snapshots \subseteq DOMAIN snapshots'
  PROVE  SessionsOK' /\ AllPlaced'
<1>1. [Idle EXCEPT !.report = phase] \in Session
  BY IdleOK
<1>2. Placed([Idle EXCEPT !.report = phase], DOMAIN snapshots')
  BY DEF Placed, Idle, AtMission
<1>3. QED
  BY <1>1, <1>2, SessionMoves DEF Finish

(* One more document in a store, or one replaced. *)
LEMMA PutType ==
  ASSUME NEW f, NEW names, NEW docs, NEW n \in names, NEW d \in docs,
         Documents(f, names, docs)
  PROVE  /\ Documents(Put(f, n, d), names, docs)
         /\ DOMAIN f \subseteq DOMAIN Put(f, n, d)
         /\ n \in DOMAIN Put(f, n, d)
  BY DEF Put, Documents

(* A prepared phase is a phase or none. *)
LEMMA DecidedPhase ==
  ASSUME NEW m \in Snapshot
  PROVE  /\ derivePreparedStep(m).phase \in Phases \cup {NoPhase}
         /\ derivePreparedStep(m).disposition \in {"SKIP", "RUN"} =>
              derivePreparedStep(m).phase \in Phases
  BY PreparedStep

(* A phase-only mutation writes a snapshot. *)
LEMMA MutatedType ==
  ASSUME NEW op \in {"plan", "skip", "run"}, NEW m \in Snapshot,
         NEW phase \in Phases \cup {NoPhase},
         op \in {"skip", "run"} => phase \in Phases
  PROVE  Mutated(op, phase, m) \in Snapshot
<1>1. CASE op = "plan"
  BY <1>1, WithPlanType DEF Mutated
<1>2. CASE op = "skip"
  BY <1>2, CompleteStepType DEF Mutated, StepStatus
<1>3. CASE op = "run"
  <2>1. completeStep(m, phase, "COMPLETED") \in Snapshot
    BY <1>3, CompleteStepType DEF StepStatus
  <2>2. (m.proposal \/ phase = PROPOSE) \in BOOLEAN
    OBVIOUS
  <2>3. \A x \in Snapshot, b \in BOOLEAN : [x EXCEPT !.proposal = b] \in Snapshot
    BY DEF Snapshot
  <2>4. Mutated(op, phase, m) =
          [completeStep(m, phase, "COMPLETED")
             EXCEPT !.proposal = m.proposal \/ phase = PROPOSE]
    BY <1>3 DEF Mutated
  <2>5. QED
    BY <2>1, <2>2, <2>3, <2>4
<1>4. QED
  BY <1>1, <1>2, <1>3

(* Moving on inside a command keeps a session a session. *)
LEMMA WorkOK ==
  ASSUME NEW w, w \in Session, NEW pc \in PC, NEW snapshot \in Snapshot,
         NEW op \in Op
  PROVE  /\ [w EXCEPT !.pc = pc] \in Session
         /\ [w EXCEPT !.pc = pc, !.next = snapshot] \in Session
         /\ [w EXCEPT !.pc = pc, !.op = op, !.base = snapshot] \in Session
<1>1. [w EXCEPT !.pc = pc] \in Session
  BY DEF Session
<1>2. [w EXCEPT !.pc = pc, !.next = snapshot] \in Session
  BY DEF Session
<1>3. [w EXCEPT !.pc = pc, !.op = op, !.base = snapshot] \in Session
  BY DEF Session
<1>4. QED
  BY <1>1, <1>2, <1>3

(* Beginning a command makes a session one. *)
LEMMA BeginOK ==
  ASSUME NEW pc \in PC, NEW op \in Op, NEW m \in Missions,
         NEW phase \in Phases \cup {NoPhase}, NEW snapshot \in Snapshot
  PROVE  /\ [Idle EXCEPT !.pc = pc, !.op = op, !.mission = m,
                                   !.next = snapshot] \in Session
         /\ [Idle EXCEPT !.pc = pc, !.op = op, !.mission = m,
                                   !.phase = phase, !.base = snapshot] \in Session
<1>0. Idle \in Session
  BY IdleOK DEF Phases, NoPhase
<1>1. [Idle EXCEPT !.pc = pc, !.op = op, !.mission = m,
                             !.next = snapshot] \in Session
  BY <1>0 DEF Session
<1>2. [Idle EXCEPT !.pc = pc, !.op = op, !.mission = m,
                             !.phase = phase, !.base = snapshot] \in Session
  BY <1>0 DEF Session
<1>3. QED
  BY <1>1, <1>2

(* The decision of an advance is such a beginning, of the right kind. *)
LEMMA DecideMoves ==
  ASSUME TypeInv, NEW s \in Sessions, NEW m \in DOMAIN snapshots,
         NEW pc \in {"refresh", "get"}, NEW op \in {"skip", "run", "apply"},
         pc = "refresh" => op \in {"skip", "run"},
         derivePreparedStep(snapshots[m]).disposition \in {"SKIP", "RUN"},
         Decide(s, m, pc, op), UNCHANGED snapshots
  PROVE  SessionsOK' /\ AllPlaced'
<1> DEFINE prepared == derivePreparedStep(snapshots[m])
           w == [Idle EXCEPT !.pc = pc, !.op = op, !.mission = m,
                             !.phase = prepared.phase, !.base = snapshots[m]]
<1>1. snapshots[m] \in Snapshot /\ m \in Missions
  BY DEF TypeInv, StoresOK, SessionsOK, Documents
<1>2. prepared.phase \in Phases
  BY <1>1, DecidedPhase
<1>3. pc \in PC /\ op \in Op
  BY DEF PC, Op
<1>4. w \in Session
  BY <1>1, <1>2, <1>3, BeginOK
<1>5. w.pc = pc /\ w.op = op /\ w.mission = m /\ w.phase = prepared.phase
  BY DEF Idle
<1>6. Placed(w, DOMAIN snapshots')
  BY <1>2, <1>5 DEF Placed
<1>7. sess' = [sess EXCEPT ![s] = w]
  BY DEF Decide
<1>8. QED
  BY <1>4, <1>6, <1>7, SessionMoves

(* A command on a mission asks for a key. *)
LEMMA KeyOK ==
  ASSUME NEW w \in Session, w.mission \in Missions
  PROVE  KeyOf(w) \in Key
<1>1. w.base.version \in Nat
  BY DEF Session, Snapshot
<1>2. QED
  BY <1>1 DEF KeyOf, Key, Session

LEMMA TypeInit == Init => TypeInv
<1> SUFFICES ASSUME Init PROVE TypeInv
  OBVIOUS
<1>1. Idle \in Session
  BY IdleOK DEF Phases, NoPhase
<1>2. /\ Documents(snapshots, Missions, Snapshot)
      /\ Documents(idempotency, Key, {"EXECUTING", "COMPLETED", "FAILED"})
      /\ Documents(recovery, Missions,
                   {"snapshot-ahead-of-events", "executing-without-result"})
  BY DEF Init, Documents
<1>3. StoresOK /\ SessionsOK
  BY <1>1, <1>2, BoundsAssumption DEF Init, StoresOK, SessionsOK
<1>4. \A s \in Sessions : sess[s].pc = "idle" /\ sess[s].op = "none"
  BY DEF Init, Idle
<1>5. AllPlaced
  BY <1>4 DEF AllPlaced, Placed, AtMission
<1>6. QED
  BY <1>3, <1>5 DEF TypeInv

(* Starting and continuing a mission. *)
LEMMA TypeBegin ==
  ASSUME TypeInv, NEW s \in Sessions, NEW m \in Missions,
         \/ \E i \in Intents : StartMission(s, m, i)
         \/ \E mode \in Modes : Advance(s, m, mode)
  PROVE  TypeInv'
<1> USE DEF TypeInv
<1>1. ASSUME NEW i \in Intents, StartMission(s, m, i) PROVE TypeInv'
  <2> DEFINE w == [Idle EXCEPT !.pc = "append", !.op = "start", !.mission = m,
                               !.next = Started(i)]
  <2>1. Started(i) \in Snapshot
    BY StartedType, IntentsAssumption DEF EdaIntent
  <2>2. /\ Documents(snapshots', Missions, Snapshot)
        /\ DOMAIN snapshots \subseteq DOMAIN snapshots'
        /\ m \in DOMAIN snapshots'
    BY <1>1, <2>1, PutType DEF StartMission, StoresOK
  <2>3. w \in Session
    BY <2>1, BeginOK DEF PC, Op, Phases, NoPhase
  <2>4. w.pc = "append" /\ w.op = "start" /\ w.mission = m
    BY DEF Idle
  <2>5. Placed(w, DOMAIN snapshots')
    BY <2>2, <2>4 DEF Placed
  <2>6. SessionsOK' /\ AllPlaced'
    BY <1>1, <2>2, <2>3, <2>5, SessionMoves DEF StartMission
  <2>7. StoresOK'
    BY <1>1, <2>2 DEF StartMission, StoresOK
  <2>8. QED
    BY <2>6, <2>7
<1>2. ASSUME NEW mode \in Modes, ReportOnly(s, m, mode) PROVE TypeInv'
  <2>1. SessionsOK' /\ AllPlaced'
    BY <1>2, FinishMoves DEF ReportOnly, disk
  <2>2. QED
    BY <1>2, <2>1 DEF ReportOnly, disk, StoresOK
<1>3. ASSUME NEW mode \in Modes, AdvanceSkip(s, m, mode) PROVE TypeInv'
  <2>1. SessionsOK' /\ AllPlaced'
    BY <1>3, DecideMoves DEF AdvanceSkip, Advancing, Authorized, disk
  <2>2. QED
    BY <1>3, <2>1 DEF AdvanceSkip, disk, StoresOK
<1>4. ASSUME NEW mode \in Modes, AdvancePhaseOnly(s, m, mode) PROVE TypeInv'
  <2>1. SessionsOK' /\ AllPlaced'
    BY <1>4, DecideMoves DEF AdvancePhaseOnly, Advancing, Authorized, disk
  <2>2. QED
    BY <1>4, <2>1 DEF AdvancePhaseOnly, disk, StoresOK
<1>5. ASSUME NEW mode \in Modes, AdvanceCommand(s, m, mode) PROVE TypeInv'
  <2>1. SessionsOK' /\ AllPlaced'
    BY <1>5, DecideMoves DEF AdvanceCommand, Advancing, Authorized, disk
  <2>2. QED
    BY <1>5, <2>1 DEF AdvanceCommand, disk, StoresOK
<1>6. QED
  BY <1>1, <1>2, <1>3, <1>4, <1>5 DEF Advance

(* The scan of the recovery pass. *)
LEMMA TypeScan ==
  ASSUME TypeInv, NEW s \in Sessions, RecoverScan(s)
  PROVE  TypeInv'
<1> USE DEF TypeInv
<1> DEFINE w == [Idle EXCEPT !.pc = "find", !.op = "recover",
                             !.preserved = Consistent]
<1>1. UNCHANGED <<snapshots, events, torn, idempotency, sourceRefs, faults>>
  BY DEF RecoverScan
<1>2. CASE Finish(s, NoPhase) /\ UNCHANGED recovery
  <2>1. SessionsOK' /\ AllPlaced'
    BY <1>1, <1>2, FinishMoves
  <2>2. QED
    BY <1>1, <1>2, <2>1 DEF StoresOK
<1>3. CASE recovery' = Diagnosed /\ sess' = [sess EXCEPT ![s] = w]
  <2>1. DOMAIN snapshots \subseteq Missions /\ DOMAIN recovery \subseteq Missions
    BY DEF StoresOK, Documents
  <2>2. Consistent \in SUBSET Missions
    BY <2>1 DEF Consistent
  <2>3. w \in Session
    <3>1. Idle \in Session
      BY IdleOK DEF Phases, NoPhase
    <3>2. QED
      BY <2>2, <3>1 DEF Session, PC, Op
  <2>4. w.pc = "find" /\ w.op = "recover"
    BY DEF Idle
  <2>5. Placed(w, DOMAIN snapshots')
    BY <2>4 DEF Placed, AtMission
  <2>6. SessionsOK' /\ AllPlaced'
    BY <1>1, <1>3, <2>3, <2>5, SessionMoves
  <2>7. Documents(Diagnosed, Missions,
                  {"snapshot-ahead-of-events", "executing-without-result"})
    BY <2>1 DEF Diagnosed, Documents, StoresOK, Diverged, Interrupted, Consistent
  <2>8. QED
    BY <1>1, <1>3, <2>6, <2>7 DEF StoresOK
<1>4. QED
  BY <1>2, <1>3 DEF RecoverScan

(* The steps of a phase-only update, and logging. *)
LEMMA TypeUpdate ==
  ASSUME TypeInv, NEW s \in Sessions,
         Refresh(s) \/ SaveSnapshot(s) \/ LogEvent(s)
  PROVE  TypeInv'
<1> USE DEF TypeInv
<1> DEFINE w == sess[s]
<1>0. /\ w \in Session
      /\ Placed(w, DOMAIN snapshots)
      /\ sess \in [Sessions -> Session]
  BY DEF SessionsOK, AllPlaced
<1>a. DOMAIN snapshots \subseteq Missions
  BY DEF StoresOK, Documents
<1>1. ASSUME Refresh(s) PROVE TypeInv'
  <2>1. UNCHANGED <<snapshots, events, torn, idempotency, recovery, sourceRefs, faults>>
    BY <1>1 DEF Refresh, disk
  <2>2. CASE Finish(s, NoPhase)
    <3>1. SessionsOK' /\ AllPlaced'
      BY <2>1, <2>2, FinishMoves
    <3>2. QED
      BY <2>1, <3>1 DEF StoresOK
  <2> DEFINE x == Bump(Mutated(w.op, w.phase, snapshots[w.mission]))
             v == [w EXCEPT !.pc = "save", !.next = x]
  <2>3. CASE sess' = [sess EXCEPT ![s].pc = "save", ![s].next = x]
    <3>1. /\ w.mission \in DOMAIN snapshots
          /\ w.op \in {"plan", "skip", "run"}
          /\ w.op \in {"skip", "run"} => w.phase \in Phases
      BY <1>0, <1>1 DEF Refresh, Placed, AtMission
    <3>2. snapshots[w.mission] \in Snapshot
      BY <3>1 DEF StoresOK, Documents
    <3>3. w.phase \in Phases \cup {NoPhase}
      BY <1>0 DEF Session
    <3>4. x \in Snapshot
      BY <3>1, <3>2, <3>3, MutatedType, BumpType
    <3>5. v \in Session
      BY <1>0, <3>4, WorkOK DEF PC, Op
    <3>6. sess' = [sess EXCEPT ![s] = v]
      BY <2>3, <1>0
    <3>7. v.pc = "save" /\ v.mission = w.mission /\ v.op = w.op /\ v.phase = w.phase
      BY <1>0 DEF Session
    <3>8. Placed(v, DOMAIN snapshots')
      BY <2>1, <3>1, <3>7 DEF Placed
    <3>9. SessionsOK' /\ AllPlaced'
      BY <2>1, <3>5, <3>6, <3>8, SessionMoves
    <3>10. QED
      BY <2>1, <3>9 DEF StoresOK
  <2>4. QED
    BY <1>1, <2>2, <2>3 DEF Refresh
<1>2. ASSUME SaveSnapshot(s) PROVE TypeInv'
  <2> DEFINE v == [w EXCEPT !.pc = "append"]
  <2>1. w.mission \in DOMAIN snapshots /\ w.mission \in Missions
    BY <1>0, <1>2, <1>a DEF SaveSnapshot, Placed, AtMission
  <2>2. w.next \in Snapshot
    BY <1>0 DEF Session
  <2>3. /\ Documents(snapshots', Missions, Snapshot)
        /\ DOMAIN snapshots \subseteq DOMAIN snapshots'
    BY <1>2, <2>1, <2>2, PutType DEF SaveSnapshot, StoresOK
  <2>4. v \in Session
    BY <1>0, <2>2, WorkOK DEF PC, Op
  <2>5. sess' = [sess EXCEPT ![s] = v]
    BY <1>0, <1>2 DEF SaveSnapshot
  <2>6. v.pc = "append" /\ v.mission = w.mission /\ v.op = w.op /\ v.phase = w.phase
    BY <1>0 DEF Session
  <2>7. Placed(v, DOMAIN snapshots')
    BY <1>0, <2>1, <2>3, <2>6 DEF Placed
  <2>8. SessionsOK' /\ AllPlaced'
    BY <2>3, <2>4, <2>5, <2>7, SessionMoves
  <2>9. StoresOK'
    BY <1>2, <2>3 DEF SaveSnapshot, StoresOK
  <2>10. QED
    BY <2>8, <2>9
<1>3. ASSUME LogEvent(s) PROVE TypeInv'
  <2>1. w.mission \in DOMAIN snapshots /\ w.mission \in Missions
    BY <1>0, <1>3, <1>a DEF LogEvent, Placed, AtMission
  <2>2. w.next \in Snapshot
    BY <1>0 DEF Session
  <2>3. UNCHANGED <<snapshots, torn, idempotency, recovery, faults>>
    BY <1>3 DEF LogEvent
  <2>4. events' \in [Missions -> Seq(Snapshot)]
    <3>1. Append(events[w.mission], w.next) \in Seq(Snapshot)
      BY <2>1, <2>2 DEF StoresOK
    <3>2. QED
      BY <1>3, <2>1, <3>1 DEF LogEvent, Logged, StoresOK
  <2>5. sourceRefs' \in [Sessions -> SUBSET Missions]
    <3>1. \A given \in {{}, {w.mission}} :
            [sourceRefs EXCEPT ![s] = sourceRefs[s] \cup given]
              \in [Sessions -> SUBSET Missions]
      BY <2>1 DEF StoresOK
    <3>2. \/ UNCHANGED sourceRefs
          \/ \E given \in {{}, {w.mission}} :
               sourceRefs' = [sourceRefs EXCEPT ![s] = sourceRefs[s] \cup given]
      BY <1>3 DEF LogEvent
    <3>3. QED
      BY <3>1, <3>2 DEF StoresOK
  <2>6. StoresOK'
    BY <2>3, <2>4, <2>5 DEF StoresOK
  <2>7. SessionsOK' /\ AllPlaced'
    <3>1. CASE w.op = "start"
      <4> DEFINE v == [w EXCEPT !.pc = "refresh", !.op = "plan", !.base = w.next]
      <4>1. sess' = [sess EXCEPT ![s] = v]
        BY <1>0, <1>3, <3>1 DEF LogEvent
      <4>2. v \in Session
        BY <1>0, <2>2, WorkOK DEF PC, Op
      <4>3. v.pc = "refresh" /\ v.mission = w.mission /\ v.op = "plan"
        BY <1>0 DEF Session
      <4>4. QED
        BY <2>1, <2>3, <4>1, <4>2, <4>3, SessionMoves DEF Placed
    <3>2. CASE w.op \in {"plan", "skip", "run"}
      <4>1. Finish(s, w.phase)
        BY <1>3, <3>2 DEF LogEvent
      <4>2. QED
        BY <1>0, <2>3, <4>1, FinishMoves DEF Session
    <3>3. CASE w.op = "apply"
      <4> DEFINE v == [w EXCEPT !.pc = "seal"]
      <4>1. sess' = [sess EXCEPT ![s] = v]
        BY <1>0, <1>3, <3>3 DEF LogEvent
      <4>2. v \in Session
        BY <1>0, <2>2, WorkOK DEF PC, Op
      <4>3. v.pc = "seal" /\ v.mission = w.mission /\ v.op = w.op
        BY <1>0 DEF Session
      <4>4. QED
        BY <2>1, <2>3, <3>3, <4>1, <4>2, <4>3, SessionMoves DEF Placed
    <3>4. CASE w.op = "recover"
      <4>1. CASE sess' = [sess EXCEPT ![s] = [Idle EXCEPT !.preserved = w.preserved]]
        <5> DEFINE v == [Idle EXCEPT !.preserved = w.preserved]
        <5>1. v \in Session
          BY <1>0, IdleOK DEF Session, Phases, NoPhase
        <5>2. v.pc = "idle" /\ v.op = "none"
          BY DEF Idle
        <5>3. QED
          BY <2>3, <4>1, <5>1, <5>2, SessionMoves DEF Placed, AtMission
      <4>2. CASE sess' = [sess EXCEPT ![s] = [w EXCEPT !.pc = "recover"]]
        <5> DEFINE v == [w EXCEPT !.pc = "recover"]
        <5>1. v \in Session
          BY <1>0, <2>2, WorkOK DEF PC, Op
        <5>2. v.pc = "recover" /\ v.op = w.op
          BY <1>0 DEF Session
        <5>3. QED
          BY <2>3, <3>4, <4>2, <5>1, <5>2, SessionMoves DEF Placed, AtMission
      <4>3. QED
        BY <1>3, <3>4, <4>1, <4>2 DEF LogEvent
    <3>5. QED
      BY <1>3, <3>1, <3>2, <3>3, <3>4 DEF LogEvent
  <2>8. QED
    BY <2>6, <2>7
<1>4. QED
  BY <1>1, <1>2, <1>3

(* Moving the program counter inside a command, on a mission that is there. *)
LEMMA StepMoves ==
  ASSUME TypeInv, NEW s \in Sessions,
         NEW pc \in PC \ {"refresh"}, NEW snapshot \in Snapshot,
         pc \in AtMission => sess[s].mission \in DOMAIN snapshots,
         DOMAIN snapshots \subseteq DOMAIN snapshots',
         \/ sess' = [sess EXCEPT ![s] = [sess[s] EXCEPT !.pc = pc]]
         \/ sess' = [sess EXCEPT ![s] = [sess[s] EXCEPT !.pc = pc, !.next = snapshot]]
  PROVE  SessionsOK' /\ AllPlaced'
<1>0. sess[s] \in Session /\ Placed(sess[s], DOMAIN snapshots)
  BY DEF TypeInv, SessionsOK, AllPlaced
<1>1. ASSUME NEW v \in Session, sess' = [sess EXCEPT ![s] = v],
             v.pc = pc, v.mission = sess[s].mission,
             v.op = sess[s].op, v.phase = sess[s].phase
      PROVE  SessionsOK' /\ AllPlaced'
  <2>1. Placed(v, DOMAIN snapshots')
    BY <1>0, <1>1 DEF Placed
  <2>2. QED
    BY <1>1, <2>1, SessionMoves
<1>2. CASE sess' = [sess EXCEPT ![s] = [sess[s] EXCEPT !.pc = pc]]
  <2> DEFINE v == [sess[s] EXCEPT !.pc = pc]
  <2>1. v \in Session
    BY <1>0, WorkOK DEF Op
  <2>2. v.pc = pc /\ v.mission = sess[s].mission /\ v.op = sess[s].op
        /\ v.phase = sess[s].phase
    BY <1>0 DEF Session
  <2>3. QED
    BY <1>1, <1>2, <2>1, <2>2
<1>3. CASE sess' = [sess EXCEPT ![s] = [sess[s] EXCEPT !.pc = pc, !.next = snapshot]]
  <2> DEFINE v == [sess[s] EXCEPT !.pc = pc, !.next = snapshot]
  <2>1. v \in Session
    BY <1>0, WorkOK DEF Op
  <2>2. v.pc = pc /\ v.mission = sess[s].mission /\ v.op = sess[s].op
        /\ v.phase = sess[s].phase
    BY <1>0 DEF Session
  <2>3. QED
    BY <1>1, <1>3, <2>1, <2>2
<1>4. QED
  BY <1>2, <1>3

(* The steps of MissionRuntime.apply. *)
LEMMA TypeApply ==
  ASSUME TypeInv, NEW s \in Sessions,
         \/ ReplayKey(s) \/ NewKey(s) \/ LoadMission(s)
         \/ ExecuteCommand(s) \/ SealKey(s) \/ FailKey(s)
  PROVE  TypeInv'
<1> USE DEF TypeInv
<1> DEFINE w == sess[s]
           target == ExecuteTarget(w.next)
<1>0. w \in Session /\ Placed(w, DOMAIN snapshots) /\ sess \in [Sessions -> Session]
  BY DEF SessionsOK, AllPlaced
<1>a. w.next \in Snapshot /\ w.phase \in Phases \cup {NoPhase}
  BY <1>0 DEF Session
<1>b. KeyOf(w) \in Key
  <2>1. w.pc \in AtMission
    BY DEF ReplayKey, NewKey, LoadMission, ExecuteCommand, SealKey, FailKey, AtMission
  <2>2. w.mission \in Missions
    BY <1>0, <2>1 DEF Placed, StoresOK, Documents
  <2>3. QED
    BY <1>0, <2>2, KeyOK
<1>c. Claimed(w.phase) \in Phases \cup {NoPhase}
  BY <1>a DEF Claimed
<1>1. CASE ReplayKey(s)
  <2>1. \E phase \in Phases \cup {NoPhase} : Finish(s, phase)
    BY <1>1, <1>c DEF ReplayKey
  <2>2. UNCHANGED <<snapshots, events, torn, idempotency, recovery, sourceRefs, faults>>
    BY <1>1 DEF ReplayKey, disk
  <2>3. SessionsOK' /\ AllPlaced'
    BY <2>1, <2>2, FinishMoves
  <2>4. QED
    BY <2>2, <2>3 DEF StoresOK
<1>2. CASE NewKey(s)
  <2>1. sess' = [sess EXCEPT ![s] = [w EXCEPT !.pc = "load"]]
    BY <1>0, <1>2 DEF NewKey
  <2>2. w.mission \in DOMAIN snapshots
    BY <1>0, <1>2 DEF NewKey, Placed, AtMission
  <2>3. UNCHANGED <<snapshots, events, torn, idempotency, recovery, sourceRefs, faults>>
    BY <1>2 DEF NewKey, disk
  <2>4. SessionsOK' /\ AllPlaced'
    BY <1>a, <2>1, <2>2, <2>3, StepMoves DEF PC
  <2>5. QED
    BY <2>3, <2>4 DEF StoresOK
<1>3. CASE LoadMission(s)
  <2>1. sess' = [sess EXCEPT ![s] = [w EXCEPT !.pc = "execute",
                                              !.next = snapshots[w.mission]]]
    BY <1>0, <1>3 DEF LoadMission
  <2>2. w.mission \in DOMAIN snapshots
    BY <1>0, <1>3 DEF LoadMission, Placed, AtMission
  <2>3. snapshots[w.mission] \in Snapshot
    BY <2>2 DEF StoresOK, Documents
  <2>4. UNCHANGED <<snapshots, events, torn, idempotency, recovery, sourceRefs, faults>>
    BY <1>3 DEF LoadMission, disk
  <2>5. SessionsOK' /\ AllPlaced'
    BY <2>1, <2>2, <2>3, <2>4, StepMoves DEF PC
  <2>6. QED
    BY <2>4, <2>5 DEF StoresOK
<1>4. CASE ExecuteCommand(s)
  <2>1. Bump(target) \in Snapshot
    BY <1>a, ExecuteTargetType, BumpType
  <2>2. w.mission \in DOMAIN snapshots
    BY <1>0, <1>4 DEF ExecuteCommand, Placed, AtMission
  <2>3. \/ sess' = [sess EXCEPT ![s] = [w EXCEPT !.pc = "save", !.next = Bump(target)]]
        \/ sess' = [sess EXCEPT ![s] = [w EXCEPT !.pc = "fail"]]
    BY <1>0, <1>4 DEF ExecuteCommand
  <2>4. UNCHANGED <<snapshots, events, torn, recovery, sourceRefs, faults>>
    BY <1>4 DEF ExecuteCommand
  <2>5. SessionsOK' /\ AllPlaced'
    BY <2>1, <2>2, <2>3, <2>4, StepMoves DEF PC
  <2>6. Documents(idempotency', Key, {"EXECUTING", "COMPLETED", "FAILED"})
    BY <1>4, <1>b, PutType DEF ExecuteCommand, StoresOK
  <2>7. QED
    BY <2>4, <2>5, <2>6 DEF StoresOK
<1>5. CASE SealKey(s)
  <2>1. UNCHANGED <<snapshots, events, torn, recovery, sourceRefs, faults>>
    BY <1>5 DEF SealKey
  <2>2. SessionsOK' /\ AllPlaced'
    BY <1>5, <1>c, <2>1, FinishMoves DEF SealKey
  <2>3. Documents(idempotency', Key, {"EXECUTING", "COMPLETED", "FAILED"})
    BY <1>5, <1>b, PutType DEF SealKey, StoresOK
  <2>4. QED
    BY <2>1, <2>2, <2>3 DEF StoresOK
<1>6. CASE FailKey(s)
  <2>1. UNCHANGED <<snapshots, events, torn, recovery, sourceRefs, faults>>
    BY <1>6 DEF FailKey
  <2>2. SessionsOK' /\ AllPlaced'
    BY <1>6, <2>1, FinishMoves DEF FailKey
  <2>3. Documents(idempotency', Key, {"EXECUTING", "COMPLETED", "FAILED"})
    BY <1>6, <1>b, PutType DEF FailKey, StoresOK
  <2>4. QED
    BY <2>1, <2>2, <2>3 DEF StoresOK
<1>7. QED
  BY <1>1, <1>2, <1>3, <1>4, <1>5, <1>6

(* The steps of the recovery pass. *)
LEMMA TypeRecover ==
  ASSUME TypeInv, NEW s \in Sessions, RecoverFind(s) \/ RecoverSave(s)
  PROVE  TypeInv'
<1> USE DEF TypeInv
<1> DEFINE w == sess[s]
<1>0. w \in Session /\ Placed(w, DOMAIN snapshots) /\ sess \in [Sessions -> Session]
  BY DEF SessionsOK, AllPlaced
<1>1. CASE RecoverFind(s)
  <2> DEFINE running == {m \in DOMAIN snapshots : snapshots[m].status = "RUNNING"}
             left == w.preserved \ running
             v == [w EXCEPT !.pc = "recover", !.preserved = left,
                            !.todo = Read(running)]
  <2>1. UNCHANGED <<snapshots, events, torn, idempotency, recovery, sourceRefs, faults>>
    BY <1>1 DEF RecoverFind, disk
  <2>2. left \in SUBSET Missions
    BY <1>0 DEF Session
  <2>3. CASE sess' = [sess EXCEPT ![s] = [Idle EXCEPT !.preserved = left]]
    <3>1. [Idle EXCEPT !.preserved = left] \in Session
      BY <2>2, IdleOK DEF Phases, NoPhase
    <3>2. /\ [Idle EXCEPT !.preserved = left].pc = "idle"
          /\ [Idle EXCEPT !.preserved = left].op = "none"
      BY DEF Idle
    <3>3. SessionsOK' /\ AllPlaced'
      BY <2>1, <2>3, <3>1, <3>2, SessionMoves DEF Placed, AtMission
    <3>4. QED
      BY <2>1, <3>3 DEF StoresOK
  <2>4. CASE sess' = [sess EXCEPT ![s] = v]
    <3>1. running \in SUBSET Missions /\ \A m \in running : snapshots[m] \in Snapshot
      BY DEF StoresOK, Documents
    <3>2. Read(running) \in SUBSET [mission : Missions, snapshot : Snapshot]
      BY <3>1 DEF Read
    <3>3. v \in Session
      BY <1>0, <2>2, <3>2 DEF Session, PC
    <3>4. v.pc = "recover" /\ v.op = w.op /\ v.phase = w.phase
      BY <1>0 DEF Session
    <3>5. SessionsOK' /\ AllPlaced'
      BY <1>0, <2>1, <2>4, <3>3, <3>4, SessionMoves DEF Placed, AtMission
    <3>6. QED
      BY <2>1, <3>5 DEF StoresOK
  <2>5. QED
    BY <1>1, <2>3, <2>4 DEF RecoverFind
<1>2. CASE RecoverSave(s)
  <2>1. PICK found \in w.todo :
          /\ snapshots' = Put(snapshots, found.mission, Forgotten(found.snapshot))
          /\ sess' = [sess EXCEPT ![s] =
                        [w EXCEPT !.pc = "append", !.mission = found.mission,
                                  !.next = Forgotten(found.snapshot),
                                  !.todo = w.todo \ {found}]]
    BY <1>2 DEF RecoverSave
  <2> DEFINE v == [w EXCEPT !.pc = "append", !.mission = found.mission,
                            !.next = Forgotten(found.snapshot),
                            !.todo = w.todo \ {found}]
  <2>2. w.todo \subseteq [mission : Missions, snapshot : Snapshot]
    BY <1>0 DEF Session
  <2>3. found.mission \in Missions /\ found.snapshot \in Snapshot
    BY <2>2
  <2>4. Forgotten(found.snapshot) \in Snapshot
    BY <2>3, StatusType, BumpType DEF Forgotten, Status
  <2>5. w.todo \ {found} \subseteq [mission : Missions, snapshot : Snapshot]
    BY <2>2
  <2>6. /\ Documents(snapshots', Missions, Snapshot)
        /\ DOMAIN snapshots \subseteq DOMAIN snapshots'
        /\ found.mission \in DOMAIN snapshots'
    BY <2>1, <2>3, <2>4, PutType DEF StoresOK
  <2>7. v \in Session
    BY <1>0, <2>3, <2>4, <2>5 DEF Session, PC
  <2>8. v.pc = "append" /\ v.mission = found.mission /\ v.op = w.op /\ v.phase = w.phase
    BY <1>0 DEF Session
  <2>9. SessionsOK' /\ AllPlaced'
    BY <1>0, <2>1, <2>6, <2>7, <2>8, SessionMoves DEF Placed
  <2>10. QED
    BY <1>2, <2>6, <2>9 DEF RecoverSave, StoresOK
<1>3. QED
  BY <1>1, <1>2

(* Crashes and I/O errors. *)
LEMMA TypeFault ==
  ASSUME TypeInv, NEW s \in Sessions, Crash(s) \/ StoreError(s)
  PROVE  TypeInv'
<1> USE DEF TypeInv
<1>0. sess[s] \in Session /\ Placed(sess[s], DOMAIN snapshots)
  BY DEF SessionsOK, AllPlaced
<1>1. UNCHANGED <<snapshots, events, idempotency, recovery>>
  BY DEF Crash, StoreError
<1>2. faults' \in Nat
  BY DEF Crash, StoreError, StoresOK
<1>3. torn' \subseteq Missions
  <2>1. torn' \in Tear(s)
    BY DEF Crash, StoreError
  <2>2. sess[s].pc = "append" => sess[s].mission \in Missions
    BY <1>0 DEF Placed, AtMission, StoresOK, Documents
  <2>3. QED
    BY <2>1, <2>2 DEF Tear, StoresOK
<1>4. sourceRefs' \in [Sessions -> SUBSET Missions]
  BY DEF Crash, StoreError, StoresOK
<1>5. SessionsOK' /\ AllPlaced'
  <2>1. CASE sess' = [sess EXCEPT ![s] = Idle]
    <3>1. Idle \in Session
      BY IdleOK DEF Phases, NoPhase
    <3>2. Idle.pc = "idle" /\ Idle.op = "none"
      BY DEF Idle
    <3>3. QED
      BY <1>1, <2>1, <3>1, <3>2, SessionMoves DEF Placed, AtMission
  <2>2. CASE /\ sess[s].pc \in {"save", "append", "seal"}
             /\ sess' = [sess EXCEPT ![s] = [sess[s] EXCEPT !.pc = "fail"]]
    <3>1. sess[s].mission \in DOMAIN snapshots
      BY <1>0, <2>2 DEF Placed, AtMission
    <3>2. sess[s].next \in Snapshot
      BY <1>0 DEF Session
    <3>3. QED
      BY <1>1, <2>2, <3>1, <3>2, StepMoves DEF PC
  <2>3. QED
    BY <2>1, <2>2 DEF Crash, StoreError
<1>6. QED
  BY <1>1, <1>2, <1>3, <1>4, <1>5 DEF StoresOK

(* The expiry of a record. *)
LEMMA TypeExpire ==
  ASSUME TypeInv, NEW k \in DOMAIN idempotency, Expire(k)
  PROVE  TypeInv'
<1> USE DEF TypeInv
<1>1. UNCHANGED <<snapshots, events, torn, recovery, sourceRefs, sess, faults>>
  BY DEF Expire
<1>2. Documents(idempotency', Key, {"EXECUTING", "COMPLETED", "FAILED"})
  BY DEF Expire, StoresOK, Documents
<1>3. SessionsOK' /\ AllPlaced'
  BY <1>1 DEF SessionsOK, AllPlaced
<1>4. QED
  BY <1>1, <1>2, <1>3 DEF StoresOK

LEMMA TypeStep == TypeInv /\ [Next]_vars => TypeInv'
<1> SUFFICES ASSUME TypeInv, [Next]_vars PROVE TypeInv'
  OBVIOUS
<1>1. CASE UNCHANGED vars
  BY <1>1 DEF vars, disk, TypeInv, StoresOK, SessionsOK, AllPlaced
<1>2. ASSUME NEW s \in Sessions,
             \/ \E m \in Missions, i \in Intents : StartMission(s, m, i)
             \/ \E m \in Missions, mode \in Modes : Advance(s, m, mode)
      PROVE  TypeInv'
  BY <1>2, TypeBegin
<1>3. ASSUME NEW s \in Sessions, RecoverScan(s) PROVE TypeInv'
  BY <1>3, TypeScan
<1>4. ASSUME NEW s \in Sessions, Step(s) PROVE TypeInv'
  BY <1>4, TypeUpdate, TypeApply, TypeRecover DEF Step
<1>5. ASSUME NEW s \in Sessions, Crash(s) \/ StoreError(s) PROVE TypeInv'
  BY <1>5, TypeFault
<1>6. ASSUME NEW k \in DOMAIN idempotency, Expire(k) PROVE TypeInv'
  BY <1>6, TypeExpire
<1>7. QED
  BY <1>1, <1>2, <1>3, <1>4, <1>5, <1>6 DEF Next

LEMMA TypeInvariant == Spec => []TypeInv
  BY TypeInit, TypeStep, PTL DEF Spec

(***************************************************************************)
(* Every store holds documents of its kind and every session is at a point *)
(* of a command, however many sessions, missions, faults and events.       *)
(***************************************************************************)
THEOREM TypeCorrect == Spec => []TypeOK
<1>1. TypeInv => TypeOK
  BY DEF TypeInv, TypeOK, StoresOK, SessionsOK
<1>2. QED
  BY <1>1, TypeInvariant, PTL

------------------------------------------------------------------------------
(***************************************************************************)
(* What a completed idempotency key stands for, with any number of         *)
(* missions and sessions.                                                  *)
(***************************************************************************)
(***************************************************************************)
(* Completed keys.  An engine command moves the version it was decided on  *)
(* by one, and reaches the sealing of its key with that version logged.    *)
(***************************************************************************)
VersionIn(log, version) == \E i \in DOMAIN log : log[i].version = version

Sealable(w, broken, logs) ==
  /\ w.pc \in {"find", "recover"} => w.op = "recover"
  /\ w.op = "apply" /\ w.pc \in {"save", "append", "seal"} =>
       w.next.version = w.base.version + 1
  /\ w.pc = "seal" =>
       \/ w.mission \in broken
       \/ VersionIn(logs[w.mission], w.base.version + 1)

KeyKept(k, broken, logs) ==
  k.mission \in broken \/ VersionIn(logs[k.mission], k.version + 1)

KeysInv ==
  /\ \A k \in DOMAIN idempotency :
       idempotency[k] = "COMPLETED" => KeyKept(k, torn, events)
  /\ \A s \in Sessions : Sealable(sess[s], torn, events)

(* Commands move a mission's version through Bump only. *)
LEMMA Versions ==
  ASSUME NEW m \in Snapshot
  PROVE  Bump(ExecuteTarget(m)).version = m.version + 1
<1>1. ExecuteTarget(m) \in Snapshot
  BY ExecuteTargetType
<1>2. ExecuteTarget(m).version = m.version
  <2> DEFINE p == derivePreparedStep(m).phase
  <2>1. ASSUME NEW q \in Phases
        PROVE  /\ completeStep(m, q, "COMPLETED") \in Snapshot
               /\ completeStep(m, q, "IN_PROGRESS") \in Snapshot
               /\ completeStep(m, q, "COMPLETED").version = m.version
               /\ completeStep(m, q, "IN_PROGRESS").version = m.version
    BY CompleteStepType DEF completeStep, Snapshot, StepStatus
  <2>2. \A q \in LifecyclePhases : q \in Phases
    BY PhaseNumbers DEF LifecyclePhases
  <2>3. CASE ExecuteTarget(m) = [m EXCEPT !.status = "RUNNING"]
    BY <2>3 DEF Snapshot
  <2>4. CASE p \in LifecyclePhases /\ ExecuteTarget(m) = genericIntentHandler(m, p)
    <3>1. CASE p = INTAKE
      BY <2>1, <2>2, <2>4, <3>1, PhaseNumbers DEF genericIntentHandler, Snapshot
    <3>2. CASE p = BIND_SCOPE
      BY <2>1, <2>2, <2>4, <3>2, PhaseNumbers DEF genericIntentHandler, Snapshot
    <3>3. CASE p = INGEST
      <4>1. ExecuteTarget(m) = [completeStep(m, INGEST, "IN_PROGRESS")
                                  EXCEPT !.status = "WAITING_FOR_EVIDENCE",
                                         !.alarmed = TRUE]
        BY <2>4, <3>3, PhaseNumbers DEF genericIntentHandler, markInProgress
      <4>2. INGEST \in Phases
        BY PhaseNumbers
      <4>3. QED
        BY <2>1, <4>1, <4>2 DEF Snapshot
    <3>4. CASE p = APPROVE
      BY <2>1, <2>2, <2>4, <3>4, PhaseNumbers
         DEF genericIntentHandler, markInProgress, Snapshot
    <3>5. CASE p = ARCHIVE
      BY <2>1, <2>2, <2>4, <3>5, PhaseNumbers DEF genericIntentHandler, Snapshot
    <3>6. QED
      BY <2>4, <3>1, <3>2, <3>3, <3>4, <3>5 DEF LifecyclePhases
  <2>5. QED
    BY <2>3, <2>4 DEF ExecuteTarget
<1>3. QED
  BY <1>1, <1>2 DEF Bump, Snapshot

(* A log that grows, and one that breaks, keep what they had. *)
LEMMA KeptOn ==
  ASSUME TypeInv, torn \subseteq torn',
         \A m \in Missions, n \in Nat :
           VersionIn(events[m], n) => VersionIn(events'[m], n)
  PROVE  /\ \A k \in Key : KeyKept(k, torn, events) => KeyKept(k, torn', events')
         /\ \A w \in Session : w.mission \in Missions \/ w.pc # "seal" =>
              (Sealable(w, torn, events) => Sealable(w, torn', events'))
<1>1. ASSUME NEW k \in Key, KeyKept(k, torn, events)
      PROVE  KeyKept(k, torn', events')
  <2>1. k.mission \in Missions /\ k.version + 1 \in Nat
    BY DEF Key
  <2>2. QED
    BY <1>1, <2>1 DEF KeyKept
<1>2. ASSUME NEW w \in Session, w.mission \in Missions \/ w.pc # "seal",
             Sealable(w, torn, events)
      PROVE  Sealable(w, torn', events')
  <2>1. w.base.version + 1 \in Nat
    BY DEF Session, Snapshot
  <2>2. QED
    BY <1>2, <2>1 DEF Sealable
<1>3. QED
  BY <1>1, <1>2

(* What must hold of a step for completed keys to stay logged. *)
LEMMA KeysFrame ==
  ASSUME TypeInv, KeysInv, NEW s \in Sessions, NEW v,
         sess' = [sess EXCEPT ![s] = v],
         Sealable(v, torn', events'),
         torn \subseteq torn',
         \A m \in Missions, n \in Nat :
           VersionIn(events[m], n) => VersionIn(events'[m], n),
         \A k \in DOMAIN idempotency' : idempotency'[k] = "COMPLETED" =>
           \/ k \in DOMAIN idempotency /\ idempotency[k] = "COMPLETED"
           \/ KeyKept(k, torn', events')
  PROVE  KeysInv'
<1>1. \A k \in DOMAIN idempotency : k \in Key
  BY DEF TypeInv, StoresOK, Documents
<1>2. \A k \in DOMAIN idempotency' :
        idempotency'[k] = "COMPLETED" => KeyKept(k, torn', events')
  BY <1>1, KeptOn DEF KeysInv
<1>3. ASSUME NEW t \in Sessions PROVE Sealable(sess'[t], torn', events')
  <2>1. CASE t = s
    BY <2>1 DEF TypeInv, SessionsOK
  <2>2. CASE t # s
    <3>1. sess'[t] = sess[t] /\ sess[t] \in Session
      BY <2>2 DEF TypeInv, SessionsOK
    <3>2. sess[t].mission \in Missions \/ sess[t].pc # "seal"
      BY DEF TypeInv, AllPlaced, Placed, AtMission, StoresOK, Documents
    <3>3. QED
      BY <3>1, <3>2, KeptOn DEF KeysInv
  <2>3. QED
    BY <2>1, <2>2
<1>4. QED
  BY <1>2, <1>3 DEF KeysInv

(* A step that moves one session and touches neither logs nor keys. *)
LEMMA KeysQuiet ==
  ASSUME TypeInv, KeysInv, NEW s \in Sessions, NEW v,
         sess' = [sess EXCEPT ![s] = v], Sealable(v, torn, events),
         UNCHANGED <<events, torn, idempotency>>
  PROVE  KeysInv'
  BY KeysFrame DEF KeysInv

(* What a session that begins or ends a command owes to the keys: nothing. *)
LEMMA Unsealed ==
  ASSUME NEW v, v.pc \notin {"find", "recover", "seal"},
         v.op # "apply" \/ v.pc \notin {"save", "append"}
  PROVE  Sealable(v, torn', events') /\ Sealable(v, torn, events)
  BY DEF Sealable

LEMMA KeysInit == Init => KeysInv
<1> SUFFICES ASSUME Init PROVE KeysInv
  OBVIOUS
<1>1. DOMAIN idempotency = {}
  BY DEF Init
<1>2. \A s \in Sessions : sess[s].pc = "idle"
  BY DEF Init, Idle
<1>3. \A s \in Sessions : Sealable(sess[s], torn, events)
  BY <1>2 DEF Sealable
<1>4. QED
  BY <1>1, <1>3 DEF KeysInv

(* Ending a command is such a step. *)
LEMMA KeysEnd ==
  ASSUME TypeInv, KeysInv, NEW s \in Sessions, NEW phase, Finish(s, phase),
         UNCHANGED <<events, torn, idempotency>>
  PROVE  KeysInv'
<1>1. [Idle EXCEPT !.report = phase].pc = "idle"
  BY DEF Idle
<1>2. Sealable([Idle EXCEPT !.report = phase], torn, events)
  BY <1>1 DEF Sealable
<1>3. QED
  BY <1>2, KeysQuiet DEF Finish

LEMMA KeysBegin ==
  ASSUME TypeInv, KeysInv, NEW s \in Sessions,
         \/ \E m \in Missions, i \in Intents : StartMission(s, m, i)
         \/ \E m \in Missions, mode \in Modes : Advance(s, m, mode)
         \/ RecoverScan(s)
  PROVE  KeysInv'
<1>1. UNCHANGED <<events, torn, idempotency>>
  BY DEF StartMission, Advance, ReportOnly, AdvanceSkip, AdvancePhaseOnly,
         AdvanceCommand, RecoverScan, disk
<1>2. ASSUME NEW m \in Missions, NEW i \in Intents, StartMission(s, m, i)
      PROVE  KeysInv'
  <2> DEFINE v == [Idle EXCEPT !.pc = "append", !.op = "start", !.mission = m,
                               !.next = Started(i)]
  <2>1. v.pc = "append" /\ v.op = "start"
    BY DEF Idle
  <2>2. Sealable(v, torn, events)
    BY <2>1 DEF Sealable
  <2>3. sess' = [sess EXCEPT ![s] = v]
    BY <1>2 DEF StartMission
  <2>4. QED
    BY <1>1, <2>2, <2>3, KeysQuiet
<1>3. ASSUME NEW phase, Finish(s, phase)
      PROVE  KeysInv'
  BY <1>1, <1>3, KeysEnd
<1>4. ASSUME NEW m, NEW pc \in {"refresh", "get"}, NEW op, Decide(s, m, pc, op)
      PROVE  KeysInv'
  <2> DEFINE v == [Idle EXCEPT !.pc = pc, !.op = op, !.mission = m,
                               !.phase = derivePreparedStep(snapshots[m]).phase,
                               !.base = snapshots[m]]
  <2>1. v.pc = pc
    BY DEF Idle
  <2>2. Sealable(v, torn, events)
    BY <2>1 DEF Sealable
  <2>3. QED
    BY <1>1, <1>4, <2>2, KeysQuiet DEF Decide
<1>5. ASSUME NEW m \in Missions, NEW mode \in Modes, Advance(s, m, mode)
      PROVE  KeysInv'
  BY <1>3, <1>4, <1>5 DEF Advance, ReportOnly, AdvanceSkip, AdvancePhaseOnly,
                          AdvanceCommand
<1>6. CASE RecoverScan(s)
  <2> DEFINE v == [Idle EXCEPT !.pc = "find", !.op = "recover",
                               !.preserved = Consistent]
  <2>1. v.pc = "find" /\ v.op = "recover"
    BY DEF Idle
  <2>2. Sealable(v, torn, events)
    BY <2>1 DEF Sealable
  <2>3. Finish(s, NoPhase) \/ sess' = [sess EXCEPT ![s] = v]
    BY <1>6 DEF RecoverScan
  <2>4. QED
    BY <1>1, <1>3, <2>2, <2>3, KeysQuiet
<1>7. QED
  BY <1>2, <1>5, <1>6

(* Logging keeps what a log has, and adds the new version unless it is torn. *)
LEMMA LogGrows ==
  ASSUME TypeInv, NEW m \in Missions, NEW snapshot \in Snapshot,
         events' = Logged(m, snapshot)
  PROVE  /\ \A n \in Missions, v \in Nat :
              VersionIn(events[n], v) => VersionIn(events'[n], v)
         /\ m \in torn \/ VersionIn(events'[m], snapshot.version)
<1>0. events \in [Missions -> Seq(Snapshot)]
  BY DEF TypeInv, StoresOK
<1>1. CASE m \in torn
  BY <1>1 DEF Logged
<1>2. CASE m \notin torn
  <2> DEFINE log == events[m]
  <2>1. log \in Seq(Snapshot)
    BY <1>0
  <2>2. /\ DOMAIN Append(log, snapshot) = 1 .. Len(log) + 1
        /\ DOMAIN log = 1 .. Len(log)
        /\ Append(log, snapshot)[Len(log) + 1] = snapshot
        /\ \A i \in 1 .. Len(log) : Append(log, snapshot)[i] = log[i]
        /\ Len(log) \in Nat
    BY <2>1
  <2>3. /\ events'[m] = Append(log, snapshot)
        /\ \A n \in Missions \ {m} : events'[n] = events[n]
    BY <1>0, <1>2 DEF Logged
  <2>4. VersionIn(events'[m], snapshot.version)
    BY <2>2, <2>3 DEF VersionIn
  <2>5. ASSUME NEW v \in Nat, VersionIn(log, v) PROVE VersionIn(events'[m], v)
    <3>1. PICK i \in DOMAIN log : log[i].version = v
      BY <2>5 DEF VersionIn
    <3>2. i \in DOMAIN events'[m] /\ events'[m][i] = log[i]
      BY <2>2, <2>3, <3>1
    <3>3. QED
      BY <3>1, <3>2 DEF VersionIn
  <2>6. QED
    BY <2>3, <2>4, <2>5
<1>3. QED
  BY <1>1, <1>2

LEMMA KeysUpdate ==
  ASSUME TypeInv, KeysInv, NEW s \in Sessions,
         Refresh(s) \/ SaveSnapshot(s) \/ LogEvent(s)
  PROVE  KeysInv'
<1> DEFINE w == sess[s]
<1>0. /\ w \in Session /\ Placed(w, DOMAIN snapshots)
      /\ Sealable(w, torn, events) /\ sess \in [Sessions -> Session]
  BY DEF TypeInv, SessionsOK, AllPlaced, KeysInv
<1>1. CASE Refresh(s)
  <2> DEFINE v == [w EXCEPT !.pc = "save",
                            !.next = Bump(Mutated(w.op, w.phase, snapshots[w.mission]))]
  <2>1. UNCHANGED <<events, torn, idempotency>>
    BY <1>1 DEF Refresh, disk
  <2>2. w.op # "apply"
    BY <1>0, <1>1 DEF Refresh, Placed
  <2>3. v.pc = "save" /\ v.op = w.op
    BY <1>0 DEF Session
  <2>4. Sealable(v, torn, events)
    BY <2>2, <2>3, Unsealed
  <2>5. sess' = [sess EXCEPT ![s] = v] \/ Finish(s, NoPhase)
    BY <1>0, <1>1 DEF Refresh
  <2>6. QED
    BY <2>1, <2>4, <2>5, KeysQuiet, KeysEnd
<1>2. CASE SaveSnapshot(s)
  <2> DEFINE v == [w EXCEPT !.pc = "append"]
  <2>1. UNCHANGED <<events, torn, idempotency>>
    BY <1>2 DEF SaveSnapshot
  <2>2. v.pc = "append" /\ v.op = w.op /\ v.next = w.next /\ v.base = w.base
    BY <1>0 DEF Session
  <2>3. Sealable(v, torn, events)
    BY <1>0, <1>2, <2>2 DEF Sealable, SaveSnapshot
  <2>4. sess' = [sess EXCEPT ![s] = v]
    BY <1>0, <1>2 DEF SaveSnapshot
  <2>5. QED
    BY <2>1, <2>3, <2>4, KeysQuiet
<1>3. CASE LogEvent(s)
  <2>1. w.mission \in Missions /\ w.next \in Snapshot
    BY <1>0, <1>3 DEF LogEvent, Placed, AtMission, Session, TypeInv, StoresOK, Documents
  <2>2. events' = Logged(w.mission, w.next) /\ UNCHANGED <<torn, idempotency>>
    BY <1>3 DEF LogEvent
  <2>3. /\ \A n \in Missions, v \in Nat :
            VersionIn(events[n], v) => VersionIn(events'[n], v)
        /\ w.mission \in torn \/ VersionIn(events'[w.mission], w.next.version)
    BY <2>1, <2>2, LogGrows
  <2>4. ASSUME NEW v, sess' = [sess EXCEPT ![s] = v], Sealable(v, torn', events')
        PROVE  KeysInv'
    BY <2>2, <2>3, <2>4, KeysFrame DEF KeysInv
  <2>5. CASE w.op = "start"
    <3> DEFINE v == [w EXCEPT !.pc = "refresh", !.op = "plan", !.base = w.next]
    <3>1. sess' = [sess EXCEPT ![s] = v]
      BY <1>0, <1>3, <2>5 DEF LogEvent
    <3>2. v.pc = "refresh"
      BY <1>0 DEF Session
    <3>3. QED
      BY <2>4, <3>1, <3>2, Unsealed
  <2>6. CASE w.op \in {"plan", "skip", "run"}
    <3>1. sess' = [sess EXCEPT ![s] = [Idle EXCEPT !.report = w.phase]]
      BY <1>3, <2>6 DEF LogEvent, Finish
    <3>2. [Idle EXCEPT !.report = w.phase].pc = "idle"
      BY DEF Idle
    <3>3. QED
      BY <2>4, <3>1, <3>2, Unsealed
  <2>7. CASE w.op = "apply"
    <3> DEFINE v == [w EXCEPT !.pc = "seal"]
    <3>1. sess' = [sess EXCEPT ![s] = v]
      BY <1>0, <1>3, <2>7 DEF LogEvent
    <3>2. /\ v.pc = "seal" /\ v.op = w.op /\ v.mission = w.mission
          /\ v.next = w.next /\ v.base = w.base
      BY <1>0 DEF Session
    <3>3. w.next.version = w.base.version + 1
      BY <1>0, <1>3, <2>7 DEF Sealable, LogEvent
    <3>4. Sealable(v, torn', events')
      BY <2>2, <2>3, <3>2, <3>3 DEF Sealable
    <3>5. QED
      BY <2>4, <3>1, <3>4
  <2>8. CASE w.op = "recover"
    <3>1. CASE sess' = [sess EXCEPT ![s] = [Idle EXCEPT !.preserved = w.preserved]]
      <4>1. [Idle EXCEPT !.preserved = w.preserved].pc = "idle"
        BY DEF Idle
      <4>2. QED
        BY <2>4, <3>1, <4>1, Unsealed
    <3>2. CASE sess' = [sess EXCEPT ![s] = [w EXCEPT !.pc = "recover"]]
      <4>1. [w EXCEPT !.pc = "recover"].pc = "recover"
            /\ [w EXCEPT !.pc = "recover"].op = "recover"
        BY <1>0, <2>8 DEF Session
      <4>2. Sealable([w EXCEPT !.pc = "recover"], torn', events')
        BY <4>1 DEF Sealable
      <4>3. QED
        BY <2>4, <3>2, <4>2
    <3>3. QED
      BY <1>3, <2>8, <3>1, <3>2 DEF LogEvent
  <2>9. QED
    BY <1>3, <2>5, <2>6, <2>7, <2>8 DEF LogEvent
<1>4. QED
  BY <1>1, <1>2, <1>3

LEMMA KeysApply ==
  ASSUME TypeInv, KeysInv, NEW s \in Sessions,
         \/ ReplayKey(s) \/ NewKey(s) \/ LoadMission(s)
         \/ ExecuteCommand(s) \/ SealKey(s) \/ FailKey(s)
  PROVE  KeysInv'
<1> DEFINE w == sess[s]
<1>0. /\ w \in Session /\ Sealable(w, torn, events)
      /\ sess \in [Sessions -> Session]
  BY DEF TypeInv, SessionsOK, KeysInv
<1>1. UNCHANGED <<events, torn>>
  BY DEF ReplayKey, NewKey, LoadMission, ExecuteCommand, SealKey, FailKey, disk
<1>a. ASSUME NEW mark, NEW v, sess' = [sess EXCEPT ![s] = v],
             Sealable(v, torn, events), idempotency' = Put(idempotency, KeyOf(w), mark),
             mark = "COMPLETED" => KeyKept(KeyOf(w), torn, events)
      PROVE  KeysInv'
  <2>1. \A k \in DOMAIN idempotency' : idempotency'[k] = "COMPLETED" =>
          \/ k \in DOMAIN idempotency /\ idempotency[k] = "COMPLETED"
          \/ KeyKept(k, torn, events)
    BY <1>a DEF Put
  <2>2. QED
    BY <1>1, <1>a, <2>1, KeysFrame
<1>2. CASE ReplayKey(s)
  BY <1>1, <1>2, KeysEnd DEF ReplayKey, disk
<1>3. CASE NewKey(s)
  <2> DEFINE v == [w EXCEPT !.pc = "load"]
  <2>1. v.pc = "load"
    BY <1>0 DEF Session
  <2>2. sess' = [sess EXCEPT ![s] = v] /\ UNCHANGED idempotency
    BY <1>0, <1>3 DEF NewKey, disk
  <2>3. QED
    BY <1>1, <2>1, <2>2, Unsealed, KeysQuiet
<1>4. CASE LoadMission(s)
  <2> DEFINE v == [w EXCEPT !.pc = "execute", !.next = snapshots[w.mission]]
  <2>1. v.pc = "execute"
    BY <1>0 DEF Session
  <2>2. sess' = [sess EXCEPT ![s] = v] /\ UNCHANGED idempotency
    BY <1>0, <1>4 DEF LoadMission, disk
  <2>3. QED
    BY <1>1, <2>1, <2>2, Unsealed, KeysQuiet
<1>5. CASE ExecuteCommand(s)
  <2> DEFINE target == ExecuteTarget(w.next)
  <2>1. idempotency' = Put(idempotency, KeyOf(w), "EXECUTING")
    BY <1>5 DEF ExecuteCommand
  <2>2. CASE /\ w.next.version = w.base.version
             /\ sess' = [sess EXCEPT ![s].pc = "save", ![s].next = Bump(target)]
    <3> DEFINE v == [w EXCEPT !.pc = "save", !.next = Bump(target)]
    <3>1. v.pc = "save" /\ v.next = Bump(target) /\ v.base = w.base
      BY <1>0 DEF Session
    <3>2. Bump(target).version = w.base.version + 1
      BY <1>0, <2>2, Versions DEF Session
    <3>3. Sealable(v, torn, events)
      BY <3>1, <3>2 DEF Sealable
    <3>4. sess' = [sess EXCEPT ![s] = v]
      BY <1>0, <2>2
    <3>5. QED
      BY <1>a, <2>1, <3>3, <3>4
  <2>3. CASE sess' = [sess EXCEPT ![s].pc = "fail"]
    <3> DEFINE v == [w EXCEPT !.pc = "fail"]
    <3>1. v.pc = "fail"
      BY <1>0 DEF Session
    <3>2. sess' = [sess EXCEPT ![s] = v]
      BY <1>0, <2>3
    <3>3. QED
      BY <1>a, <2>1, <3>1, <3>2, Unsealed
  <2>4. QED
    BY <1>5, <2>2, <2>3 DEF ExecuteCommand
<1>6. CASE SealKey(s)
  <2> DEFINE v == [Idle EXCEPT !.report = Claimed(w.phase)]
  <2>1. v.pc = "idle"
    BY DEF Idle
  <2>2. KeyKept(KeyOf(w), torn, events)
    BY <1>0, <1>6 DEF Sealable, SealKey, KeyKept, KeyOf
  <2>3. QED
    BY <1>a, <1>6, <2>1, <2>2, Unsealed DEF SealKey, Finish
<1>7. CASE FailKey(s)
  <2> DEFINE v == [Idle EXCEPT !.report = NoPhase]
  <2>1. v.pc = "idle"
    BY DEF Idle
  <2>2. QED
    BY <1>a, <1>7, <2>1, Unsealed DEF FailKey, Finish
<1>8. QED
  BY <1>2, <1>3, <1>4, <1>5, <1>6, <1>7

LEMMA KeysRecover ==
  ASSUME TypeInv, KeysInv, NEW s \in Sessions, RecoverFind(s) \/ RecoverSave(s)
  PROVE  KeysInv'
<1> DEFINE w == sess[s]
<1>0. /\ w \in Session /\ Sealable(w, torn, events)
      /\ sess \in [Sessions -> Session]
  BY DEF TypeInv, SessionsOK, KeysInv
<1>1. UNCHANGED <<events, torn, idempotency>>
  BY DEF RecoverFind, RecoverSave, disk
<1>2. w.op = "recover"
  BY <1>0 DEF Sealable, RecoverFind, RecoverSave
<1>3. CASE RecoverFind(s)
  <2> DEFINE running == {m \in DOMAIN snapshots : snapshots[m].status = "RUNNING"}
             left == w.preserved \ running
             v == [w EXCEPT !.pc = "recover", !.preserved = left,
                            !.todo = Read(running)]
             u == [Idle EXCEPT !.preserved = left]
  <2>1. sess' = [sess EXCEPT ![s] = v] \/ sess' = [sess EXCEPT ![s] = u]
    BY <1>3 DEF RecoverFind
  <2>2. v.pc = "recover" /\ v.op = "recover" /\ u.pc = "idle"
    BY <1>0, <1>2 DEF Session, Idle
  <2>3. Sealable(v, torn, events) /\ Sealable(u, torn, events)
    BY <2>2 DEF Sealable
  <2>4. QED
    BY <1>1, <2>1, <2>3, KeysQuiet
<1>4. CASE RecoverSave(s)
  <2>1. PICK found \in w.todo :
          sess' = [sess EXCEPT ![s] =
                     [w EXCEPT !.pc = "append", !.mission = found.mission,
                               !.next = Forgotten(found.snapshot),
                               !.todo = w.todo \ {found}]]
    BY <1>4 DEF RecoverSave
  <2> DEFINE v == [w EXCEPT !.pc = "append", !.mission = found.mission,
                            !.next = Forgotten(found.snapshot),
                            !.todo = w.todo \ {found}]
  <2>2. v.pc = "append" /\ v.op = "recover"
    BY <1>0, <1>2 DEF Session
  <2>3. QED
    BY <1>1, <2>1, <2>2, Unsealed, KeysQuiet
<1>5. QED
  BY <1>3, <1>4

LEMMA KeysFault ==
  ASSUME TypeInv, KeysInv, NEW s \in Sessions, Crash(s) \/ StoreError(s)
  PROVE  KeysInv'
<1> DEFINE w == sess[s]
<1>0. w \in Session
  BY DEF TypeInv, SessionsOK
<1>1. UNCHANGED <<events, idempotency>> /\ torn \subseteq torn'
  BY DEF Crash, StoreError, Tear
<1>2. ASSUME NEW v, v.pc = "idle" \/ v.pc = "fail", sess' = [sess EXCEPT ![s] = v]
      PROVE  KeysInv'
  <2>1. Sealable(v, torn', events')
    BY <1>2 DEF Sealable
  <2>2. QED
    BY <1>1, <1>2, <2>1, KeysFrame DEF KeysInv
<1>3. Idle.pc = "idle" /\ [w EXCEPT !.pc = "fail"].pc = "fail"
  BY <1>0 DEF Idle, Session
<1>4. \/ sess' = [sess EXCEPT ![s] = Idle]
      \/ sess' = [sess EXCEPT ![s] = [w EXCEPT !.pc = "fail"]]
  <2>1. CASE Crash(s)
    BY <2>1 DEF Crash
  <2>2. CASE StoreError(s)
    <3>1. CASE w.op = "apply" /\ w.pc \in {"save", "append", "seal"}
      BY <2>2, <3>1 DEF StoreError
    <3>2. CASE ~(w.op = "apply" /\ w.pc \in {"save", "append", "seal"})
      BY <2>2, <3>2 DEF StoreError
    <3>3. QED
      BY <3>1, <3>2
  <2>3. QED
    BY <2>1, <2>2
<1>5. CASE sess' = [sess EXCEPT ![s] = Idle]
  BY <1>2, <1>3, <1>5
<1>6. CASE sess' = [sess EXCEPT ![s] = [w EXCEPT !.pc = "fail"]]
  BY <1>2, <1>3, <1>6
<1>7. QED
  BY <1>4, <1>5, <1>6

LEMMA KeysStep == TypeInv /\ KeysInv /\ [Next]_vars => KeysInv'
<1> SUFFICES ASSUME TypeInv, KeysInv, [Next]_vars PROVE KeysInv'
  OBVIOUS
<1>1. CASE UNCHANGED vars
  BY <1>1 DEF vars, disk, KeysInv
<1>2. ASSUME NEW s \in Sessions,
             \/ \E m \in Missions, i \in Intents : StartMission(s, m, i)
             \/ \E m \in Missions, mode \in Modes : Advance(s, m, mode)
             \/ RecoverScan(s)
      PROVE  KeysInv'
  BY <1>2, KeysBegin
<1>3. ASSUME NEW s \in Sessions, Step(s) PROVE KeysInv'
  BY <1>3, KeysUpdate, KeysApply, KeysRecover DEF Step
<1>4. ASSUME NEW s \in Sessions, Crash(s) \/ StoreError(s) PROVE KeysInv'
  BY <1>4, KeysFault
<1>5. ASSUME NEW k \in DOMAIN idempotency, Expire(k) PROVE KeysInv'
  <2>1. /\ UNCHANGED <<events, torn, sess>>
        /\ \A i \in DOMAIN idempotency' :
             i \in DOMAIN idempotency /\ idempotency'[i] = idempotency[i]
    BY <1>5 DEF Expire
  <2>2. QED
    BY <2>1 DEF KeysInv
<1>6. QED
  BY <1>1, <1>2, <1>3, <1>4, <1>5 DEF Next

(***************************************************************************)
(* A key is COMPLETED only once the transition it stands for is logged, so *)
(* a replayed success never covers for a write that did not happen: with   *)
(* any number of sessions, and wherever crashes, I/O errors and expiries   *)
(* fall.                                                                   *)
(***************************************************************************)
THEOREM CompletedKeys == Spec => []CompletedKeysLogged
<1>1. KeysInv => CompletedKeysLogged
  BY DEF KeysInv, KeyKept, VersionIn, CompletedKeysLogged
<1>2. Spec => []KeysInv
  BY TypeInvariant, KeysInit, KeysStep, PTL DEF Spec
<1>3. QED
  BY <1>1, <1>2, PTL

------------------------------------------------------------------------------
(***************************************************************************)
(* With one session, every stored and every logged snapshot is sound: the  *)
(* writers keep a sound snapshot sound as long as it is the snapshot they  *)
(* were decided on, and with one session it still is when they write.      *)
(***************************************************************************)
(***************************************************************************)
(* The writers, one by one, on any sound snapshot.                         *)
(***************************************************************************)
Prepared(m, phase, disposition) ==
  derivePreparedStep(m).phase = phase /\ derivePreparedStep(m).disposition = disposition

(* Where a sound mission is when a phase of it may be passed. *)
Ready(m, p) ==
  /\ p \in Phases
  /\ m.steps[p] \in {"PENDING", "IN_PROGRESS"}
  /\ \A q \in Phases : q < p => m.steps[q] \in Passed
  /\ \A q \in Phases : q > p => m.steps[q] = "PENDING"
  /\ m.status \in {"DRAFT", "QUEUED", "RUNNING"}
  /\ m.status = "DRAFT" => p = INTAKE
  /\ m.status = "QUEUED" => p = BIND_SCOPE
  /\ m.status = "RUNNING" => p > BIND_SCOPE

LEMMA PreparedIsReady ==
  ASSUME NEW m \in Snapshot, SoundSnapshot(m), NEW p,
         NEW disposition \in {"SKIP", "RUN"}, Prepared(m, p, disposition)
  PROVE  Ready(m, p)
<1>1. /\ p \in Phases /\ p = nextPendingPhase(m)
      /\ m.status \notin Waiting \cup {"COMPLETED", "FAILED"}
  BY PreparedStep DEF Prepared
<1>2. p \in OpenPhases(m) /\ \A q \in OpenPhases(m) : p <= q
  BY <1>1, NextPending, PhaseNumbers
<1>3. m.status \in {"DRAFT", "QUEUED", "RUNNING"}
  BY <1>1 DEF SoundSnapshot, StatusAgrees, Waiting
<1>4. m.current \in Phases /\ p >= m.current
  BY <1>2 DEF SoundSnapshot, InOrder, OpenPhases
<1>5. /\ m.steps[m.current] # "ABSENT"
      /\ \A q \in Phases : q < m.current => m.steps[q] \in Passed
      /\ \A q \in Phases : q > m.current => m.steps[q] = "PENDING"
  BY <1>4, PhaseNumbers DEF SoundSnapshot, InOrder
<1>6. /\ p \in Int /\ m.current \in Int
      /\ \A q \in Phases : q \in Int /\ m.steps[q] \in StepStatus
  BY <1>1, <1>4, PhaseNumbers DEF Snapshot
<1>7. CASE m.steps[m.current] \in {"PENDING", "IN_PROGRESS"}
  <2>1. p = m.current
    BY <1>2, <1>4, <1>6, <1>7 DEF OpenPhases
  <2>2. m.status \notin {"QUEUED", "RUNNING"}
    BY <1>7 DEF SoundSnapshot, StatusAgrees, Passed
  <2>3. m.status = "DRAFT" => p = INTAKE
    BY <2>1, <1>4, PhaseNumbers DEF SoundSnapshot, StatusAgrees
  <2>4. QED
    BY <1>1, <1>3, <1>5, <1>7, <2>1, <2>2, <2>3 DEF Ready
<1>8. CASE m.steps[m.current] \in Passed
  <2>1. p > m.current
    BY <1>2, <1>4, <1>6, <1>8 DEF OpenPhases, Passed
  <2>2. \A q \in Phases : q > m.current => p <= q
    BY <1>2, <1>4, <1>5, <1>6 DEF OpenPhases
  <2>3. p = m.current + 1
    <3>1. m.current + 1 \in Phases
      BY <1>1, <1>4, <2>1, PhaseNumbers
    <3>2. QED
      BY <1>1, <1>4, <1>6, <2>1, <2>2, <3>1
  <2>4. \A q \in Phases : q < p => m.steps[q] \in Passed
    BY <1>4, <1>5, <1>6, <1>8, <2>3
  <2>5. \A q \in Phases : q > p => m.steps[q] = "PENDING"
    BY <1>4, <1>5, <1>6, <2>3
  <2>6. /\ m.status # "DRAFT"
        /\ m.status = "QUEUED" => p = BIND_SCOPE
        /\ m.status = "RUNNING" => p > BIND_SCOPE
    BY <1>4, <1>8, <2>3, PhaseNumbers DEF SoundSnapshot, StatusAgrees, Passed
  <2>7. QED
    BY <1>1, <1>2, <1>3, <2>4, <2>5, <2>6 DEF Ready, OpenPhases
<1>9. QED
  BY <1>4, <1>5, <1>6, <1>7, <1>8 DEF StepStatus, Passed

LEMMA StartedSound ==
  ASSUME NEW intent \in EdaIntent
  PROVE  SoundSnapshot(Started(intent)) /\ Started(intent).current = NoPhase
  BY PhaseNumbers
     DEF Started, SoundSnapshot, InOrder, StatusAgrees, CeremonyKept, Passed

LEMMA BumpSound ==
  ASSUME NEW m \in Snapshot, SoundSnapshot(m)
  PROVE  SoundSnapshot(Bump(m))
<1>1. /\ Bump(m).status = m.status /\ Bump(m).current = m.current
      /\ Bump(m).steps = m.steps /\ Bump(m).proposal = m.proposal
      /\ Bump(m).intent = m.intent
  BY DEF Bump, Snapshot
<1>2. QED
  BY <1>1 DEF SoundSnapshot, InOrder, StatusAgrees, CeremonyKept

LEMMA PlanSound ==
  ASSUME NEW m \in Snapshot, SoundSnapshot(m), m.current = NoPhase
  PROVE  SoundSnapshot(WithPlan(m))
<1> DEFINE n == WithPlan(m)
<1>1. /\ n.status = m.status /\ n.current = INTAKE /\ n.proposal = m.proposal
      /\ n.steps = [p \in Phases |-> "PENDING"] /\ n.intent = m.intent
  BY DEF WithPlan, Snapshot
<1>2. m.status = "DRAFT"
  BY PhaseNumbers DEF SoundSnapshot, StatusAgrees
<1>3. ~m.proposal
  BY PhaseNumbers DEF SoundSnapshot, InOrder, CeremonyKept, Snapshot
<1>4. InOrder(n) /\ StatusAgrees(n)
  BY <1>1, <1>2, PhaseNumbers DEF InOrder, StatusAgrees
<1>5. CeremonyKept(n)
  BY <1>1, <1>3, PhaseNumbers DEF CeremonyKept, Passed
<1>6. QED
  BY <1>4, <1>5 DEF SoundSnapshot

LEMMA ForgottenSound ==
  ASSUME NEW m \in Snapshot, SoundSnapshot(m), m.status = "RUNNING"
  PROVE  SoundSnapshot(Forgotten(m))
<1> DEFINE n == [m EXCEPT !.status = "UNKNOWN"]
<1>1. /\ n.status = "UNKNOWN" /\ n.current = m.current /\ n.proposal = m.proposal
      /\ n.steps = m.steps /\ n.intent = m.intent
  BY DEF Snapshot
<1>2. n \in Snapshot
  BY StatusType DEF Status
<1>3. SoundSnapshot(n)
  BY <1>1 DEF SoundSnapshot, InOrder, StatusAgrees, CeremonyKept
<1>4. QED
  BY <1>2, <1>3, BumpSound DEF Forgotten

(* The fields of a snapshot with one step marked. *)
LEMMA Marked ==
  ASSUME NEW m \in Snapshot, NEW p \in Phases, NEW mark \in StepStatus
  PROVE  LET n == completeStep(m, p, mark) IN
         /\ n \in Snapshot
         /\ n.current = p /\ n.steps[p] = mark
         /\ \A q \in Phases \ {p} : n.steps[q] = m.steps[q]
         /\ n.status = m.status /\ n.intent = m.intent /\ n.proposal = m.proposal
<1> DEFINE n == completeStep(m, p, mark)
<1>1. n \in Snapshot
  BY CompleteStepType
<1>2. /\ n.current = p /\ n.steps = [m.steps EXCEPT ![p] = mark]
      /\ n.status = m.status /\ n.intent = m.intent /\ n.proposal = m.proposal
  BY DEF completeStep, Snapshot
<1>3. m.steps \in [Phases -> StepStatus]
  BY DEF Snapshot
<1>4. n.steps[p] = mark /\ \A q \in Phases \ {p} : n.steps[q] = m.steps[q]
  BY <1>2, <1>3
<1>5. QED
  BY <1>1, <1>2, <1>4

(* Marking the phase a mission is ready for keeps the plan in order. *)
LEMMA MarkedInOrder ==
  ASSUME NEW m \in Snapshot, NEW p, Ready(m, p), NEW n,
         n.current = p, n.steps[p] # "ABSENT",
         \A q \in Phases \ {p} : n.steps[q] = m.steps[q]
  PROVE  InOrder(n)
<1>1. p \in Phases /\ p \in Int /\ \A q \in Phases : q \in Int
  BY PhaseNumbers DEF Ready
<1>2. QED
  BY <1>1 DEF Ready, InOrder

(* So a conditional phase may be skipped where nothing triggers it ... *)
LEMMA SkipSound ==
  ASSUME NEW m \in Snapshot, SoundSnapshot(m), NEW p, Prepared(m, p, "SKIP")
  PROVE  SoundSnapshot(completeStep(m, p, "SKIPPED"))
<1> DEFINE n == completeStep(m, p, "SKIPPED")
<1>1. Ready(m, p)
  BY PreparedIsReady
<1>2. p \in Phases /\ p \in Conditional(m.intent) /\ ~hasTriggeringCondition(m)
  BY <1>1, PreparedStep DEF Prepared, Ready
<1>3. /\ n.current = p /\ n.steps[p] = "SKIPPED"
      /\ \A q \in Phases \ {p} : n.steps[q] = m.steps[q]
      /\ n.status = m.status /\ n.intent = m.intent /\ n.proposal = m.proposal
  BY <1>2, Marked DEF StepStatus
<1>4. InOrder(n)
  BY <1>1, <1>3, MarkedInOrder
<1>5. p \in {RECONCILE, PROPOSE, APPROVE, EXECUTE, CLOSE}
  BY <1>2 DEF Conditional, Snapshot, EdaIntent, EDA_INTENTS, HARNESS_INTENTS
<1>6. StatusAgrees(n)
  BY <1>1, <1>3, <1>5, PhaseNumbers DEF Ready, StatusAgrees, Passed
<1>7. CeremonyKept(n)
  <2>1. ~m.proposal
    BY <1>2 DEF hasTriggeringCondition
  <2>2. \A q \in Phases : n.steps[q] = "SKIPPED" => q \in Conditional(n.intent)
    BY <1>2, <1>3 DEF SoundSnapshot, CeremonyKept
  <2>3. n.steps[PROPOSE] # "COMPLETED"
    BY <1>3, <2>1, PhaseNumbers DEF SoundSnapshot, CeremonyKept
  <2>4. n.steps[APPROVE] \in Passed => n.steps[APPROVE] = "SKIPPED"
    BY <1>3, PhaseNumbers DEF SoundSnapshot, CeremonyKept
  <2>5. QED
    BY <1>3, <2>1, <2>2, <2>3, <2>4 DEF CeremonyKept, Snapshot
<1>8. QED
  BY <1>4, <1>6, <1>7 DEF SoundSnapshot

(* ... a phase outside the lifecycle, or ingest, completed phase-only ... *)
LEMMA RunSound ==
  ASSUME NEW m \in Snapshot, SoundSnapshot(m), NEW p, Prepared(m, p, "RUN"),
         p \notin LifecyclePhases \ {INGEST}
  PROVE  SoundSnapshot([completeStep(m, p, "COMPLETED")
                          EXCEPT !.proposal = m.proposal \/ p = PROPOSE])
<1> DEFINE marked == completeStep(m, p, "COMPLETED")
           n == [marked EXCEPT !.proposal = m.proposal \/ p = PROPOSE]
<1>1. Ready(m, p)
  BY PreparedIsReady
<1>2. p \in Phases
  BY <1>1 DEF Ready
<1>3. /\ marked \in Snapshot
      /\ marked.current = p /\ marked.steps[p] = "COMPLETED"
      /\ \A q \in Phases \ {p} : marked.steps[q] = m.steps[q]
      /\ marked.status = m.status /\ marked.intent = m.intent
  BY <1>2, Marked DEF StepStatus
<1>4. /\ n.current = marked.current /\ n.steps = marked.steps
      /\ n.status = marked.status /\ n.intent = marked.intent
      /\ n.proposal = (m.proposal \/ p = PROPOSE)
  BY <1>3 DEF Snapshot
<1>5. InOrder(n)
  <2>1. /\ n.current = p /\ n.steps[p] # "ABSENT"
        /\ \A q \in Phases \ {p} : n.steps[q] = m.steps[q]
    BY <1>3, <1>4
  <2> HIDE DEF n
  <2>2. QED
    BY <1>1, <2>1, MarkedInOrder
<1>6. m.status = "RUNNING" /\ p \in BIND_SCOPE .. CLOSE /\ p # APPROVE
  BY <1>1, <1>2, PhaseNumbers DEF Ready, LifecyclePhases
<1>7. StatusAgrees(n)
  BY <1>3, <1>4, <1>6 DEF StatusAgrees, Passed
<1>8. CeremonyKept(n)
  <2>1. \A q \in Phases : n.steps[q] = "SKIPPED" => q \in Conditional(n.intent)
    BY <1>3, <1>4 DEF SoundSnapshot, CeremonyKept
  <2>2. n.proposal <=> n.steps[PROPOSE] = "COMPLETED"
    <3>1. CASE p = PROPOSE
      BY <1>3, <1>4, <3>1
    <3>2. CASE p # PROPOSE
      <4>1. n.steps[PROPOSE] = m.steps[PROPOSE]
        BY <1>3, <1>4, <3>2, PhaseNumbers
      <4>2. n.proposal <=> m.proposal
        BY <1>4, <3>2
      <4>3. m.proposal <=> m.steps[PROPOSE] = "COMPLETED"
        BY DEF SoundSnapshot, CeremonyKept
      <4> HIDE DEF n
      <4>4. QED
        BY <4>1, <4>2, <4>3
    <3>3. QED
      BY <3>1, <3>2
  <2>3. n.steps[APPROVE] \in Passed => ~n.proposal /\ n.steps[APPROVE] = "SKIPPED"
    <3>1. n.steps[APPROVE] = m.steps[APPROVE]
      BY <1>3, <1>4, <1>6, PhaseNumbers
    <3>2. p = PROPOSE => m.steps[APPROVE] = "PENDING"
      BY <1>1, PhaseNumbers DEF Ready
    <3>3. QED
      BY <1>4, <3>1, <3>2 DEF SoundSnapshot, CeremonyKept, Passed
  <2>4. QED
    BY <2>1, <2>2, <2>3 DEF CeremonyKept
<1>9. QED
  BY <1>5, <1>7, <1>8 DEF SoundSnapshot

(* ... and the engine's execute command given for a lifecycle phase. *)
LEMMA ExecuteSound ==
  ASSUME NEW m \in Snapshot, SoundSnapshot(m), NEW p \in LifecyclePhases,
         Prepared(m, p, "RUN")
  PROVE  SoundSnapshot(ExecuteTarget(m))
<1>1. Ready(m, p)
  BY PreparedIsReady
<1>2. p \in Phases
  BY <1>1 DEF Ready
<1>3. ExecuteTarget(m) = genericIntentHandler(m, p)
  BY DEF ExecuteTarget, Prepared
<1>4. ASSUME NEW n, NEW mark \in {"COMPLETED", "IN_PROGRESS"},
             n.current = p, n.steps[p] = mark,
             \A q \in Phases \ {p} : n.steps[q] = m.steps[q],
             n.intent = m.intent, n.proposal = m.proposal,
             p = APPROVE => mark = "IN_PROGRESS"
      PROVE  InOrder(n) /\ CeremonyKept(n)
  <2>1. InOrder(n)
    BY <1>1, <1>4, MarkedInOrder
  <2>2. \A q \in Phases : n.steps[q] = "SKIPPED" => q \in Conditional(n.intent)
    BY <1>4 DEF SoundSnapshot, CeremonyKept
  <2>3. n.steps[PROPOSE] = m.steps[PROPOSE]
    BY <1>4, PhaseNumbers DEF LifecyclePhases
  <2>4. n.steps[APPROVE] \in Passed => n.steps[APPROVE] = m.steps[APPROVE]
    BY <1>4, PhaseNumbers DEF Passed
  <2>5. QED
    BY <1>4, <2>1, <2>2, <2>3, <2>4 DEF SoundSnapshot, CeremonyKept
<1> DEFINE n == ExecuteTarget(m)
<1>5. ASSUME NEW mark \in {"COMPLETED", "IN_PROGRESS"}, NEW status \in Status,
             p = APPROVE => mark = "IN_PROGRESS",
             \/ n = [completeStep(m, p, mark) EXCEPT !.status = status]
             \/ n = [completeStep(m, p, mark) EXCEPT !.status = status, !.alarmed = TRUE]
      PROVE  /\ InOrder(n) /\ CeremonyKept(n)
             /\ n.status = status /\ n.current = p /\ n.steps[p] = mark
  <2> DEFINE x == completeStep(m, p, mark)
  <2>1. /\ x \in Snapshot /\ x.current = p /\ x.steps[p] = mark
        /\ \A q \in Phases \ {p} : x.steps[q] = m.steps[q]
        /\ x.intent = m.intent /\ x.proposal = m.proposal
    <3>1. mark \in StepStatus
      BY DEF StepStatus
    <3>2. QED
      BY <1>2, <3>1, Marked
  <2>2. /\ n.status = status /\ n.current = x.current /\ n.steps = x.steps
        /\ n.intent = x.intent /\ n.proposal = x.proposal
    <3> HIDE DEF x
    <3>1. CASE n = [x EXCEPT !.status = status]
      BY <2>1, <3>1 DEF Snapshot
    <3>2. CASE n = [x EXCEPT !.status = status, !.alarmed = TRUE]
      BY <2>1, <3>2 DEF Snapshot
    <3>3. QED
      BY <1>5, <3>1, <3>2 DEF x
  <2>3. QED
    BY <1>4, <1>5, <2>1, <2>2
<1>6. StatusAgrees(n) /\ InOrder(n) /\ CeremonyKept(n)
  <2>1. CASE p = INTAKE
    <3>1. n = [completeStep(m, p, "COMPLETED") EXCEPT !.status = "QUEUED"]
      BY <1>3, <2>1, PhaseNumbers DEF genericIntentHandler
    <3>2. /\ InOrder(n) /\ CeremonyKept(n) /\ n.status = "QUEUED"
          /\ n.current = p /\ n.steps[p] = "COMPLETED"
      BY <1>5, <2>1, <3>1, PhaseNumbers DEF Status
    <3>3. QED
      BY <2>1, <3>2, PhaseNumbers DEF StatusAgrees, Passed
  <2>2. CASE p = BIND_SCOPE
    <3>1. n = [completeStep(m, p, "COMPLETED") EXCEPT !.status = "RUNNING"]
      BY <1>3, <2>2, PhaseNumbers DEF genericIntentHandler
    <3>2. /\ InOrder(n) /\ CeremonyKept(n) /\ n.status = "RUNNING"
          /\ n.current = p /\ n.steps[p] = "COMPLETED"
      BY <1>5, <2>2, <3>1, PhaseNumbers DEF Status
    <3>3. QED
      BY <2>2, <3>2, PhaseNumbers DEF StatusAgrees, Passed
  <2>3. CASE p = INGEST
    <3>1. n = [completeStep(m, p, "IN_PROGRESS")
                 EXCEPT !.status = "WAITING_FOR_EVIDENCE", !.alarmed = TRUE]
      BY <1>3, <2>3, PhaseNumbers DEF genericIntentHandler, markInProgress
    <3>2. /\ InOrder(n) /\ CeremonyKept(n) /\ n.status = "WAITING_FOR_EVIDENCE"
          /\ n.current = p /\ n.steps[p] = "IN_PROGRESS"
      BY <1>5, <2>3, <3>1, PhaseNumbers DEF Status
    <3>3. QED
      BY <2>3, <3>2, PhaseNumbers DEF StatusAgrees, Passed
  <2>4. CASE p = APPROVE
    <3>1. n = [completeStep(m, p, "IN_PROGRESS") EXCEPT !.status = "AWAITING_APPROVAL"]
      BY <1>3, <2>4, PhaseNumbers DEF genericIntentHandler, markInProgress
    <3>2. /\ InOrder(n) /\ CeremonyKept(n) /\ n.status = "AWAITING_APPROVAL"
          /\ n.current = p /\ n.steps[p] = "IN_PROGRESS"
      BY <1>5, <2>4, <3>1, PhaseNumbers DEF Status
    <3>3. QED
      BY <2>4, <3>2, PhaseNumbers DEF StatusAgrees, Passed
  <2>5. CASE p = ARCHIVE
    <3>1. n = [completeStep(m, p, "COMPLETED") EXCEPT !.status = "COMPLETED"]
      BY <1>3, <2>5, PhaseNumbers DEF genericIntentHandler
    <3>2. /\ InOrder(n) /\ CeremonyKept(n) /\ n.status = "COMPLETED"
          /\ n.current = p /\ n.steps[p] = "COMPLETED"
      BY <1>5, <2>5, <3>1, PhaseNumbers DEF Status
    <3>3. QED
      BY <2>5, <3>2, PhaseNumbers DEF StatusAgrees, Passed
  <2>6. QED
    BY <2>1, <2>2, <2>3, <2>4, <2>5 DEF LifecyclePhases
<1>7. QED
  BY <1>6 DEF SoundSnapshot

(***************************************************************************)
(* The session: what it was decided on is what the store holds.            *)
(***************************************************************************)
OneSession == \A s, t \in Sessions : s = t

Sure(w, store) ==
  /\ w.pc = "refresh" =>
       /\ w.base = store[w.mission]
       /\ \/ w.op = "plan" /\ w.base.current = NoPhase
          \/ w.op = "skip" /\ Prepared(w.base, w.phase, "SKIP")
          \/ /\ w.op = "run" /\ Prepared(w.base, w.phase, "RUN")
             /\ w.phase \notin LifecyclePhases \ {INGEST}
  /\ w.pc \in {"get", "load"} =>
       /\ w.base = store[w.mission]
       /\ Prepared(w.base, w.phase, "RUN") /\ w.phase \in LifecyclePhases
  /\ w.pc = "execute" =>
       /\ w.next = store[w.mission]
       /\ Prepared(w.next, w.phase, "RUN") /\ w.phase \in LifecyclePhases
  /\ w.pc \in {"save", "append"} => SoundSnapshot(w.next)
  /\ w.pc = "append" /\ w.op = "start" =>
       w.next = store[w.mission] /\ w.next.current = NoPhase
  /\ \A found \in w.todo :
       found.snapshot.status = "RUNNING" /\ SoundSnapshot(found.snapshot)
  /\ w.pc \in {"get", "load", "execute", "save"} => w.op # "start"
  /\ w.pc \in {"find", "recover"} => w.op = "recover"

StoreSound(store) == \A m \in DOMAIN store : SoundSnapshot(store[m])
LogsSound(logs) == \A m \in Missions : \A i \in DOMAIN logs[m] : SoundSnapshot(logs[m][i])

SoundInv ==
  /\ StoreSound(snapshots)
  /\ LogsSound(events)
  /\ \A s \in Sessions : Sure(sess[s], snapshots)

(* What the step of the only session must establish. *)
LEMMA SoundFrame ==
  ASSUME OneSession, TypeInv, NEW s \in Sessions, NEW v,
         sess' = [sess EXCEPT ![s] = v], Sure(v, snapshots'),
         StoreSound(snapshots'), LogsSound(events')
  PROVE  SoundInv'
<1>1. \A t \in Sessions : sess'[t] = v
  BY DEF OneSession, TypeInv, SessionsOK
<1>2. QED
  BY <1>1 DEF SoundInv

(* A session that moves over unchanged stores. *)
LEMMA SoundQuiet ==
  ASSUME OneSession, TypeInv, SoundInv, NEW s \in Sessions, NEW v,
         sess' = [sess EXCEPT ![s] = v], Sure(v, snapshots),
         UNCHANGED <<snapshots, events>>
  PROVE  SoundInv'
  BY SoundFrame DEF SoundInv

(* A session with nothing at stake. *)
LEMMA Careless ==
  ASSUME NEW v, NEW store,
         v.pc \notin {"refresh", "get", "load", "execute", "save", "append"},
         v.pc \notin {"find", "recover"} \/ v.op = "recover",
         v.todo = {}
  PROVE  Sure(v, store)
  BY DEF Sure

LEMMA SoundEnd ==
  ASSUME OneSession, TypeInv, SoundInv, NEW s \in Sessions, NEW phase,
         Finish(s, phase), UNCHANGED <<snapshots, events>>
  PROVE  SoundInv'
<1> DEFINE v == [Idle EXCEPT !.report = phase]
<1>1. v.pc = "idle" /\ v.todo = {}
  BY DEF Idle
<1>2. Sure(v, snapshots)
  BY <1>1, Careless
<1>3. QED
  BY <1>2, SoundQuiet DEF Finish

(* Storing and logging sound snapshots. *)
LEMMA PutSound ==
  ASSUME NEW store, NEW m, NEW snapshot, StoreSound(store), SoundSnapshot(snapshot)
  PROVE  StoreSound(Put(store, m, snapshot))
  BY DEF StoreSound, Put

LEMMA LoggedSound ==
  ASSUME TypeInv, NEW m \in Missions, NEW snapshot \in Snapshot,
         LogsSound(events), SoundSnapshot(snapshot)
  PROVE  LogsSound(Logged(m, snapshot))
<1> DEFINE log == events[m]
<1>1. events \in [Missions -> Seq(Snapshot)] /\ log \in Seq(Snapshot)
  BY DEF TypeInv, StoresOK
<1>2. \A i \in DOMAIN Append(log, snapshot) :
        \/ i \in DOMAIN log /\ Append(log, snapshot)[i] = log[i]
        \/ Append(log, snapshot)[i] = snapshot
  BY <1>1
<1>3. \A i \in DOMAIN Append(log, snapshot) : SoundSnapshot(Append(log, snapshot)[i])
  BY <1>2 DEF LogsSound
<1>4. CASE m \in torn
  BY <1>4 DEF Logged
<1>5. CASE m \notin torn
  <2>1. /\ Logged(m, snapshot)[m] = Append(log, snapshot)
        /\ \A n \in Missions \ {m} : Logged(m, snapshot)[n] = events[n]
    BY <1>1, <1>5 DEF Logged
  <2>2. QED
    BY <1>3, <2>1 DEF LogsSound
<1>6. QED
  BY <1>4, <1>5

LEMMA SoundInit == Init => SoundInv
<1> SUFFICES ASSUME Init PROVE SoundInv
  OBVIOUS
<1>1. StoreSound(snapshots) /\ LogsSound(events)
  BY DEF Init, StoreSound, LogsSound
<1>2. \A s \in Sessions : sess[s].pc = "idle" /\ sess[s].todo = {}
  BY DEF Init, Idle
<1>3. QED
  BY <1>1, <1>2, Careless DEF SoundInv

LEMMA SoundBegin ==
  ASSUME OneSession, TypeInv, SoundInv, NEW s \in Sessions,
         \/ \E m \in Missions, i \in Intents : StartMission(s, m, i)
         \/ \E m \in Missions, mode \in Modes : Advance(s, m, mode)
         \/ RecoverScan(s)
  PROVE  SoundInv'
<1>1. ASSUME NEW m \in Missions, NEW i \in Intents, StartMission(s, m, i)
      PROVE  SoundInv'
  <2> DEFINE v == [Idle EXCEPT !.pc = "append", !.op = "start", !.mission = m,
                               !.next = Started(i)]
  <2>1. SoundSnapshot(Started(i)) /\ Started(i).current = NoPhase
    BY StartedSound, IntentsAssumption DEF EdaIntent
  <2>2. snapshots' = Put(snapshots, m, Started(i)) /\ events' = events
        /\ sess' = [sess EXCEPT ![s] = v]
    BY <1>1 DEF StartMission
  <2>3. StoreSound(snapshots') /\ snapshots'[m] = Started(i)
    <3>1. snapshots'[m] = Started(i)
      BY <2>2 DEF Put
    <3>2. QED
      BY <2>1, <2>2, <3>1, PutSound DEF SoundInv
  <2>4. v.pc = "append" /\ v.mission = m /\ v.next = Started(i) /\ v.todo = {}
    BY DEF Idle
  <2>5. Sure(v, snapshots')
    BY <2>1, <2>3, <2>4 DEF Sure
  <2>6. QED
    BY <2>2, <2>3, <2>5, SoundFrame DEF SoundInv
<1>2. ASSUME NEW m \in Missions, NEW mode \in Modes, ReportOnly(s, m, mode)
      PROVE  SoundInv'
  BY <1>2, SoundEnd DEF ReportOnly, disk
<1>3. ASSUME NEW m \in Missions, NEW pc \in {"refresh", "get"}, NEW op,
             Decide(s, m, pc, op), UNCHANGED <<snapshots, events>>,
             LET prepared == derivePreparedStep(snapshots[m]) IN
             \/ pc = "refresh" /\ op = "skip" /\ prepared.disposition = "SKIP"
             \/ /\ pc = "refresh" /\ op = "run" /\ prepared.disposition = "RUN"
                /\ prepared.phase \notin LifecyclePhases \ {INGEST}
             \/ /\ pc = "get" /\ op = "apply" /\ prepared.disposition = "RUN"
                /\ prepared.phase \in LifecyclePhases
      PROVE  SoundInv'
  <2> DEFINE v == [Idle EXCEPT !.pc = pc, !.op = op, !.mission = m,
                               !.phase = derivePreparedStep(snapshots[m]).phase,
                               !.base = snapshots[m]]
  <2>1. /\ v.pc = pc /\ v.op = op /\ v.mission = m /\ v.base = snapshots[m]
        /\ v.phase = derivePreparedStep(snapshots[m]).phase /\ v.todo = {}
    BY DEF Idle
  <2>2. Sure(v, snapshots)
    BY <1>3, <2>1 DEF Sure, Prepared
  <2>3. QED
    BY <1>3, <2>2, SoundQuiet DEF Decide
<1>4. ASSUME NEW m \in Missions, NEW mode \in Modes,
             \/ AdvanceSkip(s, m, mode) \/ AdvancePhaseOnly(s, m, mode)
             \/ AdvanceCommand(s, m, mode)
      PROVE  SoundInv'
  <2>1. CASE AdvanceSkip(s, m, mode)
    BY <1>3, <2>1 DEF AdvanceSkip, disk
  <2>2. CASE AdvancePhaseOnly(s, m, mode)
    BY <1>3, <2>2 DEF AdvancePhaseOnly, ViaEngine, disk
  <2>3. CASE AdvanceCommand(s, m, mode)
    <3>1. derivePreparedStep(snapshots[m]).phase \in LifecyclePhases
      BY <2>3 DEF AdvanceCommand, ViaEngine, LifecyclePhases
    <3>2. QED
      BY <1>3, <2>3, <3>1 DEF AdvanceCommand, disk
  <2>4. QED
    BY <1>4, <2>1, <2>2, <2>3
<1>5. CASE RecoverScan(s)
  <2> DEFINE v == [Idle EXCEPT !.pc = "find", !.op = "recover",
                               !.preserved = Consistent]
  <2>1. v.pc = "find" /\ v.op = "recover" /\ v.todo = {}
    BY DEF Idle
  <2>2. Sure(v, snapshots)
    BY <2>1, Careless
  <2>3. UNCHANGED <<snapshots, events>>
    BY <1>5 DEF RecoverScan
  <2>4. Finish(s, NoPhase) \/ sess' = [sess EXCEPT ![s] = v]
    BY <1>5 DEF RecoverScan
  <2>5. QED
    BY <2>2, <2>3, <2>4, SoundQuiet, SoundEnd
<1>6. QED
  BY <1>1, <1>2, <1>4, <1>5 DEF Advance

LEMMA SoundUpdate ==
  ASSUME OneSession, TypeInv, SoundInv, NEW s \in Sessions,
         Refresh(s) \/ SaveSnapshot(s) \/ LogEvent(s)
  PROVE  SoundInv'
<1> DEFINE w == sess[s]
<1>0. /\ w \in Session /\ Placed(w, DOMAIN snapshots)
      /\ Sure(w, snapshots) /\ sess \in [Sessions -> Session]
      /\ StoreSound(snapshots) /\ LogsSound(events)
  BY DEF TypeInv, SessionsOK, AllPlaced, SoundInv
<1>a. w.mission \in DOMAIN snapshots /\ w.mission \in Missions
  BY <1>0 DEF Refresh, SaveSnapshot, LogEvent, Placed, AtMission, TypeInv,
              StoresOK, Documents
<1>b. snapshots[w.mission] \in Snapshot /\ SoundSnapshot(snapshots[w.mission])
  BY <1>0, <1>a DEF TypeInv, StoresOK, Documents, StoreSound
<1>c. w.next \in Snapshot /\ w.base \in Snapshot
  BY <1>0 DEF Session
<1>1. CASE Refresh(s)
  <2> DEFINE mutated == Mutated(w.op, w.phase, snapshots[w.mission])
             v == [w EXCEPT !.pc = "save", !.next = Bump(mutated)]
  <2>1. UNCHANGED <<snapshots, events>>
    BY <1>1 DEF Refresh, disk
  <2>2. sess' = [sess EXCEPT ![s] = v] \/ Finish(s, NoPhase)
    BY <1>0, <1>1 DEF Refresh
  <2>3. mutated \in Snapshot /\ SoundSnapshot(mutated)
    <3>1. /\ w.base = snapshots[w.mission]
          /\ \/ w.op = "plan" /\ w.base.current = NoPhase
             \/ w.op = "skip" /\ Prepared(w.base, w.phase, "SKIP")
             \/ /\ w.op = "run" /\ Prepared(w.base, w.phase, "RUN")
                /\ w.phase \notin LifecyclePhases \ {INGEST}
      BY <1>0, <1>1 DEF Refresh, Sure
    <3>2. mutated \in Snapshot
      <4>1. w.op \in {"skip", "run"} => w.phase \in Phases
        BY <1>0 DEF Placed
      <4>2. w.phase \in Phases \cup {NoPhase}
        BY <1>0 DEF Session
      <4>3. w.op \in {"plan", "skip", "run"}
        BY <3>1
      <4>4. QED
        BY <1>b, <4>1, <4>2, <4>3, MutatedType
    <3>3. CASE w.op = "plan"
      BY <1>b, <3>1, <3>2, <3>3, PlanSound DEF Mutated
    <3>4. CASE w.op = "skip"
      BY <1>b, <3>1, <3>2, <3>4, SkipSound DEF Mutated
    <3>5. CASE w.op = "run"
      BY <1>b, <3>1, <3>2, <3>5, RunSound DEF Mutated
    <3>6. QED
      BY <3>1, <3>2, <3>3, <3>4, <3>5
  <2>4. SoundSnapshot(Bump(mutated))
    BY <2>3, BumpSound
  <2>5. /\ v.pc = "save" /\ v.next = Bump(mutated) /\ v.todo = w.todo
        /\ v.op = w.op
    BY <1>0 DEF Session
  <2>6. Sure(v, snapshots)
    BY <1>0, <1>1, <2>4, <2>5 DEF Sure, Refresh, Placed
  <2>7. QED
    BY <2>1, <2>2, <2>6, SoundQuiet, SoundEnd
<1>2. CASE SaveSnapshot(s)
  <2> DEFINE v == [w EXCEPT !.pc = "append"]
  <2>1. SoundSnapshot(w.next) /\ w.op # "start"
    BY <1>0, <1>2 DEF SaveSnapshot, Sure
  <2>2. /\ snapshots' = Put(snapshots, w.mission, w.next) /\ events' = events
        /\ sess' = [sess EXCEPT ![s] = v]
    BY <1>0, <1>2 DEF SaveSnapshot
  <2>3. StoreSound(snapshots')
    BY <1>0, <2>1, <2>2, PutSound
  <2>4. v.pc = "append" /\ v.op = w.op /\ v.next = w.next /\ v.todo = w.todo
    BY <1>0 DEF Session
  <2>5. Sure(v, snapshots')
    BY <1>0, <2>1, <2>4 DEF Sure
  <2>6. QED
    BY <1>0, <2>2, <2>3, <2>5, SoundFrame
<1>3. CASE LogEvent(s)
  <2>1. /\ SoundSnapshot(w.next)
        /\ w.op = "start" => w.next = snapshots[w.mission] /\ w.next.current = NoPhase
    BY <1>0, <1>3 DEF LogEvent, Sure
  <2>2. events' = Logged(w.mission, w.next) /\ UNCHANGED snapshots
    BY <1>3 DEF LogEvent
  <2>3. LogsSound(events') /\ StoreSound(snapshots')
    BY <1>0, <1>a, <1>c, <2>1, <2>2, LoggedSound
  <2>4. ASSUME NEW v, sess' = [sess EXCEPT ![s] = v], Sure(v, snapshots')
        PROVE  SoundInv'
    BY <2>3, <2>4, SoundFrame
  <2>5. CASE w.op = "start"
    <3> DEFINE v == [w EXCEPT !.pc = "refresh", !.op = "plan", !.base = w.next]
    <3>1. sess' = [sess EXCEPT ![s] = v]
      BY <1>0, <1>3, <2>5 DEF LogEvent
    <3>2. /\ v.pc = "refresh" /\ v.op = "plan" /\ v.base = w.next
          /\ v.mission = w.mission /\ v.todo = w.todo
      BY <1>0 DEF Session
    <3>3. Sure(v, snapshots')
      BY <1>0, <2>1, <2>2, <2>5, <3>2 DEF Sure
    <3>4. QED
      BY <2>4, <3>1, <3>3
  <2>6. CASE w.op \in {"plan", "skip", "run"}
    <3> DEFINE v == [Idle EXCEPT !.report = w.phase]
    <3>1. sess' = [sess EXCEPT ![s] = v]
      BY <1>3, <2>6 DEF LogEvent, Finish
    <3>2. v.pc = "idle" /\ v.todo = {}
      BY DEF Idle
    <3>3. QED
      BY <2>4, <3>1, <3>2, Careless
  <2>7. CASE w.op = "apply"
    <3> DEFINE v == [w EXCEPT !.pc = "seal"]
    <3>1. sess' = [sess EXCEPT ![s] = v]
      BY <1>0, <1>3, <2>7 DEF LogEvent
    <3>2. v.pc = "seal" /\ v.todo = w.todo
      BY <1>0 DEF Session
    <3>3. Sure(v, snapshots')
      BY <1>0, <3>2 DEF Sure
    <3>4. QED
      BY <2>4, <3>1, <3>3
  <2>8. CASE w.op = "recover"
    <3>1. CASE sess' = [sess EXCEPT ![s] = [Idle EXCEPT !.preserved = w.preserved]]
      <4> DEFINE v == [Idle EXCEPT !.preserved = w.preserved]
      <4>1. v.pc = "idle" /\ v.todo = {}
        BY DEF Idle
      <4>2. QED
        BY <2>4, <3>1, <4>1, Careless
    <3>2. CASE sess' = [sess EXCEPT ![s] = [w EXCEPT !.pc = "recover"]]
      <4> DEFINE v == [w EXCEPT !.pc = "recover"]
      <4>1. v.pc = "recover" /\ v.op = w.op /\ v.todo = w.todo
        BY <1>0 DEF Session
      <4>2. Sure(v, snapshots')
        BY <1>0, <2>8, <4>1 DEF Sure
      <4>3. QED
        BY <2>4, <3>2, <4>2
    <3>3. QED
      BY <1>3, <2>8, <3>1, <3>2 DEF LogEvent
  <2>9. QED
    BY <1>3, <2>5, <2>6, <2>7, <2>8 DEF LogEvent
<1>4. QED
  BY <1>1, <1>2, <1>3

LEMMA SoundApply ==
  ASSUME OneSession, TypeInv, SoundInv, NEW s \in Sessions,
         \/ ReplayKey(s) \/ NewKey(s) \/ LoadMission(s)
         \/ ExecuteCommand(s) \/ SealKey(s) \/ FailKey(s)
  PROVE  SoundInv'
<1> DEFINE w == sess[s]
<1>0. /\ w \in Session /\ Sure(w, snapshots) /\ sess \in [Sessions -> Session]
  BY DEF TypeInv, SessionsOK, SoundInv
<1>1. UNCHANGED <<snapshots, events>>
  BY DEF ReplayKey, NewKey, LoadMission, ExecuteCommand, SealKey, FailKey, disk
<1>2. CASE ReplayKey(s) \/ SealKey(s) \/ FailKey(s)
  BY <1>1, <1>2, SoundEnd DEF ReplayKey, SealKey, FailKey
<1>3. CASE NewKey(s)
  <2> DEFINE v == [w EXCEPT !.pc = "load"]
  <2>1. sess' = [sess EXCEPT ![s] = v]
    BY <1>0, <1>3 DEF NewKey
  <2>2. /\ v.pc = "load" /\ v.base = w.base /\ v.mission = w.mission
        /\ v.phase = w.phase /\ v.todo = w.todo
    BY <1>0 DEF Session
  <2>3. Sure(v, snapshots)
    BY <1>0, <1>3, <2>2 DEF Sure, NewKey
  <2>4. QED
    BY <1>1, <2>1, <2>3, SoundQuiet
<1>4. CASE LoadMission(s)
  <2> DEFINE v == [w EXCEPT !.pc = "execute", !.next = snapshots[w.mission]]
  <2>1. sess' = [sess EXCEPT ![s] = v]
    BY <1>0, <1>4 DEF LoadMission
  <2>2. /\ v.pc = "execute" /\ v.next = snapshots[w.mission]
        /\ v.mission = w.mission /\ v.phase = w.phase /\ v.todo = w.todo
    BY <1>0 DEF Session
  <2>3. Sure(v, snapshots)
    BY <1>0, <1>4, <2>2 DEF Sure, LoadMission
  <2>4. QED
    BY <1>1, <2>1, <2>3, SoundQuiet
<1>5. CASE ExecuteCommand(s)
  <2> DEFINE target == ExecuteTarget(w.next)
  <2>1. CASE sess' = [sess EXCEPT ![s].pc = "save", ![s].next = Bump(target)]
    <3> DEFINE v == [w EXCEPT !.pc = "save", !.next = Bump(target)]
    <3>1. w.next = snapshots[w.mission]
          /\ Prepared(w.next, w.phase, "RUN") /\ w.phase \in LifecyclePhases
      BY <1>0, <1>5 DEF Sure, ExecuteCommand
    <3>2. w.next \in Snapshot /\ SoundSnapshot(w.next)
      BY <1>0, <1>5, <3>1 DEF Session, TypeInv, AllPlaced, Placed, AtMission,
                              ExecuteCommand, SoundInv, StoreSound
    <3>3. target \in Snapshot /\ SoundSnapshot(target)
      BY <3>1, <3>2, ExecuteSound, ExecuteTargetType
    <3>4. SoundSnapshot(Bump(target))
      BY <3>3, BumpSound
    <3>5. /\ v.pc = "save" /\ v.next = Bump(target) /\ v.todo = w.todo
          /\ v.op = w.op
      BY <1>0 DEF Session
    <3>6. w.op # "start"
      BY <1>0, <1>5 DEF Sure, ExecuteCommand
    <3>7. Sure(v, snapshots)
      BY <1>0, <3>4, <3>5, <3>6 DEF Sure
    <3>8. sess' = [sess EXCEPT ![s] = v]
      BY <1>0, <2>1
    <3>9. QED
      BY <1>1, <3>7, <3>8, SoundQuiet
  <2>2. CASE sess' = [sess EXCEPT ![s].pc = "fail"]
    <3> DEFINE v == [w EXCEPT !.pc = "fail"]
    <3>1. v.pc = "fail" /\ v.todo = w.todo
      BY <1>0 DEF Session
    <3>2. Sure(v, snapshots)
      BY <1>0, <3>1 DEF Sure
    <3>3. sess' = [sess EXCEPT ![s] = v]
      BY <1>0, <2>2
    <3>4. QED
      BY <1>1, <3>2, <3>3, SoundQuiet
  <2>3. QED
    BY <1>5, <2>1, <2>2 DEF ExecuteCommand
<1>6. QED
  BY <1>2, <1>3, <1>4, <1>5

LEMMA SoundRecover ==
  ASSUME OneSession, TypeInv, SoundInv, NEW s \in Sessions,
         RecoverFind(s) \/ RecoverSave(s)
  PROVE  SoundInv'
<1> DEFINE w == sess[s]
<1>0. /\ w \in Session /\ Sure(w, snapshots) /\ sess \in [Sessions -> Session]
      /\ StoreSound(snapshots) /\ LogsSound(events)
  BY DEF TypeInv, SessionsOK, SoundInv
<1>1. CASE RecoverFind(s)
  <2> DEFINE running == {m \in DOMAIN snapshots : snapshots[m].status = "RUNNING"}
             left == w.preserved \ running
             v == [w EXCEPT !.pc = "recover", !.preserved = left,
                            !.todo = Read(running)]
             u == [Idle EXCEPT !.preserved = left]
  <2>1. UNCHANGED <<snapshots, events>>
    BY <1>1 DEF RecoverFind, disk
  <2>2. sess' = [sess EXCEPT ![s] = v] \/ sess' = [sess EXCEPT ![s] = u]
    BY <1>1 DEF RecoverFind
  <2>3. u.pc = "idle" /\ u.todo = {}
    BY DEF Idle
  <2>4. v.pc = "recover" /\ v.op = "recover" /\ v.todo = Read(running)
    BY <1>0, <1>1 DEF Session, Sure, RecoverFind
  <2>5. \A found \in Read(running) :
          found.snapshot.status = "RUNNING" /\ SoundSnapshot(found.snapshot)
    BY <1>0 DEF Read, StoreSound
  <2>6. Sure(v, snapshots)
    BY <2>4, <2>5 DEF Sure
  <2>7. Sure(u, snapshots)
    BY <2>3, Careless
  <2>8. QED
    BY <2>1, <2>2, <2>6, <2>7, SoundQuiet
<1>2. CASE RecoverSave(s)
  <2>1. PICK found \in w.todo :
          /\ snapshots' = Put(snapshots, found.mission, Forgotten(found.snapshot))
          /\ sess' = [sess EXCEPT ![s] =
                        [w EXCEPT !.pc = "append", !.mission = found.mission,
                                  !.next = Forgotten(found.snapshot),
                                  !.todo = w.todo \ {found}]]
    BY <1>2 DEF RecoverSave
  <2> DEFINE v == [w EXCEPT !.pc = "append", !.mission = found.mission,
                            !.next = Forgotten(found.snapshot),
                            !.todo = w.todo \ {found}]
  <2>2. found.snapshot \in Snapshot
    BY <1>0 DEF Session
  <2>3. SoundSnapshot(Forgotten(found.snapshot))
    BY <1>0, <2>2, ForgottenSound DEF Sure
  <2>4. StoreSound(snapshots') /\ events' = events
    BY <1>0, <1>2, <2>1, <2>3, PutSound DEF RecoverSave
  <2>5. /\ v.pc = "append" /\ v.op = w.op /\ v.next = Forgotten(found.snapshot)
        /\ v.todo = w.todo \ {found}
    BY <1>0 DEF Session
  <2>6. w.op = "recover"
    BY <1>0, <1>2 DEF Sure, RecoverSave
  <2>7. Sure(v, snapshots')
    BY <1>0, <2>3, <2>5, <2>6 DEF Sure
  <2>8. QED
    BY <1>0, <2>1, <2>4, <2>7, SoundFrame
<1>3. QED
  BY <1>1, <1>2

LEMMA SoundFault ==
  ASSUME OneSession, TypeInv, SoundInv, NEW s \in Sessions,
         Crash(s) \/ StoreError(s)
  PROVE  SoundInv'
<1> DEFINE w == sess[s]
           v == [w EXCEPT !.pc = "fail"]
<1>0. w \in Session /\ Sure(w, snapshots)
  BY DEF TypeInv, SessionsOK, SoundInv
<1>1. UNCHANGED <<snapshots, events>>
  BY DEF Crash, StoreError
<1>2. sess' = [sess EXCEPT ![s] = Idle] \/ sess' = [sess EXCEPT ![s] = v]
  <2>1. CASE Crash(s)
    BY <2>1 DEF Crash
  <2>2. CASE StoreError(s)
    <3>1. CASE w.op = "apply" /\ w.pc \in {"save", "append", "seal"}
      BY <2>2, <3>1 DEF StoreError
    <3>2. CASE ~(w.op = "apply" /\ w.pc \in {"save", "append", "seal"})
      BY <2>2, <3>2 DEF StoreError
    <3>3. QED
      BY <3>1, <3>2
  <2>3. QED
    BY <2>1, <2>2
<1>3. Sure(Idle, snapshots)
  <2>1. Idle.pc = "idle" /\ Idle.todo = {}
    BY DEF Idle
  <2>2. QED
    BY <2>1, Careless
<1>4. Sure(v, snapshots)
  <2>1. v.pc = "fail" /\ v.todo = w.todo
    BY <1>0 DEF Session
  <2>2. QED
    BY <1>0, <2>1 DEF Sure
<1>5. QED
  BY <1>1, <1>2, <1>3, <1>4, SoundQuiet

LEMMA SoundStep ==
  OneSession /\ TypeInv /\ SoundInv /\ [Next]_vars => SoundInv'
<1> SUFFICES ASSUME OneSession, TypeInv, SoundInv, [Next]_vars PROVE SoundInv'
  OBVIOUS
<1>1. CASE UNCHANGED vars
  BY <1>1 DEF vars, disk, SoundInv
<1>2. ASSUME NEW s \in Sessions,
             \/ \E m \in Missions, i \in Intents : StartMission(s, m, i)
             \/ \E m \in Missions, mode \in Modes : Advance(s, m, mode)
             \/ RecoverScan(s)
      PROVE  SoundInv'
  BY <1>2, SoundBegin
<1>3. ASSUME NEW s \in Sessions, Step(s) PROVE SoundInv'
  BY <1>3, SoundUpdate, SoundApply, SoundRecover DEF Step
<1>4. ASSUME NEW s \in Sessions, Crash(s) \/ StoreError(s) PROVE SoundInv'
  BY <1>4, SoundFault
<1>5. ASSUME NEW k \in DOMAIN idempotency, Expire(k) PROVE SoundInv'
  BY <1>5 DEF Expire, SoundInv
<1>6. QED
  BY <1>1, <1>2, <1>3, <1>4, <1>5 DEF Next

(***************************************************************************)
(* One session, however it crashes, retries and recovers, keeps every      *)
(* snapshot and every logged event sound: phases in order, a status that   *)
(* agrees with them, and no approval passed under a proposal.              *)
(***************************************************************************)
THEOREM Soundness ==
  ASSUME OneSession
  PROVE  Spec => []SnapshotsSound
<1>1. SoundInv => SnapshotsSound
  BY DEF SoundInv, StoreSound, LogsSound, SnapshotsSound
<1>2. SoundInv /\ TypeInv /\ [Next]_vars => SoundInv'
  BY SoundStep
<1>3. Spec => []SoundInv
  BY TypeInvariant, SoundInit, <1>2, PTL DEF Spec
<1>4. QED
  BY <1>1, <1>3, PTL

------------------------------------------------------------------------------
(***************************************************************************)
(* With one session, the event log of a mission keeps step with its        *)
(* snapshot, and every snapshot replaced is one the promise allows.        *)
(***************************************************************************)

(* What EdaMission allows to become of a mission that is stored already.   *)
Promised(x, y) ==
  LET p == nextPendingPhase(x)
      q == nextPendingPhase(y)
  IN
  /\ y.intent = x.intent
  /\ \/ x.status = "DRAFT" /\ y.status = "DRAFT" /\ p = NoPhase /\ q = INTAKE
     \/ x.status = "DRAFT" /\ y.status = "QUEUED" /\ p = INTAKE /\ q = BIND_SCOPE
     \/ x.status = "QUEUED" /\ y.status = "RUNNING" /\ p = BIND_SCOPE /\ q = INGEST
     \/ /\ x.status = "RUNNING" /\ y.status = "RUNNING"
        /\ p \in INGEST .. CLOSE /\ q = p + 1
        /\ p = APPROVE => APPROVE \in Conditional(x.intent)
     \/ /\ x.status = "RUNNING" /\ y.status = "WAITING_FOR_EVIDENCE"
        /\ p = INGEST /\ q = INGEST
     \/ /\ x.status = "RUNNING" /\ y.status = "AWAITING_APPROVAL"
        /\ p = APPROVE /\ q = APPROVE
     \/ /\ x.status = "RUNNING" /\ y.status = "COMPLETED"
        /\ p = ARCHIVE /\ q = NoPhase
     \/ x.status = "RUNNING" /\ y.status = "UNKNOWN" /\ q = p

Writes(x, y) == Promised(x, y) /\ y.version = x.version + 1

(* What a session that is about to write, or has just written, knows of    *)
(* the store.                                                              *)
Fed(w, store) ==
  /\ w.pc = "save" => Writes(store[w.mission], w.next)
  /\ w.pc = "append" => w.next = store[w.mission]
  /\ w.todo # {} => w.op = "recover" /\ w.pc \in {"recover", "append"}
  /\ \A found \in w.todo :
       found.mission \in DOMAIN store /\ found.snapshot = store[found.mission]

Due(w, m) == w.pc = "append" /\ w.mission = m

(* A log rises, ends at or below the snapshot, and has the snapshot itself *)
(* at its version, unless that event is still to be written.               *)
Filed(m, log, store, w) ==
  /\ m \notin DOMAIN store => log = <<>>
  /\ \A i, j \in DOMAIN log : i < j => log[i].version < log[j].version
  /\ m \in DOMAIN store =>
       \A i \in DOMAIN log :
         \/ log[i].version < store[m].version
         \/ log[i] = store[m] /\ ~Due(w, m)

Missed(m, log, store, n, w) ==
  store[m].version - Len(log) <= n + (IF Due(w, m) THEN 1 ELSE 0)

LogInv ==
  /\ \A s \in Sessions :
       /\ Fed(sess[s], snapshots)
       /\ \A m \in Missions : Filed(m, events[m], snapshots, sess[s])
       /\ \A m \in DOMAIN snapshots \ torn :
            Missed(m, events[m], snapshots, faults, sess[s])
  /\ Sessions = {} =>
       DOMAIN snapshots = {} /\ \A m \in Missions : events[m] = <<>>

(* A new version promises what the old one did, one version later.         *)
LEMMA BumpWrites ==
  ASSUME NEW x \in Snapshot, NEW y \in Snapshot, Promised(x, y),
         y.version = x.version
  PROVE  Writes(x, Bump(y))
<1>1. /\ Bump(y).intent = y.intent /\ Bump(y).status = y.status
      /\ Bump(y).current = y.current /\ Bump(y).steps = y.steps
      /\ Bump(y).version = x.version + 1
  BY DEF Bump, Snapshot
<1>2. nextPendingPhase(Bump(y)) = nextPendingPhase(y)
  BY <1>1, NextOf
<1>3. QED
  BY <1>1, <1>2 DEF Writes, Promised

(* The plan of a mission that had none.                                    *)
LEMMA PlanWrites ==
  ASSUME NEW m \in Snapshot, SoundSnapshot(m), m.current = NoPhase
  PROVE  Promised(m, WithPlan(m)) /\ WithPlan(m).version = m.version
<1> DEFINE n == WithPlan(m)
<1>1. /\ n.status = m.status /\ n.current = INTAKE /\ n.intent = m.intent
      /\ n.steps = [p \in Phases |-> "PENDING"] /\ n.version = m.version
  BY DEF WithPlan, Snapshot
<1>2. n \in Snapshot
  BY WithPlanType
<1>3. m.status = "DRAFT"
  BY PhaseNumbers DEF SoundSnapshot, StatusAgrees
<1>4. \A p \in Phases : m.steps[p] = "ABSENT"
  BY PhaseNumbers DEF SoundSnapshot, InOrder
<1>5. nextPendingPhase(m) = NoPhase
  BY <1>4, NextNone
<1>6. nextPendingPhase(n) = INTAKE
  <2>1. INTAKE \in Phases /\ \A q \in Phases : ~(INTAKE <= q /\ q < INTAKE)
    BY PhaseNumbers
  <2>2. n.current <= INTAKE /\ n.steps[INTAKE] = "PENDING"
    BY <1>1, <2>1, PhaseNumbers
  <2> HIDE DEF n
  <2>3. QED
    BY <1>1, <1>2, <2>1, <2>2, NextIs
<1>7. QED
  BY <1>1, <1>3, <1>5, <1>6 DEF Promised

(* The phase that is prepared is the next one, and what comes after it is  *)
(* the next phase once it is passed.                                       *)
LEMMA PassedNext ==
  ASSUME NEW m \in Snapshot, NEW n \in Snapshot, NEW p, Ready(m, p),
         n.current = p, n.steps[p] \in Passed,
         \A q \in Phases \ {p} : n.steps[q] = m.steps[q]
  PROVE  nextPendingPhase(n) = IF p = ARCHIVE THEN NoPhase ELSE p + 1
<1>1. p \in 1 .. 13 /\ \A q \in Phases : q > p => n.steps[q] = "PENDING"
  BY PhaseNumbers DEF Ready
<1>2. CASE p = ARCHIVE
  <2>1. \A q \in Phases : n.current <= q => q = p
    BY <1>1, <1>2, PhaseNumbers
  <2>2. QED
    BY <1>2, <2>1, NextNone DEF Passed
<1>3. CASE p # ARCHIVE
  <2>1. p + 1 \in Phases
    BY <1>1, <1>3, PhaseNumbers
  <2>2. n.steps[p + 1] = "PENDING" /\ n.current <= p + 1
    BY <1>1, <2>1
  <2>3. \A q \in Phases : n.current <= q /\ q < p + 1 => q = p
    BY <1>1, PhaseNumbers
  <2>4. nextPendingPhase(n) = p + 1
    BY <2>1, <2>2, <2>3, NextIs
  <2>5. QED
    BY <1>3, <2>4
<1>4. QED
  BY <1>2, <1>3

LEMMA SkipWrites ==
  ASSUME NEW m \in Snapshot, SoundSnapshot(m), NEW p, Prepared(m, p, "SKIP")
  PROVE  /\ Promised(m, completeStep(m, p, "SKIPPED"))
         /\ completeStep(m, p, "SKIPPED").version = m.version
<1> DEFINE n == completeStep(m, p, "SKIPPED")
<1>1. Ready(m, p)
  BY PreparedIsReady
<1>2. /\ p \in Phases /\ p \in Conditional(m.intent) /\ p = nextPendingPhase(m)
  BY <1>1, PreparedStep DEF Prepared, Ready
<1>3. /\ n \in Snapshot /\ n.current = p /\ n.steps[p] = "SKIPPED"
      /\ \A q \in Phases \ {p} : n.steps[q] = m.steps[q]
      /\ n.status = m.status /\ n.intent = m.intent
  <2>1. "SKIPPED" \in StepStatus
    BY DEF StepStatus
  <2>2. QED
    BY <1>2, <2>1, Marked
<1>4. n.version = m.version
  BY DEF completeStep, Snapshot
<1>5. p \in {RECONCILE, PROPOSE, APPROVE, EXECUTE, CLOSE}
  BY <1>2 DEF Conditional, Snapshot, EdaIntent, EDA_INTENTS, HARNESS_INTENTS
<1>6. m.status = "RUNNING" /\ p \in INGEST .. CLOSE /\ p # ARCHIVE
  BY <1>1, <1>5, PhaseNumbers DEF Ready
<1>7. n.steps[p] \in Passed
  BY <1>3 DEF Passed
<1> HIDE DEF n
<1>8. nextPendingPhase(n) = p + 1
  BY <1>1, <1>3, <1>6, <1>7, PassedNext
<1>9. QED
  BY <1>2, <1>3, <1>4, <1>6, <1>8 DEF Promised, n

LEMMA RunWrites ==
  ASSUME NEW m \in Snapshot, SoundSnapshot(m), NEW p, Prepared(m, p, "RUN"),
         p \notin LifecyclePhases \ {INGEST},
         NEW n, n = [completeStep(m, p, "COMPLETED")
                       EXCEPT !.proposal = m.proposal \/ p = PROPOSE]
  PROVE  Promised(m, n) /\ n.version = m.version
<1> DEFINE marked == completeStep(m, p, "COMPLETED")
<1>1. Ready(m, p)
  BY PreparedIsReady
<1>2. p \in Phases /\ p = nextPendingPhase(m)
  BY <1>1, PreparedStep DEF Prepared, Ready
<1>3. /\ marked \in Snapshot
      /\ marked.current = p /\ marked.steps[p] = "COMPLETED"
      /\ \A q \in Phases \ {p} : marked.steps[q] = m.steps[q]
      /\ marked.status = m.status /\ marked.intent = m.intent
  <2>1. "COMPLETED" \in StepStatus
    BY DEF StepStatus
  <2>2. QED
    BY <1>2, <2>1, Marked
<1>4. marked.version = m.version
  BY DEF completeStep, Snapshot
<1>5. (m.proposal \/ p = PROPOSE) \in BOOLEAN
  OBVIOUS
<1> HIDE DEF marked
<1>6. /\ n \in Snapshot /\ n.current = marked.current /\ n.steps = marked.steps
      /\ n.status = marked.status /\ n.intent = marked.intent
      /\ n.version = marked.version
  <2>1. n = [marked EXCEPT !.proposal = m.proposal \/ p = PROPOSE]
    BY DEF marked
  <2>2. QED
    BY <1>3, <1>5, <2>1 DEF Snapshot
<1>7. m.status = "RUNNING" /\ p \in INGEST .. CLOSE /\ p # APPROVE /\ p # ARCHIVE
  BY <1>1, <1>2, PhaseNumbers DEF Ready, LifecyclePhases
<1>8. n.steps[p] \in Passed
  BY <1>3, <1>6 DEF Passed
<1>9. nextPendingPhase(n) = p + 1
  <2>1. n.current = p /\ \A q \in Phases \ {p} : n.steps[q] = m.steps[q]
    BY <1>3, <1>6
  <2>2. nextPendingPhase(n) = IF p = ARCHIVE THEN NoPhase ELSE p + 1
    BY <1>1, <1>6, <1>8, <2>1, PassedNext
  <2>3. QED
    BY <1>7, <2>2
<1>10. QED
  BY <1>2, <1>3, <1>4, <1>6, <1>7, <1>9 DEF Promised

LEMMA ExecuteWrites ==
  ASSUME NEW m \in Snapshot, SoundSnapshot(m), NEW p \in LifecyclePhases,
         Prepared(m, p, "RUN")
  PROVE  Promised(m, ExecuteTarget(m)) /\ ExecuteTarget(m).version = m.version
<1> DEFINE n == ExecuteTarget(m)
<1>1. Ready(m, p)
  BY PreparedIsReady
<1>2. p \in Phases /\ p = nextPendingPhase(m)
  BY <1>1, PreparedStep DEF Prepared, Ready
<1>3. n = genericIntentHandler(m, p)
  BY DEF ExecuteTarget, Prepared
<1>4. n \in Snapshot
  BY ExecuteTargetType
<1>5. ASSUME NEW mark \in {"COMPLETED", "IN_PROGRESS"}, NEW status \in Status,
             \/ n = [completeStep(m, p, mark) EXCEPT !.status = status]
             \/ n = [completeStep(m, p, mark) EXCEPT !.status = status, !.alarmed = TRUE]
      PROVE  /\ n.status = status /\ n.current = p /\ n.steps[p] = mark
             /\ \A q \in Phases \ {p} : n.steps[q] = m.steps[q]
             /\ n.intent = m.intent /\ n.version = m.version
             /\ nextPendingPhase(n) =
                  IF mark = "IN_PROGRESS" THEN p
                  ELSE IF p = ARCHIVE THEN NoPhase ELSE p + 1
  <2> DEFINE x == completeStep(m, p, mark)
  <2>1. /\ x \in Snapshot /\ x.current = p /\ x.steps[p] = mark
        /\ \A q \in Phases \ {p} : x.steps[q] = m.steps[q]
        /\ x.intent = m.intent
    <3>1. mark \in StepStatus
      BY DEF StepStatus
    <3>2. QED
      BY <1>2, <3>1, Marked
  <2>2. x.version = m.version
    BY DEF completeStep, Snapshot
  <2>3. /\ n.status = status /\ n.current = x.current /\ n.steps = x.steps
        /\ n.intent = x.intent /\ n.version = x.version
    <3> HIDE DEF x, n
    <3>1. CASE n = [x EXCEPT !.status = status]
      BY <2>1, <3>1 DEF Snapshot
    <3>2. CASE n = [x EXCEPT !.status = status, !.alarmed = TRUE]
      BY <2>1, <3>2 DEF Snapshot
    <3>3. QED
      BY <1>5, <3>1, <3>2 DEF x
  <2> HIDE DEF x, n
  <2>4. CASE mark = "COMPLETED"
    <3>1. n.steps[p] \in Passed
      BY <2>1, <2>3, <2>4 DEF Passed
    <3>2. nextPendingPhase(n) = IF p = ARCHIVE THEN NoPhase ELSE p + 1
      BY <1>1, <1>4, <2>1, <2>3, <3>1, PassedNext
    <3>3. QED
      BY <2>1, <2>2, <2>3, <2>4, <3>2
  <2>5. CASE mark = "IN_PROGRESS"
    <3>1. n.current <= p /\ \A q \in Phases : ~(n.current <= q /\ q < p)
      BY <1>2, <2>1, <2>3, PhaseNumbers
    <3>2. nextPendingPhase(n) = p
      BY <1>2, <1>4, <2>1, <2>3, <2>5, <3>1, NextIs
    <3>3. QED
      BY <2>1, <2>2, <2>3, <2>5, <3>2
  <2>6. QED
    BY <2>4, <2>5
<1> HIDE DEF n
<1>6. CASE p = INTAKE
  <2>1. n = [completeStep(m, p, "COMPLETED") EXCEPT !.status = "QUEUED"]
    BY <1>3, <1>6, PhaseNumbers DEF genericIntentHandler
  <2>2. /\ n.status = "QUEUED" /\ n.intent = m.intent /\ n.version = m.version
        /\ nextPendingPhase(n) = IF p = ARCHIVE THEN NoPhase ELSE p + 1
    BY <1>5, <2>1 DEF Status
  <2>3. m.status = "DRAFT" /\ p + 1 = BIND_SCOPE /\ p # ARCHIVE
    BY <1>1, <1>6, PhaseNumbers DEF Ready
  <2>4. QED
    BY <1>2, <1>6, <2>2, <2>3 DEF Promised, n
<1>7. CASE p = BIND_SCOPE
  <2>1. n = [completeStep(m, p, "COMPLETED") EXCEPT !.status = "RUNNING"]
    BY <1>3, <1>7, PhaseNumbers DEF genericIntentHandler
  <2>2. /\ n.status = "RUNNING" /\ n.intent = m.intent /\ n.version = m.version
        /\ nextPendingPhase(n) = IF p = ARCHIVE THEN NoPhase ELSE p + 1
    BY <1>5, <2>1 DEF Status
  <2>3. m.status = "QUEUED" /\ p + 1 = INGEST /\ p # ARCHIVE
    BY <1>1, <1>7, PhaseNumbers DEF Ready
  <2>4. QED
    BY <1>2, <1>7, <2>2, <2>3 DEF Promised, n
<1>8. CASE p = INGEST
  <2>1. n = [completeStep(m, p, "IN_PROGRESS")
               EXCEPT !.status = "WAITING_FOR_EVIDENCE", !.alarmed = TRUE]
    BY <1>3, <1>8, PhaseNumbers DEF genericIntentHandler, markInProgress
  <2>2. /\ n.status = "WAITING_FOR_EVIDENCE" /\ n.intent = m.intent
        /\ n.version = m.version /\ nextPendingPhase(n) = p
    BY <1>5, <2>1 DEF Status
  <2>3. m.status = "RUNNING"
    BY <1>1, <1>8, PhaseNumbers DEF Ready
  <2>4. QED
    BY <1>2, <1>8, <2>2, <2>3 DEF Promised, n
<1>9. CASE p = APPROVE
  <2>1. n = [completeStep(m, p, "IN_PROGRESS") EXCEPT !.status = "AWAITING_APPROVAL"]
    BY <1>3, <1>9, PhaseNumbers DEF genericIntentHandler, markInProgress
  <2>2. /\ n.status = "AWAITING_APPROVAL" /\ n.intent = m.intent
        /\ n.version = m.version /\ nextPendingPhase(n) = p
    BY <1>5, <2>1 DEF Status
  <2>3. m.status = "RUNNING"
    BY <1>1, <1>9, PhaseNumbers DEF Ready
  <2>4. QED
    BY <1>2, <1>9, <2>2, <2>3 DEF Promised, n
<1>10. CASE p = ARCHIVE
  <2>1. n = [completeStep(m, p, "COMPLETED") EXCEPT !.status = "COMPLETED"]
    BY <1>3, <1>10, PhaseNumbers DEF genericIntentHandler
  <2>2. /\ n.status = "COMPLETED" /\ n.intent = m.intent /\ n.version = m.version
        /\ nextPendingPhase(n) = IF p = ARCHIVE THEN NoPhase ELSE p + 1
    BY <1>5, <2>1 DEF Status
  <2>3. m.status = "RUNNING"
    BY <1>1, <1>10, PhaseNumbers DEF Ready
  <2>4. QED
    BY <1>2, <1>10, <2>2, <2>3 DEF Promised, n
<1>11. QED
  BY <1>6, <1>7, <1>8, <1>9, <1>10 DEF LifecyclePhases

(* A mission whose track is lost stays where it was.                       *)
LEMMA ForgottenWrites ==
  ASSUME NEW m \in Snapshot, m.status = "RUNNING"
  PROVE  Writes(m, Forgotten(m))
<1> DEFINE n == [m EXCEPT !.status = "UNKNOWN"]
<1>1. /\ n.status = "UNKNOWN" /\ n.current = m.current /\ n.steps = m.steps
      /\ n.intent = m.intent /\ n.version = m.version
  BY DEF Snapshot
<1>2. n \in Snapshot
  BY StatusType DEF Status
<1>3. nextPendingPhase(n) = nextPendingPhase(m)
  BY <1>1, NextOf
<1>4. Promised(m, n)
  BY <1>1, <1>3 DEF Promised
<1> HIDE DEF n
<1>5. Writes(m, Bump(n))
  BY <1>1, <1>2, <1>4, BumpWrites
<1>6. QED
  BY <1>5 DEF Forgotten, n

(* The step of the only session establishes the invariant for it.          *)
LEMMA LogFrame ==
  ASSUME OneSession, TypeInv, NEW s \in Sessions, NEW v,
         sess' = [sess EXCEPT ![s] = v], Fed(v, snapshots'),
         \A m \in Missions : Filed(m, events'[m], snapshots', v),
         \A m \in DOMAIN snapshots' \ torn' :
           Missed(m, events'[m], snapshots', faults', v)
  PROVE  LogInv'
<1>1. \A t \in Sessions : sess'[t] = v
  BY DEF OneSession, TypeInv, SessionsOK
<1>2. Sessions # {}
  OBVIOUS
<1>3. QED
  BY <1>1, <1>2 DEF LogInv

(* What the stores are made of.                                            *)
LEMMA LogTypes ==
  ASSUME TypeInv
  PROVE  /\ DOMAIN snapshots \subseteq Missions
         /\ \A m \in DOMAIN snapshots : snapshots[m] \in Snapshot
         /\ \A m \in DOMAIN snapshots : snapshots[m].version \in Nat
         /\ \A m \in Missions : events[m] \in Seq(Snapshot) /\ Len(events[m]) \in Nat
         /\ \A m \in Missions : \A i \in DOMAIN events[m] :
              i \in Nat /\ events[m][i].version \in Nat
         /\ DOMAIN events = Missions
         /\ faults \in Nat
<1>1. \A x \in Snapshot : x.version \in Nat
  BY DEF Snapshot
<1>2. /\ DOMAIN snapshots \subseteq Missions
      /\ \A m \in DOMAIN snapshots : snapshots[m] \in Snapshot
      /\ events \in [Missions -> Seq(Snapshot)] /\ faults \in Nat
  BY DEF TypeInv, StoresOK, Documents
<1>3. \A m \in Missions : \A i \in DOMAIN events[m] :
        i \in Nat /\ events[m][i] \in Snapshot
  BY <1>2
<1>4. QED
  BY <1>1, <1>2, <1>3

(* A session that moves over unchanged stores, and misses an event only by *)
(* a fault.                                                                *)
LEMMA LogQuiet ==
  ASSUME OneSession, TypeInv, LogInv, NEW s \in Sessions, NEW v,
         sess' = [sess EXCEPT ![s] = v], Fed(v, snapshots), v.pc # "append",
         UNCHANGED <<snapshots, events>>, torn \subseteq torn',
         \/ sess[s].pc # "append" /\ faults' = faults
         \/ faults' = faults + 1
  PROVE  LogInv'
<1> DEFINE w == sess[s]
<1>1. /\ \A m \in Missions : Filed(m, events[m], snapshots, w)
      /\ \A m \in DOMAIN snapshots \ torn : Missed(m, events[m], snapshots, faults, w)
  BY DEF LogInv
<1>2. \A m : ~Due(v, m)
  BY DEF Due
<1>3. \A m \in Missions : Filed(m, events'[m], snapshots', v)
  BY <1>1, <1>2 DEF Filed
<1>4. ASSUME NEW m \in DOMAIN snapshots' \ torn'
      PROVE  Missed(m, events'[m], snapshots', faults', v)
  <2>1. m \in DOMAIN snapshots \ torn /\ m \in Missions
    BY LogTypes
  <2>2. /\ snapshots[m].version \in Nat /\ Len(events[m]) \in Nat
        /\ faults \in Nat
    BY <2>1, LogTypes
  <2>3. snapshots[m].version - Len(events[m]) <= faults + (IF Due(w, m) THEN 1 ELSE 0)
    BY <1>1, <2>1 DEF Missed
  <2>4. sess[s].pc # "append" => ~Due(w, m)
    BY DEF Due
  <2>5. snapshots[m].version - Len(events[m]) <= faults'
    BY <2>2, <2>3, <2>4
  <2>6. QED
    BY <1>2, <2>2, <2>5 DEF Missed
<1>5. QED
  BY <1>3, <1>4, LogFrame

(* A session with nothing to write.                                        *)
LEMMA Unfed ==
  ASSUME NEW v, NEW store, v.pc \notin {"save", "append"}, v.todo = {}
  PROVE  Fed(v, store)
  BY DEF Fed

LEMMA LogEnd ==
  ASSUME OneSession, TypeInv, LogInv, NEW s \in Sessions, NEW phase,
         Finish(s, phase), UNCHANGED <<snapshots, events, torn, faults>>,
         sess[s].pc # "append"
  PROVE  LogInv'
<1> DEFINE v == [Idle EXCEPT !.report = phase]
<1>1. v.pc = "idle" /\ v.todo = {}
  BY DEF Idle
<1> HIDE DEF v
<1>2. Fed(v, snapshots)
  BY <1>1, Unfed
<1>3. sess' = [sess EXCEPT ![s] = v]
  BY DEF Finish, v
<1>4. QED
  BY <1>1, <1>2, <1>3, LogQuiet

(* A snapshot goes to disk: its event is due.                              *)
LEMMA LogSaves ==
  ASSUME OneSession, TypeInv, LogInv, NEW s \in Sessions, NEW v,
         sess' = [sess EXCEPT ![s] = v], Fed(v, snapshots'),
         NEW m \in Missions, NEW y, snapshots' = Put(snapshots, m, y),
         y.version = IF m \in DOMAIN snapshots THEN snapshots[m].version + 1 ELSE 1,
         v.pc = "append", v.mission = m, sess[s].pc # "append",
         UNCHANGED <<events, torn, faults>>
  PROVE  LogInv'
<1> DEFINE w == sess[s]
<1>1. /\ \A n \in Missions : Filed(n, events[n], snapshots, w)
      /\ \A n \in DOMAIN snapshots \ torn : Missed(n, events[n], snapshots, faults, w)
  BY DEF LogInv
<1>2. /\ DOMAIN snapshots' = DOMAIN snapshots \cup {m}
      /\ snapshots'[m] = y
      /\ \A n \in DOMAIN snapshots \ {m} : snapshots'[n] = snapshots[n]
  BY DEF Put
<1>3. \A n : Due(v, n) <=> n = m
  BY DEF Due
<1>4. \A n : ~Due(w, n)
  BY DEF Due
<1>5. ASSUME NEW n \in Missions PROVE Filed(n, events'[n], snapshots', v)
  <2>1. Filed(n, events[n], snapshots, w)
    BY <1>1
  <2>2. CASE n # m
    BY <1>2, <1>3, <2>1, <2>2 DEF Filed
  <2>3. CASE n = m
    <3>1. ASSUME NEW i \in DOMAIN events[m] PROVE events[m][i].version < y.version
      <4>1. m \in DOMAIN snapshots
        BY <2>1, <2>3, <3>1 DEF Filed
      <4>2. events[m][i].version < snapshots[m].version \/ events[m][i] = snapshots[m]
        BY <2>1, <2>3, <3>1, <4>1 DEF Filed
      <4>3. events[m][i].version \in Nat /\ snapshots[m].version \in Nat
        BY <3>1, <4>1, LogTypes
      <4>4. y.version = snapshots[m].version + 1
        BY <4>1
      <4>5. QED
        BY <4>2, <4>3, <4>4
    <3>2. QED
      BY <1>2, <2>1, <2>3, <3>1 DEF Filed
  <2>4. QED
    BY <2>2, <2>3
<1>6. ASSUME NEW n \in DOMAIN snapshots' \ torn'
      PROVE  Missed(n, events'[n], snapshots', faults', v)
  <2>0. n \in Missions /\ faults \in Nat /\ Len(events[n]) \in Nat
    BY <1>2, LogTypes
  <2>1. CASE n # m
    BY <1>1, <1>2, <1>3, <1>4, <2>1 DEF Missed
  <2>2. CASE n = m /\ n \in DOMAIN snapshots
    <3>1. snapshots[m].version - Len(events[m]) <= faults
      BY <1>1, <1>4, <2>0, <2>2, LogTypes DEF Missed
    <3>2. snapshots[m].version \in Nat /\ y.version = snapshots[m].version + 1
      BY <2>2, LogTypes
    <3>3. y.version - Len(events[m]) <= faults + 1
      BY <2>0, <2>2, <3>1, <3>2
    <3>4. QED
      BY <1>2, <1>3, <2>2, <3>3 DEF Missed
  <2>3. CASE n = m /\ n \notin DOMAIN snapshots
    <3>1. events[m] = <<>> /\ Len(events[m]) = 0 /\ y.version = 1
      BY <1>1, <2>3 DEF Filed
    <3>2. QED
      BY <1>2, <1>3, <2>0, <2>3, <3>1 DEF Missed
  <2>4. QED
    BY <2>1, <2>2, <2>3
<1>7. QED
  BY <1>5, <1>6, LogFrame

(* The event that was due goes to the log.                                 *)
LEMMA LogAppends ==
  ASSUME OneSession, TypeInv, LogInv, NEW s \in Sessions, NEW v,
         sess' = [sess EXCEPT ![s] = v], Fed(v, snapshots), v.pc # "append",
         NEW m \in DOMAIN snapshots,
         events' = Logged(m, snapshots[m]),
         sess[s].pc = "append", sess[s].mission = m,
         UNCHANGED <<snapshots, torn, faults>>
  PROVE  LogInv'
<1> DEFINE w == sess[s]
           y == snapshots[m]
           log == events[m]
<1>1. /\ \A n \in Missions : Filed(n, events[n], snapshots, w)
      /\ \A n \in DOMAIN snapshots \ torn : Missed(n, events[n], snapshots, faults, w)
  BY DEF LogInv
<1>2. \A n : ~Due(v, n) /\ (Due(w, n) <=> n = m)
  BY DEF Due
<1>3. /\ m \in Missions /\ log \in Seq(Snapshot) /\ y \in Snapshot
      /\ y.version \in Nat /\ DOMAIN events = Missions
      /\ \A i \in DOMAIN log : log[i].version \in Nat
  BY LogTypes
<1>4. \A n \in Missions \ {m} : events'[n] = events[n]
  BY <1>3 DEF Logged
<1>5. m \in torn => events'[m] = log
  BY DEF Logged
<1>6. m \notin torn => events'[m] = Append(log, y)
  BY <1>3 DEF Logged
<1>7. /\ \A i, j \in DOMAIN log : i < j => log[i].version < log[j].version
      /\ \A i \in DOMAIN log : log[i].version < y.version
  BY <1>1, <1>2, <1>3 DEF Filed
<1> HIDE DEF log, y
<1>8. /\ Len(Append(log, y)) = Len(log) + 1 /\ Len(log) \in Nat
      /\ DOMAIN log = 1 .. Len(log) /\ DOMAIN Append(log, y) = 1 .. Len(log) + 1
      /\ \A i \in DOMAIN log : Append(log, y)[i] = log[i]
      /\ Append(log, y)[Len(log) + 1] = y
  BY <1>3
<1>9. ASSUME NEW n \in Missions PROVE Filed(n, events'[n], snapshots', v)
  <2>1. CASE n # m
    BY <1>1, <1>2, <1>4, <2>1 DEF Filed
  <2>2. CASE n = m /\ m \in torn
    BY <1>1, <1>2, <1>5, <2>2 DEF Filed, log
  <2>3. CASE n = m /\ m \notin torn
    <3>1. \A i, j \in DOMAIN Append(log, y) : i < j =>
            Append(log, y)[i].version < Append(log, y)[j].version
      BY <1>7, <1>8
    <3>2. \A i \in DOMAIN Append(log, y) :
            Append(log, y)[i].version < y.version \/ Append(log, y)[i] = y
      BY <1>7, <1>8
    <3>3. QED
      BY <1>2, <1>6, <2>3, <3>1, <3>2 DEF Filed, y
  <2>4. QED
    BY <2>1, <2>2, <2>3
<1>10. ASSUME NEW n \in DOMAIN snapshots' \ torn'
       PROVE  Missed(n, events'[n], snapshots', faults', v)
  <2>0. n \in Missions /\ faults \in Nat /\ n \in DOMAIN snapshots \ torn
    BY LogTypes
  <2>1. CASE n # m
    BY <1>1, <1>2, <1>4, <2>0, <2>1 DEF Missed
  <2>2. CASE n = m
    <3>1. y.version - Len(log) <= faults + 1
      BY <1>1, <1>2, <2>0, <2>2 DEF Missed, y, log
    <3>2. y.version - (Len(log) + 1) <= faults
      BY <1>3, <1>8, <2>0, <3>1
    <3>3. QED
      BY <1>2, <1>6, <1>8, <2>0, <2>2, <3>2 DEF Missed, y
  <2>3. QED
    BY <2>1, <2>2
<1>11. QED
  BY <1>9, <1>10, LogFrame

LEMMA LogInit == Init => LogInv
<1> SUFFICES ASSUME Init PROVE LogInv
  OBVIOUS
<1>1. \A s \in Sessions : sess[s].pc = "idle" /\ sess[s].todo = {}
  BY DEF Init, Idle
<1>2. DOMAIN snapshots = {} /\ \A m \in Missions : events[m] = <<>>
  BY DEF Init
<1>3. \A s \in Sessions : Fed(sess[s], snapshots)
  BY <1>1, Unfed
<1>4. \A s \in Sessions, m \in Missions : Filed(m, events[m], snapshots, sess[s])
  BY <1>2 DEF Filed
<1>5. QED
  BY <1>2, <1>3, <1>4 DEF LogInv

LEMMA LogBegin ==
  ASSUME OneSession, TypeInv, LogInv, NEW s \in Sessions,
         \/ \E m \in Missions, i \in Intents : StartMission(s, m, i)
         \/ \E m \in Missions, mode \in Modes : Advance(s, m, mode)
         \/ RecoverScan(s)
  PROVE  LogInv'
<1>1. ASSUME NEW m \in Missions, NEW i \in Intents, StartMission(s, m, i)
      PROVE  LogInv'
  <2> DEFINE v == [Idle EXCEPT !.pc = "append", !.op = "start", !.mission = m,
                               !.next = Started(i)]
  <2>1. /\ snapshots' = Put(snapshots, m, Started(i))
        /\ sess' = [sess EXCEPT ![s] = v]
        /\ UNCHANGED <<events, torn, faults>>
        /\ m \notin DOMAIN snapshots /\ sess[s].pc = "idle"
    BY <1>1 DEF StartMission, Working
  <2>2. v.pc = "append" /\ v.mission = m /\ v.next = Started(i) /\ v.todo = {}
    BY DEF Idle
  <2>3. Started(i).version = 1
    BY DEF Started
  <2> HIDE DEF v
  <2>4. snapshots'[m] = Started(i)
    BY <2>1 DEF Put
  <2>5. Fed(v, snapshots')
    BY <2>2, <2>4 DEF Fed
  <2>6. QED
    BY <2>1, <2>2, <2>3, <2>5, LogSaves
<1>2. ASSUME NEW m \in Missions, NEW mode \in Modes, Advance(s, m, mode)
      PROVE  LogInv'
  <2>1. UNCHANGED <<snapshots, events, torn, faults>> /\ sess[s].pc # "append"
    BY <1>2 DEF Advance, ReportOnly, AdvanceSkip, AdvancePhaseOnly, AdvanceCommand,
                disk, Advancing, Working
  <2>2. CASE ReportOnly(s, m, mode)
    BY <2>1, <2>2, LogEnd DEF ReportOnly
  <2>3. ASSUME NEW pc \in {"refresh", "get"}, NEW op, Decide(s, m, pc, op)
        PROVE  LogInv'
    <3> DEFINE v == [Idle EXCEPT !.pc = pc, !.op = op, !.mission = m,
                                 !.phase = derivePreparedStep(snapshots[m]).phase,
                                 !.base = snapshots[m]]
    <3>1. v.pc = pc /\ v.todo = {}
      BY DEF Idle
    <3>2. sess' = [sess EXCEPT ![s] = v]
      BY <2>3 DEF Decide
    <3> HIDE DEF v
    <3>3. Fed(v, snapshots)
      BY <3>1, Unfed
    <3>4. QED
      BY <2>1, <3>1, <3>2, <3>3, LogQuiet
  <2>4. \/ ReportOnly(s, m, mode)
        \/ Decide(s, m, "refresh", "skip") \/ Decide(s, m, "refresh", "run")
        \/ Decide(s, m, "get", "apply")
    BY <1>2 DEF Advance, AdvanceSkip, AdvancePhaseOnly, AdvanceCommand
  <2>5. QED
    BY <2>2, <2>3, <2>4
<1>3. CASE RecoverScan(s)
  <2> DEFINE v == [Idle EXCEPT !.pc = "find", !.op = "recover",
                               !.preserved = Consistent]
  <2>1. v.pc = "find" /\ v.todo = {}
    BY DEF Idle
  <2>2. UNCHANGED <<snapshots, events, torn, faults>> /\ sess[s].pc # "append"
    BY <1>3 DEF RecoverScan, Working
  <2>3. Finish(s, NoPhase) \/ sess' = [sess EXCEPT ![s] = v]
    BY <1>3 DEF RecoverScan
  <2> HIDE DEF v
  <2>4. Fed(v, snapshots)
    BY <2>1, Unfed
  <2>5. QED
    BY <2>1, <2>2, <2>3, <2>4, LogQuiet, LogEnd
<1>4. QED
  BY <1>1, <1>2, <1>3

LEMMA LogUpdate ==
  ASSUME OneSession, TypeInv, SoundInv, LogInv, NEW s \in Sessions,
         Refresh(s) \/ SaveSnapshot(s) \/ LogEvent(s)
  PROVE  LogInv'
<1> DEFINE w == sess[s]
<1>0. /\ w \in Session /\ Placed(w, DOMAIN snapshots)
      /\ Sure(w, snapshots) /\ Fed(w, snapshots) /\ sess \in [Sessions -> Session]
  BY DEF TypeInv, SessionsOK, AllPlaced, SoundInv, LogInv
<1>a. w.mission \in DOMAIN snapshots /\ w.mission \in Missions
  BY <1>0, LogTypes DEF Refresh, SaveSnapshot, LogEvent, Placed, AtMission
<1>b. snapshots[w.mission] \in Snapshot /\ SoundSnapshot(snapshots[w.mission])
  BY <1>a, LogTypes DEF SoundInv, StoreSound
<1>1. CASE Refresh(s)
  <2> DEFINE mutated == Mutated(w.op, w.phase, snapshots[w.mission])
             v == [w EXCEPT !.pc = "save", !.next = Bump(mutated)]
  <2>1. UNCHANGED <<snapshots, events, torn, faults>> /\ w.pc = "refresh"
    BY <1>1 DEF Refresh, disk
  <2>2. sess' = [sess EXCEPT ![s] = v] \/ Finish(s, NoPhase)
    BY <1>0, <1>1 DEF Refresh
  <2>3. /\ mutated \in Snapshot /\ Promised(snapshots[w.mission], mutated)
        /\ mutated.version = snapshots[w.mission].version
    <3>1. /\ w.base = snapshots[w.mission]
          /\ \/ w.op = "plan" /\ w.base.current = NoPhase
             \/ w.op = "skip" /\ Prepared(w.base, w.phase, "SKIP")
             \/ /\ w.op = "run" /\ Prepared(w.base, w.phase, "RUN")
                /\ w.phase \notin LifecyclePhases \ {INGEST}
      BY <1>0, <2>1 DEF Sure
    <3>2. mutated \in Snapshot
      <4>1. w.op \in {"skip", "run"} => w.phase \in Phases
        BY <1>0 DEF Placed
      <4>2. w.phase \in Phases \cup {NoPhase}
        BY <1>0 DEF Session
      <4>3. w.op \in {"plan", "skip", "run"}
        BY <3>1
      <4>4. QED
        BY <1>b, <4>1, <4>2, <4>3, MutatedType
    <3>3. CASE w.op = "plan"
      BY <1>b, <3>1, <3>2, <3>3, PlanWrites DEF Mutated
    <3>4. CASE w.op = "skip"
      BY <1>b, <3>1, <3>2, <3>4, SkipWrites DEF Mutated
    <3>5. CASE w.op = "run"
      BY <1>b, <3>1, <3>2, <3>5, RunWrites DEF Mutated
    <3>6. QED
      BY <3>1, <3>2, <3>3, <3>4, <3>5
  <2> HIDE DEF mutated
  <2>4. Writes(snapshots[w.mission], Bump(mutated))
    BY <1>b, <2>3, BumpWrites
  <2>5. w.todo = {}
    BY <1>0, <2>1 DEF Fed
  <2>6. /\ v.pc = "save" /\ v.next = Bump(mutated) /\ v.todo = w.todo
        /\ v.mission = w.mission
    BY <1>0 DEF Session
  <2> HIDE DEF v
  <2>7. Fed(v, snapshots)
    BY <2>4, <2>5, <2>6 DEF Fed
  <2>8. QED
    BY <2>1, <2>2, <2>6, <2>7, LogQuiet, LogEnd
<1>2. CASE SaveSnapshot(s)
  <2> DEFINE v == [w EXCEPT !.pc = "append"]
  <2>1. /\ snapshots' = Put(snapshots, w.mission, w.next) /\ w.pc = "save"
        /\ sess' = [sess EXCEPT ![s] = v]
        /\ UNCHANGED <<events, torn, faults>>
    BY <1>0, <1>2 DEF SaveSnapshot
  <2>2. w.todo = {} /\ w.next.version = snapshots[w.mission].version + 1
    BY <1>0, <2>1 DEF Fed, Writes
  <2>3. /\ v.pc = "append" /\ v.mission = w.mission /\ v.next = w.next
        /\ v.todo = w.todo
    BY <1>0 DEF Session
  <2> HIDE DEF v
  <2>4. snapshots'[w.mission] = w.next
    BY <2>1 DEF Put
  <2>5. Fed(v, snapshots')
    BY <2>2, <2>3, <2>4 DEF Fed
  <2>6. QED
    BY <1>a, <2>1, <2>2, <2>3, <2>5, LogSaves
<1>3. CASE LogEvent(s)
  <2>1. /\ w.next = snapshots[w.mission] /\ w.pc = "append"
        /\ events' = Logged(w.mission, w.next)
        /\ UNCHANGED <<snapshots, torn, faults>>
    BY <1>0, <1>3 DEF LogEvent, Fed
  <2>2. ASSUME NEW v, sess' = [sess EXCEPT ![s] = v], Fed(v, snapshots),
               v.pc # "append"
        PROVE  LogInv'
    BY <1>a, <2>1, <2>2, LogAppends
  <2>3. CASE w.op = "start"
    <3> DEFINE v == [w EXCEPT !.pc = "refresh", !.op = "plan", !.base = w.next]
    <3>1. sess' = [sess EXCEPT ![s] = v]
      BY <1>0, <1>3, <2>3 DEF LogEvent
    <3>2. v.pc = "refresh" /\ v.todo = w.todo
      BY <1>0 DEF Session
    <3> HIDE DEF v
    <3>3. w.todo = {}
      BY <1>0, <2>3 DEF Fed
    <3>4. QED
      BY <2>2, <3>1, <3>2, <3>3, Unfed
  <2>4. CASE w.op \in {"plan", "skip", "run"}
    <3> DEFINE v == [Idle EXCEPT !.report = w.phase]
    <3>1. sess' = [sess EXCEPT ![s] = v]
      BY <1>3, <2>4 DEF LogEvent, Finish
    <3>2. v.pc = "idle" /\ v.todo = {}
      BY DEF Idle
    <3> HIDE DEF v
    <3>3. QED
      BY <2>2, <3>1, <3>2, Unfed
  <2>5. CASE w.op = "apply"
    <3> DEFINE v == [w EXCEPT !.pc = "seal"]
    <3>1. sess' = [sess EXCEPT ![s] = v]
      BY <1>0, <1>3, <2>5 DEF LogEvent
    <3>2. v.pc = "seal" /\ v.todo = w.todo
      BY <1>0 DEF Session
    <3> HIDE DEF v
    <3>3. w.todo = {}
      BY <1>0, <2>5 DEF Fed
    <3>4. QED
      BY <2>2, <3>1, <3>2, <3>3, Unfed
  <2>6. CASE w.op = "recover"
    <3>1. CASE sess' = [sess EXCEPT ![s] = [Idle EXCEPT !.preserved = w.preserved]]
      <4> DEFINE v == [Idle EXCEPT !.preserved = w.preserved]
      <4>1. v.pc = "idle" /\ v.todo = {}
        BY DEF Idle
      <4> HIDE DEF v
      <4>2. sess' = [sess EXCEPT ![s] = v]
        BY <3>1 DEF v
      <4>3. QED
        BY <2>2, <4>1, <4>2, Unfed
    <3>2. CASE sess' = [sess EXCEPT ![s] = [w EXCEPT !.pc = "recover"]]
      <4> DEFINE v == [w EXCEPT !.pc = "recover"]
      <4>1. v.pc = "recover" /\ v.op = w.op /\ v.todo = w.todo
        BY <1>0 DEF Session
      <4>2. sess' = [sess EXCEPT ![s] = v]
        BY <3>2
      <4> HIDE DEF v
      <4>3. Fed(v, snapshots)
        BY <1>0, <2>6, <4>1 DEF Fed
      <4>4. QED
        BY <2>2, <4>1, <4>2, <4>3
    <3>3. QED
      BY <1>3, <2>6, <3>1, <3>2 DEF LogEvent
  <2>7. QED
    BY <1>3, <2>3, <2>4, <2>5, <2>6 DEF LogEvent
<1>4. QED
  BY <1>1, <1>2, <1>3

LEMMA LogApply ==
  ASSUME OneSession, TypeInv, SoundInv, LogInv, NEW s \in Sessions,
         \/ ReplayKey(s) \/ NewKey(s) \/ LoadMission(s)
         \/ ExecuteCommand(s) \/ SealKey(s) \/ FailKey(s)
  PROVE  LogInv'
<1> DEFINE w == sess[s]
<1>0. /\ w \in Session /\ Placed(w, DOMAIN snapshots)
      /\ Sure(w, snapshots) /\ Fed(w, snapshots) /\ sess \in [Sessions -> Session]
  BY DEF TypeInv, SessionsOK, AllPlaced, SoundInv, LogInv
<1>1. /\ UNCHANGED <<snapshots, events, torn, faults>>
      /\ w.pc \in {"get", "load", "execute", "seal", "fail"}
  BY DEF ReplayKey, NewKey, LoadMission, ExecuteCommand, SealKey, FailKey, disk
<1>2. w.todo = {}
  BY <1>0, <1>1 DEF Fed
<1>3. CASE ReplayKey(s) \/ SealKey(s) \/ FailKey(s)
  BY <1>1, <1>3, LogEnd DEF ReplayKey, SealKey, FailKey
<1>4. ASSUME NEW v, sess' = [sess EXCEPT ![s] = v], v.todo = {},
             v.pc \notin {"save", "append"}
      PROVE  LogInv'
  BY <1>1, <1>4, Unfed, LogQuiet
<1>5. CASE NewKey(s)
  <2> DEFINE v == [w EXCEPT !.pc = "load"]
  <2>1. sess' = [sess EXCEPT ![s] = v]
    BY <1>0, <1>5 DEF NewKey
  <2>2. v.pc = "load" /\ v.todo = w.todo
    BY <1>0 DEF Session
  <2>3. QED
    BY <1>2, <1>4, <2>1, <2>2
<1>6. CASE LoadMission(s)
  <2> DEFINE v == [w EXCEPT !.pc = "execute", !.next = snapshots[w.mission]]
  <2>1. sess' = [sess EXCEPT ![s] = v]
    BY <1>0, <1>6 DEF LoadMission
  <2>2. v.pc = "execute" /\ v.todo = w.todo
    BY <1>0 DEF Session
  <2>3. QED
    BY <1>2, <1>4, <2>1, <2>2
<1>7. CASE ExecuteCommand(s)
  <2> DEFINE target == ExecuteTarget(w.next)
  <2>1. CASE sess' = [sess EXCEPT ![s].pc = "save", ![s].next = Bump(target)]
    <3> DEFINE v == [w EXCEPT !.pc = "save", !.next = Bump(target)]
    <3>1. w.next = snapshots[w.mission] /\ w.mission \in DOMAIN snapshots
          /\ Prepared(w.next, w.phase, "RUN") /\ w.phase \in LifecyclePhases
      BY <1>0, <1>7 DEF Sure, ExecuteCommand, Placed, AtMission
    <3>2. w.next \in Snapshot /\ SoundSnapshot(w.next)
      BY <3>1, LogTypes DEF SoundInv, StoreSound
    <3>3. target \in Snapshot /\ Promised(w.next, target)
          /\ target.version = w.next.version
      BY <3>1, <3>2, ExecuteWrites, ExecuteTargetType
    <3> HIDE DEF target
    <3>4. Writes(w.next, Bump(target))
      BY <3>2, <3>3, BumpWrites
    <3>5. /\ v.pc = "save" /\ v.next = Bump(target) /\ v.todo = w.todo
          /\ v.mission = w.mission
      BY <1>0 DEF Session
    <3>6. sess' = [sess EXCEPT ![s] = v]
      BY <1>0, <2>1
    <3> HIDE DEF v
    <3>7. Fed(v, snapshots)
      BY <1>2, <3>1, <3>4, <3>5 DEF Fed
    <3>8. QED
      BY <1>1, <3>5, <3>6, <3>7, LogQuiet
  <2>2. CASE sess' = [sess EXCEPT ![s].pc = "fail"]
    <3> DEFINE v == [w EXCEPT !.pc = "fail"]
    <3>1. v.pc = "fail" /\ v.todo = w.todo
      BY <1>0 DEF Session
    <3>2. sess' = [sess EXCEPT ![s] = v]
      BY <1>0, <2>2
    <3>3. QED
      BY <1>2, <1>4, <3>1, <3>2
  <2>3. QED
    BY <1>7, <2>1, <2>2 DEF ExecuteCommand
<1>8. QED
  BY <1>3, <1>5, <1>6, <1>7

LEMMA LogRecover ==
  ASSUME OneSession, TypeInv, SoundInv, LogInv, NEW s \in Sessions,
         RecoverFind(s) \/ RecoverSave(s)
  PROVE  LogInv'
<1> DEFINE w == sess[s]
<1>0. /\ w \in Session /\ Sure(w, snapshots) /\ Fed(w, snapshots)
      /\ sess \in [Sessions -> Session]
  BY DEF TypeInv, SessionsOK, SoundInv, LogInv
<1>1. CASE RecoverFind(s)
  <2> DEFINE running == {m \in DOMAIN snapshots : snapshots[m].status = "RUNNING"}
             left == w.preserved \ running
             v == [w EXCEPT !.pc = "recover", !.preserved = left,
                            !.todo = Read(running)]
             u == [Idle EXCEPT !.preserved = left]
  <2>1. UNCHANGED <<snapshots, events, torn, faults>> /\ w.pc = "find"
    BY <1>1 DEF RecoverFind, disk
  <2>2. sess' = [sess EXCEPT ![s] = v] \/ sess' = [sess EXCEPT ![s] = u]
    BY <1>1 DEF RecoverFind
  <2>3. u.pc = "idle" /\ u.todo = {}
    BY DEF Idle
  <2>4. v.pc = "recover" /\ v.op = "recover" /\ v.todo = Read(running)
    BY <1>0, <2>1 DEF Session, Sure
  <2>5. \A found \in Read(running) :
          found.mission \in DOMAIN snapshots
            /\ found.snapshot = snapshots[found.mission]
    BY DEF Read
  <2> HIDE DEF v, u
  <2>6. Fed(v, snapshots) /\ Fed(u, snapshots)
    BY <2>3, <2>4, <2>5, Unfed DEF Fed
  <2>7. QED
    BY <2>1, <2>2, <2>3, <2>4, <2>6, LogQuiet
<1>2. CASE RecoverSave(s)
  <2>1. PICK found \in w.todo :
          /\ snapshots' = Put(snapshots, found.mission, Forgotten(found.snapshot))
          /\ sess' = [sess EXCEPT ![s] =
                        [w EXCEPT !.pc = "append", !.mission = found.mission,
                                  !.next = Forgotten(found.snapshot),
                                  !.todo = w.todo \ {found}]]
    BY <1>2 DEF RecoverSave
  <2> DEFINE m == found.mission
             y == Forgotten(found.snapshot)
             v == [w EXCEPT !.pc = "append", !.mission = m, !.next = y,
                            !.todo = w.todo \ {found}]
  <2>2. /\ m \in DOMAIN snapshots /\ m \in Missions
        /\ found.snapshot = snapshots[m] /\ snapshots[m] \in Snapshot
        /\ snapshots[m].status = "RUNNING"
    BY <1>0, LogTypes DEF Fed, Sure
  <2>3. y.version = snapshots[m].version + 1
    BY <2>2, ForgottenWrites DEF Writes
  <2>4. UNCHANGED <<events, torn, faults>> /\ w.pc = "recover"
    BY <1>2 DEF RecoverSave
  <2>5. /\ v.pc = "append" /\ v.mission = m /\ v.next = y
        /\ v.todo = w.todo \ {found} /\ v.op = w.op
    BY <1>0 DEF Session
  <2>6. /\ snapshots' = Put(snapshots, m, y) /\ sess' = [sess EXCEPT ![s] = v]
    BY <2>1
  <2>7. \A other \in w.todo \ {found} : other.mission # m
    <3>1. \A other \in w.todo : other = [mission |-> other.mission,
                                          snapshot |-> other.snapshot]
      BY <1>0 DEF Session
    <3>2. \A other \in w.todo : other.snapshot = snapshots[other.mission]
      BY <1>0 DEF Fed
    <3>3. QED
      BY <3>1, <3>2
  <2> HIDE DEF v, y, m
  <2>8. /\ snapshots'[m] = y
        /\ \A n \in DOMAIN snapshots \ {m} :
             n \in DOMAIN snapshots' /\ snapshots'[n] = snapshots[n]
    BY <2>6 DEF Put
  <2>9. w.op = "recover"
    BY <1>0 DEF Fed
  <2>10. \A other \in v.todo :
           other.mission \in DOMAIN snapshots'
             /\ other.snapshot = snapshots'[other.mission]
    BY <1>0, <2>5, <2>7, <2>8 DEF Fed
  <2>11. Fed(v, snapshots')
    BY <2>5, <2>8, <2>9, <2>10 DEF Fed
  <2>12. QED
    BY <2>2, <2>3, <2>4, <2>5, <2>6, <2>11, LogSaves
<1>3. QED
  BY <1>1, <1>2

LEMMA LogFault ==
  ASSUME OneSession, TypeInv, LogInv, NEW s \in Sessions,
         Crash(s) \/ StoreError(s)
  PROVE  LogInv'
<1> DEFINE w == sess[s]
           v == [w EXCEPT !.pc = "fail"]
<1>0. w \in Session /\ Fed(w, snapshots)
  BY DEF TypeInv, SessionsOK, LogInv
<1>1. UNCHANGED <<snapshots, events>> /\ faults' = faults + 1
  BY DEF Crash, StoreError
<1>2. torn \subseteq torn'
  BY DEF Crash, StoreError, Tear
<1>3. Idle.pc = "idle" /\ Idle.todo = {}
  BY DEF Idle
<1>4. CASE sess' = [sess EXCEPT ![s] = Idle]
  <2>1. Fed(Idle, snapshots)
    BY <1>3, Unfed
  <2>2. Idle.pc # "append"
    BY <1>3
  <2>3. QED
    BY <1>1, <1>2, <1>4, <2>1, <2>2, LogQuiet
<1>5. CASE w.op = "apply" /\ sess' = [sess EXCEPT ![s] = v]
  <2>1. v.pc = "fail" /\ v.todo = w.todo
    BY <1>0 DEF Session
  <2>2. w.todo = {}
    BY <1>0, <1>5 DEF Fed
  <2> HIDE DEF v
  <2>3. QED
    BY <1>1, <1>2, <1>5, <2>1, <2>2, Unfed, LogQuiet
<1>6. CASE Crash(s)
  BY <1>4, <1>6 DEF Crash
<1>7. CASE StoreError(s)
  <2>1. CASE w.op = "apply" /\ w.pc \in {"save", "append", "seal"}
    BY <1>5, <1>7, <2>1 DEF StoreError
  <2>2. CASE ~(w.op = "apply" /\ w.pc \in {"save", "append", "seal"})
    BY <1>4, <1>7, <2>2 DEF StoreError
  <2>3. QED
    BY <2>1, <2>2
<1>8. QED
  BY <1>6, <1>7

LEMMA LogStep ==
  OneSession /\ TypeInv /\ SoundInv /\ LogInv /\ [Next]_vars => LogInv'
<1> SUFFICES ASSUME OneSession, TypeInv, SoundInv, LogInv, [Next]_vars PROVE LogInv'
  OBVIOUS
<1>1. CASE UNCHANGED vars
  BY <1>1 DEF vars, disk, LogInv
<1>2. ASSUME NEW s \in Sessions,
             \/ \E m \in Missions, i \in Intents : StartMission(s, m, i)
             \/ \E m \in Missions, mode \in Modes : Advance(s, m, mode)
             \/ RecoverScan(s)
      PROVE  LogInv'
  BY <1>2, LogBegin
<1>3. ASSUME NEW s \in Sessions, Step(s) PROVE LogInv'
  BY <1>3, LogUpdate, LogApply, LogRecover DEF Step
<1>4. ASSUME NEW s \in Sessions, Crash(s) \/ StoreError(s) PROVE LogInv'
  BY <1>4, LogFault
<1>5. ASSUME NEW k \in DOMAIN idempotency, Expire(k) PROVE LogInv'
  BY <1>5 DEF Expire, LogInv
<1>6. QED
  BY <1>1, <1>2, <1>3, <1>4, <1>5 DEF Next

LEMMA LogInvariant ==
  ASSUME OneSession
  PROVE  Spec => [](TypeInv /\ SoundInv /\ LogInv)
<1>1. SoundInv /\ TypeInv /\ [Next]_vars => SoundInv'
  BY SoundStep
<1>2. TypeInv /\ SoundInv /\ LogInv /\ [Next]_vars => LogInv'
  BY LogStep
<1>3. QED
  BY TypeInvariant, SoundInit, LogInit, <1>1, <1>2, PTL DEF Spec

(* With one session, two events of a log never carry the same version: the *)
(* log rises strictly through crashes, errors, retries and recovery.       *)
THEOREM RisingLogs ==
  ASSUME OneSession
  PROVE  Spec => []OneEventPerVersion
<1>1. LogInv => OneEventPerVersion
  BY DEF LogInv, OneEventPerVersion, Filed
<1>2. QED
  BY <1>1, LogInvariant, PTL

(* The last event is an event of the log.                                  *)
LEMMA LastIsLogged ==
  ASSUME TypeInv, NEW s \in Sessions, NEW m \in Missions,
         Filed(m, events[m], snapshots, sess[s]), events[m] # <<>>
  PROVE  \E i \in DOMAIN events[m] : LastEvent(m) = events[m][i]
<1> DEFINE log == events[m]
           Top(i) == /\ \A j \in DOMAIN log : log[j].version <= log[i].version
                     /\ \A j \in DOMAIN log : log[j].version = log[i].version => j <= i
           last == Len(log)
<1>1. /\ log \in Seq(Snapshot) /\ \A i \in DOMAIN log : log[i].version \in Nat
      /\ DOMAIN log = 1 .. last /\ last \in Nat
  BY LogTypes
<1>2. last \in DOMAIN log
  BY <1>1
<1>3. \A j \in DOMAIN log : j < last => log[j].version < log[last].version
  BY <1>2 DEF Filed
<1>4. Top(last)
  <2>1. ASSUME NEW j \in DOMAIN log
        PROVE  log[j].version <= log[last].version /\ j <= last
    <3>1. j = last \/ j < last
      BY <1>1
    <3>2. QED
      BY <1>1, <1>2, <1>3, <3>1
  <2>2. QED
    BY <2>1
<1>5. (CHOOSE i \in DOMAIN log : Top(i)) \in DOMAIN log
  BY <1>2, <1>4
<1>6. QED
  BY <1>5 DEF LastEvent

(* With one session, what recovery takes for granted holds: a last event   *)
(* at the version of the snapshot carries that very snapshot.              *)
THEOREM VersionsAgree ==
  ASSUME OneSession
  PROVE  Spec => []EqualVersionsAgree
<1>1. TypeInv /\ LogInv => EqualVersionsAgree
  <2> SUFFICES ASSUME TypeInv, LogInv, NEW m \in DOMAIN snapshots, events[m] # <<>>,
                      LastEvent(m).version = snapshots[m].version
               PROVE  LastEvent(m) = snapshots[m]
    BY DEF EqualVersionsAgree
  <2>1. m \in Missions /\ snapshots[m].version \in Nat
    BY LogTypes
  <2>2. PICK s \in Sessions : TRUE
    BY DEF LogInv
  <2>3. Filed(m, events[m], snapshots, sess[s])
    BY <2>1 DEF LogInv
  <2>4. PICK i \in DOMAIN events[m] : LastEvent(m) = events[m][i]
    BY <2>1, <2>3, LastIsLogged
  <2>5. events[m][i].version < snapshots[m].version \/ events[m][i] = snapshots[m]
    BY <2>3 DEF Filed
  <2>6. QED
    BY <2>1, <2>4, <2>5
<1>2. QED
  BY <1>1, LogInvariant, PTL

(* With one session, a log lacks at most one event for every fault, and    *)
(* one more while an append is under way.                                  *)
THEOREM EventsLostByFaults ==
  ASSUME OneSession
  PROVE  Spec => []LostEventsBounded
<1>1. TypeInv /\ LogInv => LostEventsBounded
  <2> SUFFICES ASSUME TypeInv, LogInv, NEW m \in DOMAIN snapshots \ torn
               PROVE  snapshots[m].version - Len(events[m])
                        <= faults + Cardinality(AboutToLog(m))
    BY DEF LostEventsBounded
  <2>1. PICK s \in Sessions : TRUE
    BY DEF LogInv
  <2>2. Missed(m, events[m], snapshots, faults, sess[s])
    BY DEF LogInv
  <2>3. CASE Due(sess[s], m)
    <3>1. AboutToLog(m) = {s}
      BY <2>3 DEF OneSession, AboutToLog, Due
    <3>2. Cardinality({s}) = 1
      BY FS_Singleton
    <3>3. QED
      BY <2>2, <2>3, <3>1, <3>2 DEF Missed
  <2>4. CASE ~Due(sess[s], m)
    <3>1. AboutToLog(m) = {}
      BY <2>4 DEF OneSession, AboutToLog, Due
    <3>2. Cardinality({}) = 0
      BY FS_EmptySet
    <3>3. QED
      BY <2>2, <2>4, <3>1, <3>2 DEF Missed
  <2>5. QED
    BY <2>3, <2>4
<1>2. QED
  BY <1>1, LogInvariant, PTL

(* What one step makes of the snapshots: it leaves one alone, writes the   *)
(* next version of it as promised, or starts a mission.                    *)
LEMMA Replaced ==
  ASSUME OneSession, TypeInv, SoundInv, LogInv, [Next]_vars, NEW m \in Missions
  PROVE  \/ /\ m \in DOMAIN snapshots /\ m \in DOMAIN snapshots'
            /\ snapshots'[m] = snapshots[m] \/ Writes(snapshots[m], snapshots'[m])
         \/ m \notin DOMAIN snapshots /\ m \notin DOMAIN snapshots'
         \/ /\ m \notin DOMAIN snapshots /\ m \in DOMAIN snapshots'
            /\ \E i \in Intents : snapshots'[m] = Started(i)
<1>1. CASE UNCHANGED snapshots
  BY <1>1
<1>2. ASSUME NEW n \in DOMAIN snapshots, NEW y, snapshots' = Put(snapshots, n, y),
             Writes(snapshots[n], y)
      PROVE  \/ /\ m \in DOMAIN snapshots /\ m \in DOMAIN snapshots'
                /\ snapshots'[m] = snapshots[m] \/ Writes(snapshots[m], snapshots'[m])
             \/ m \notin DOMAIN snapshots /\ m \notin DOMAIN snapshots'
  <2>1. /\ DOMAIN snapshots' = DOMAIN snapshots /\ snapshots'[n] = y
        /\ \A k \in DOMAIN snapshots \ {n} : snapshots'[k] = snapshots[k]
    BY <1>2 DEF Put
  <2>2. QED
    BY <1>2, <2>1
<1>3. ASSUME NEW s \in Sessions, NEW n \in Missions, NEW i \in Intents,
             StartMission(s, n, i)
      PROVE  \/ UNCHANGED snapshots
             \/ \E k \in Intents : /\ n \notin DOMAIN snapshots
                                   /\ snapshots' = Put(snapshots, n, Started(k))
  BY <1>3 DEF StartMission
<1>4. ASSUME NEW n \in Missions, NEW i \in Intents, n \notin DOMAIN snapshots,
             snapshots' = Put(snapshots, n, Started(i))
      PROVE  \/ /\ m \in DOMAIN snapshots /\ m \in DOMAIN snapshots'
                /\ snapshots'[m] = snapshots[m]
             \/ m \notin DOMAIN snapshots /\ m \notin DOMAIN snapshots'
             \/ /\ m \notin DOMAIN snapshots /\ m \in DOMAIN snapshots'
                /\ snapshots'[m] = Started(i)
  <2>1. /\ DOMAIN snapshots' = DOMAIN snapshots \cup {n}
        /\ snapshots'[n] = Started(i)
        /\ \A k \in DOMAIN snapshots \ {n} : snapshots'[k] = snapshots[k]
    BY <1>4 DEF Put
  <2>2. QED
    BY <1>4, <2>1
<1>5. ASSUME NEW s \in Sessions, SaveSnapshot(s)
      PROVE  \E n \in DOMAIN snapshots : \E y : /\ snapshots' = Put(snapshots, n, y)
                                               /\ Writes(snapshots[n], y)
  <2>1. /\ sess[s].pc = "save"
        /\ snapshots' = Put(snapshots, sess[s].mission, sess[s].next)
    BY <1>5 DEF SaveSnapshot
  <2>2. sess[s].mission \in DOMAIN snapshots
    BY <2>1 DEF TypeInv, AllPlaced, Placed, AtMission
  <2>3. Writes(snapshots[sess[s].mission], sess[s].next)
    BY <2>1 DEF LogInv, Fed
  <2>4. QED
    BY <2>1, <2>2, <2>3
<1>6. ASSUME NEW s \in Sessions, RecoverSave(s)
      PROVE  \E n \in DOMAIN snapshots : \E y : /\ snapshots' = Put(snapshots, n, y)
                                               /\ Writes(snapshots[n], y)
  <2>1. PICK found \in sess[s].todo :
          snapshots' = Put(snapshots, found.mission, Forgotten(found.snapshot))
    BY <1>6 DEF RecoverSave
  <2>2. /\ found.mission \in DOMAIN snapshots
        /\ found.snapshot = snapshots[found.mission]
    BY DEF LogInv, Fed
  <2>3. found.snapshot.status = "RUNNING" /\ found.snapshot \in Snapshot
    BY <2>2, LogTypes DEF SoundInv, Sure
  <2>4. Writes(snapshots[found.mission], Forgotten(found.snapshot))
    BY <2>2, <2>3, ForgottenWrites
  <2>5. QED
    BY <2>1, <2>2, <2>4
<1>7. ASSUME NEW s \in Sessions,
             \/ Refresh(s) \/ LogEvent(s) \/ ReplayKey(s) \/ NewKey(s)
             \/ LoadMission(s) \/ ExecuteCommand(s) \/ SealKey(s) \/ FailKey(s)
             \/ RecoverFind(s) \/ RecoverScan(s) \/ Crash(s) \/ StoreError(s)
      PROVE  UNCHANGED snapshots
  BY <1>7 DEF Refresh, LogEvent, ReplayKey, NewKey, LoadMission, ExecuteCommand,
              SealKey, FailKey, RecoverFind, RecoverScan, Crash, StoreError, disk
<1>8. ASSUME NEW s \in Sessions, NEW n \in Missions, NEW mode \in Modes,
             Advance(s, n, mode)
      PROVE  UNCHANGED snapshots
  BY <1>8 DEF Advance, ReportOnly, AdvanceSkip, AdvancePhaseOnly, AdvanceCommand, disk
<1>9. ASSUME UNCHANGED vars PROVE UNCHANGED snapshots
  BY <1>9 DEF vars, disk
<1>10. ASSUME NEW k \in DOMAIN idempotency, Expire(k) PROVE UNCHANGED snapshots
  BY <1>10 DEF Expire
<1>11. \/ UNCHANGED snapshots
       \/ \E n \in DOMAIN snapshots : \E y : /\ snapshots' = Put(snapshots, n, y)
                                            /\ Writes(snapshots[n], y)
       \/ \E n \in Missions, i \in Intents :
            n \notin DOMAIN snapshots /\ snapshots' = Put(snapshots, n, Started(i))
  <2>1. CASE \E s \in Sessions : SaveSnapshot(s) \/ RecoverSave(s)
    BY <2>1, <1>5, <1>6
  <2>2. CASE \E s \in Sessions, n \in Missions, i \in Intents : StartMission(s, n, i)
    BY <2>2, <1>3
  <2>3. CASE \E s \in Sessions, n \in Missions, mode \in Modes : Advance(s, n, mode)
    BY <2>3, <1>8
  <2>4. CASE \E k \in DOMAIN idempotency : Expire(k)
    BY <2>4, <1>10
  <2>5. CASE \E s \in Sessions :
               \/ Refresh(s) \/ LogEvent(s) \/ ReplayKey(s) \/ NewKey(s)
               \/ LoadMission(s) \/ ExecuteCommand(s) \/ SealKey(s) \/ FailKey(s)
               \/ RecoverFind(s) \/ RecoverScan(s) \/ Crash(s) \/ StoreError(s)
    BY <2>5, <1>7
  <2>6. QED
    BY <1>9, <2>1, <2>2, <2>3, <2>4, <2>5 DEF Next, Step
<1>12. QED
  BY <1>1, <1>2, <1>4, <1>11

(* With one session, a mission that waits for a human, is of unknown       *)
(* outcome or has ended is written by no command, retry or recovery pass.  *)
THEOREM WaitsAreHeld ==
  ASSUME OneSession
  PROVE  Spec => WaitsHeld
<1>1. TypeInv /\ SoundInv /\ LogInv /\ [Next]_vars =>
        [\A m \in DOMAIN snapshots :
           snapshots[m].status \in Waiting \cup {"COMPLETED"} =>
             snapshots'[m] = snapshots[m]]_snapshots
  <2> SUFFICES ASSUME TypeInv, SoundInv, LogInv, [Next]_vars,
                      NEW m \in DOMAIN snapshots,
                      snapshots[m].status \in Waiting \cup {"COMPLETED"}
               PROVE  snapshots'[m] = snapshots[m]
    OBVIOUS
  <2>1. snapshots'[m] = snapshots[m] \/ Writes(snapshots[m], snapshots'[m])
    BY Replaced, LogTypes
  <2>2. ~Writes(snapshots[m], snapshots'[m])
    BY DEF Writes, Promised, Waiting
  <2>3. QED
    BY <2>1, <2>2
<1>2. QED
  BY <1>1, LogInvariant, PTL DEF Spec, WaitsHeld

(* The promise speaks of the same phases and intents.                      *)
LEMMA PromiseNames ==
  ASSUME NEW m
  PROVE  /\ Promise(m)!NoPhase = NoPhase /\ Promise(m)!NoIntent = "none"
         /\ Promise(m)!INTAKE = INTAKE /\ Promise(m)!BIND_SCOPE = BIND_SCOPE
         /\ Promise(m)!INGEST = INGEST /\ Promise(m)!APPROVE = APPROVE
         /\ Promise(m)!CLOSE = CLOSE /\ Promise(m)!ARCHIVE = ARCHIVE
         /\ Promise(m)!EDA_INTENTS = EDA_INTENTS
         /\ \A i : Promise(m)!Conditional(i) = Conditional(i)
<1>1. /\ Promise(m)!NoPhase = NoPhase /\ Promise(m)!NoIntent = "none"
      /\ Promise(m)!INTAKE = INTAKE /\ Promise(m)!BIND_SCOPE = BIND_SCOPE
      /\ Promise(m)!INGEST = INGEST /\ Promise(m)!APPROVE = APPROVE
      /\ Promise(m)!CLOSE = CLOSE /\ Promise(m)!ARCHIVE = ARCHIVE
  BY DEF Promise!NoPhase, Promise!NoIntent, Promise!INTAKE, Promise!BIND_SCOPE,
         Promise!INGEST, Promise!APPROVE, Promise!CLOSE, Promise!ARCHIVE, NoPhase,
         INTAKE, BIND_SCOPE, INGEST, APPROVE, CLOSE, ARCHIVE
<1>2. Promise(m)!EDA_INTENTS = EDA_INTENTS
  BY DEF Promise!EDA_INTENTS, EDA_INTENTS
<1>3. /\ Promise(m)!RECONCILE = RECONCILE /\ Promise(m)!PROPOSE = PROPOSE
      /\ Promise(m)!EXECUTE = EXECUTE
      /\ Promise(m)!HARNESS_INTENTS = HARNESS_INTENTS
  BY DEF Promise!RECONCILE, Promise!PROPOSE, Promise!EXECUTE,
         Promise!HARNESS_INTENTS, RECONCILE, PROPOSE, EXECUTE, HARNESS_INTENTS
<1>4. \A i : Promise(m)!Conditional(i) = Conditional(i)
  BY <1>1, <1>3 DEF Promise!Conditional, Conditional
<1>5. QED
  BY <1>1, <1>2, <1>4

(* With one session, the durable coordinator implements EdaMission for     *)
(* every mission: the stores of a mission, seen through its snapshot, only *)
(* move as the promise has it, through crashes, I/O errors, retries and    *)
(* recovery.                                                               *)
THEOREM PromiseKept ==
  ASSUME OneSession
  PROVE  Spec => KeepsPromise
<1>1. Init => \A m \in Missions : Promise(m)!Init
  BY PromiseNames DEF Init, Promise!Init, StoredIntent, StoredStatus, StoredPhase
<1>2. TypeInv /\ SoundInv /\ LogInv /\ [Next]_vars =>
        [\A m \in Missions : [Promise(m)!Next]_(Promise(m)!lifecycle)]_vars
  <2> SUFFICES ASSUME TypeInv, SoundInv, LogInv, [Next]_vars, NEW m \in Missions
               PROVE  [Promise(m)!Next]_(Promise(m)!lifecycle)
    OBVIOUS
  <2>1. CASE /\ m \in DOMAIN snapshots /\ m \in DOMAIN snapshots'
             /\ snapshots'[m] = snapshots[m]
    BY <2>1 DEF Promise!lifecycle, StoredIntent, StoredStatus, StoredPhase
  <2>2. CASE m \notin DOMAIN snapshots /\ m \notin DOMAIN snapshots'
    BY <2>2 DEF Promise!lifecycle, StoredIntent, StoredStatus, StoredPhase
  <2>3. CASE /\ m \notin DOMAIN snapshots /\ m \in DOMAIN snapshots'
             /\ \E i \in Intents : snapshots'[m] = Started(i)
    <3>1. PICK i \in Intents : snapshots'[m] = Started(i)
      BY <2>3
    <3>2. /\ i \in EDA_INTENTS /\ Started(i).intent = i /\ Started(i).status = "DRAFT"
      BY IntentsAssumption DEF Started
    <3>3. nextPendingPhase(Started(i)) = NoPhase
      <4>1. Started(i) \in Snapshot
        BY <3>2, StartedType DEF EdaIntent
      <4>2. \A p \in Phases : Started(i).steps[p] = "ABSENT"
        BY DEF Started
      <4>3. QED
        BY <4>1, <4>2, NextNone
    <3>4. Promise(m)!Create
      BY <2>3, <3>1, <3>2, <3>3, PromiseNames
         DEF Promise!Create, StoredIntent, StoredStatus, StoredPhase
    <3>5. QED
      BY <3>4 DEF Promise!Next
  <2>4. CASE /\ m \in DOMAIN snapshots /\ m \in DOMAIN snapshots'
             /\ Writes(snapshots[m], snapshots'[m])
    <3> DEFINE x == snapshots[m]
               y == snapshots'[m]
    <3>1. /\ StoredIntent(m) = x.intent /\ StoredStatus(m) = x.status
          /\ StoredPhase(m) = nextPendingPhase(x)
      BY <2>4 DEF StoredIntent, StoredStatus, StoredPhase
    <3>2. /\ StoredIntent(m)' = y.intent /\ StoredStatus(m)' = y.status
          /\ StoredPhase(m)' = nextPendingPhase(y)
      BY <2>4 DEF StoredIntent, StoredStatus, StoredPhase
    <3>3. Promised(x, y)
      BY <2>4 DEF Writes
    <3> HIDE DEF x, y
    <3> DEFINE p == nextPendingPhase(x)
               q == nextPendingPhase(y)
    <3> HIDE DEF p, q
    <3>4. /\ StoredPhase(m) = p /\ StoredPhase(m)' = q
          /\ StoredIntent(m)' = StoredIntent(m)
      BY <3>1, <3>2, <3>3 DEF Promised, p, q
    <3>5. CASE x.status = "DRAFT" /\ y.status = "DRAFT" /\ p = NoPhase /\ q = INTAKE
      BY <3>1, <3>2, <3>4, <3>5, PromiseNames DEF Promise!Next, Promise!Plan
    <3>6. CASE x.status = "DRAFT" /\ y.status = "QUEUED" /\ p = INTAKE /\ q = BIND_SCOPE
      BY <3>1, <3>2, <3>4, <3>6, PromiseNames DEF Promise!Next, Promise!Accept
    <3>7. CASE /\ x.status = "QUEUED" /\ y.status = "RUNNING"
               /\ p = BIND_SCOPE /\ q = INGEST
      BY <3>1, <3>2, <3>4, <3>7, PromiseNames DEF Promise!Next, Promise!Bind
    <3>8. CASE /\ x.status = "RUNNING" /\ y.status = "RUNNING"
               /\ p \in INGEST .. CLOSE /\ q = p + 1
               /\ p = APPROVE => APPROVE \in Conditional(x.intent)
      <4>1. Promise(m)!Pass
        BY <3>1, <3>2, <3>4, <3>8, PromiseNames DEF Promise!Pass
      <4>2. QED
        BY <4>1 DEF Promise!Next
    <3>9. CASE /\ x.status = "RUNNING" /\ y.status = "WAITING_FOR_EVIDENCE"
               /\ p = INGEST /\ q = INGEST
      BY <3>1, <3>2, <3>4, <3>9, PromiseNames DEF Promise!Next, Promise!AskEvidence
    <3>10. CASE /\ x.status = "RUNNING" /\ y.status = "AWAITING_APPROVAL"
                /\ p = APPROVE /\ q = APPROVE
      BY <3>1, <3>2, <3>4, <3>10, PromiseNames DEF Promise!Next, Promise!AskApproval
    <3>11. CASE /\ x.status = "RUNNING" /\ y.status = "COMPLETED"
                /\ p = ARCHIVE /\ q = NoPhase
      BY <3>1, <3>2, <3>4, <3>11, PromiseNames DEF Promise!Next, Promise!Finish
    <3>12. CASE x.status = "RUNNING" /\ y.status = "UNKNOWN" /\ q = p
      BY <3>1, <3>2, <3>4, <3>12, PromiseNames DEF Promise!Next, Promise!LoseTrack
    <3>13. QED
      BY <3>3, <3>5, <3>6, <3>7, <3>8, <3>9, <3>10, <3>11, <3>12 DEF Promised, p, q
  <2>5. QED
    BY <2>1, <2>2, <2>3, <2>4, Replaced
<1>3. QED
  BY <1>1, <1>2, LogInvariant, PTL DEF Spec, KeepsPromise
=============================================================================
